----------------------- MODULE ExecutionScope_protocol -----------------------
(***************************************************************************)
(* The protocol of the closes (ExecutionScope), for every set of programs: *)
(* any number of scopes, threads and items, and every order of their       *)
(* steps.                                                                  *)
(*                                                                         *)
(* Protocol is what makes ScopesSound true and is inductive: who may close *)
(* a scope, where that close has got to, what a parent still knows of the  *)
(* scopes and tasks made below it, and which items its lists hold.  It     *)
(* relates the stacks of all threads to the whole tree, so that a step     *)
(* could disturb most of it.  The proof therefore has two halves.  Goes    *)
(* says what any step may do: how far it changes the calls of its thread   *)
(* (Moves), which calls may follow which (CallsGo), and what becomes of    *)
(* threads, flags, tasks, children, new scopes and items with them.  First *)
(* every part of Protocol is shown to survive any step that Goes, then     *)
(* every action of ExecutionScope is shown to go so.                       *)
(***************************************************************************)
EXTENDS ExecutionScope_proofs
LOCAL INSTANCE SequencesExt


-----------------------------------------------------------------------------
(* The protocol of the closes.  A call has passed the swap of `closed`     *)
(* when it is in one of the parts Past.                                    *)
Past == {"children", "closing", "quiesce", "resource", "finalizer", "detach"}
Ran == {"body", "closing", "finishing", "done"}
In(x, list) == \E a \in 1..Len(list) : list[a] = x
FrameAt(s, pcs) ==
    \E u \in Scopes : \E k \in 1..Len(Calls(u)) :
        Calls(u)[k].scope = s /\ Calls(u)[k].pc \in pcs
Under(c, s) == c \in Scopes \ {Root} /\ scope[c].parent = s

(* Every scope was made in the home of its opener, or in a child scope the *)
(* opener had opened itself; a task's own scope in the home of the task.   *)
Tree ==
    /\ scope[Root].parent = Root /\ scope[Root].opener = Root
    /\ thread[Root].mode \in Ran
    /\ \A n \in Scopes \ {Root} :
         /\ scope[n].parent < n
         /\ scope[n].parent = Root \/ thread[scope[n].parent].mode = "none"
    /\ \A n \in Scopes : thread[n].mode # "none" =>
         scope[n].opener = n /\ thread[n].home = scope[n].parent
    /\ \A n \in Scopes : thread[n].mode = "none" =>
         /\ scope[n].opener < n /\ thread[scope[n].opener].mode \in Ran
         /\ \/ scope[n].parent = thread[scope[n].opener].home
            \/ /\ thread[scope[n].parent].mode = "none"
               /\ scope[scope[n].parent].opener = scope[n].opener

(* The calls of a stack: a close cancels its own scope and closes children,*)
(* a cancel cancels children, so the scopes go down the tree.              *)
Follows(f, g) ==
    /\ f.pc = "children" => g.pc \in CancelPcs /\ g.scope = f.scope
    /\ f.pc = "descend" => g.pc \in CancelPcs /\ Under(g.scope, f.scope)
    /\ f.pc = "closing" => g.pc \in ClosePcs /\ Under(g.scope, f.scope)
Chains ==
    \A u \in Scopes : \A k \in 1..Len(Calls(u)) - 1 :
        Follows(Calls(u)[k], Calls(u)[k + 1])
Ascending ==
    \A u \in Scopes : \A k, l \in 1..Len(Calls(u)) :
        k <= l => Calls(u)[k].scope <= Calls(u)[l].scope

(* The first call of a thread is on a scope it may use; if it is a close,  *)
(* the thread held the guard, or its body is over and the scope is its own.*)
HomeOrGuard(u, s) ==
    \/ s = thread[u].home
    \/ s # Root /\ thread[s].mode = "none" /\ scope[s].opener = u
Bottom(u, f) ==
    /\ f.pc \notin CancelPcs \cup ClosePcs => thread[u].mode = "body"
    /\ f.pc \in AddPcs => f.scope = thread[u].home
    /\ f.pc \in ChildPcs \cup SpawnPcs => HomeOrGuard(u, f.scope)
    /\ f.pc \in ClosePcs =>
         /\ ~scope[f.scope].guarded /\ scope[f.scope].opener = u
         /\ \/ f.scope = u /\ thread[u].mode = "closing"
            \/ /\ f.scope # u /\ f.scope # Root
               /\ thread[f.scope].mode = "none" /\ thread[u].mode = "body"
Bottoms == \A u \in Scopes : Calls(u) # <<>> => Bottom(u, Calls(u)[1])

(* What the calls still have to visit lies below them.                     *)
Visits(f) ==
    /\ f.pc \in {"descend", "closing"} =>
         \A a \in 1..Len(f.todo) : Under(f.todo[a], f.scope)
    /\ f.pc \in {"spawn start", "spawn record"} => Under(f.todo[1], f.scope)
    /\ f.pc = "spawn record" => thread[f.todo[1]].mode \in Ran
Todos ==
    /\ \A u \in Scopes : \A k \in 1..Len(Calls(u)) : Visits(Calls(u)[k])
    /\ \A s \in Scopes : \A a \in 1..Len(scope[s].children) :
         Under(scope[s].children[a], s)

(* One thread closes a scope, and the scope is closed by then; until it is *)
(* drained, that thread is at it.                                          *)
OneCloser ==
    \A u, v \in Scopes : \A k \in 1..Len(Calls(u)) : \A l \in 1..Len(Calls(v)) :
        /\ Calls(u)[k].pc \in Past /\ Calls(v)[l].pc \in Past
        /\ Calls(u)[k].scope = Calls(v)[l].scope
        => u = v /\ k = l
Closers ==
    /\ \A u \in Scopes : \A k \in 1..Len(Calls(u)) :
         Calls(u)[k].pc \in Past =>
           /\ scope[Calls(u)[k].scope].closed
           /\ scope[Calls(u)[k].scope].drained <=> Calls(u)[k].pc = "detach"
    /\ \A s \in Scopes : scope[s].drained => scope[s].closed
    /\ \A s \in Scopes : scope[s].closed /\ ~scope[s].drained => FrameAt(s, Past)

(* A guard that was consumed has closed its scope or is about to; threads  *)
(* whose body is over have consumed theirs.                                *)
Swapping(s, u) ==
    Calls(u) # <<>> /\ Calls(u)[1].scope = s /\ Calls(u)[1].pc = "close"
Guards ==
    /\ \A n \in Scopes : ~scope[n].guarded /\ thread[n].mode # "failed" =>
         scope[n].closed \/ Swapping(n, scope[n].opener)
    /\ \A u \in Scopes : thread[u].mode \in {"closing", "finishing", "done"} =>
         /\ ~scope[u].guarded
         /\ \A n \in Scopes : scope[n].opener = u /\ thread[n].mode = "none" =>
              ~scope[n].guarded
    /\ scope[Root].closed => thread[Root].mode # "body"

(* Nobody closes a scope the main thread opened, but the main thread.      *)
RootAlone ==
    \A u \in Scopes : \A k \in 1..Len(Calls(u)) :
        Calls(u)[k].pc \in ClosePcs /\ scope[Calls(u)[k].scope].opener = Root
          => u = Root

(* A task that was recorded in time is known to its parent until it is     *)
(* done or reported as stalled.                                            *)
TasksKept ==
    \A n \in Scopes \ {Root} : thread[n].mode # "none" /\ scope[n].owned =>
        /\ thread[n].mode \in Ran
        /\ \/ n \in stalled \/ thread[n].mode = "done"
           \/ n \in scope[scope[n].parent].tasks /\ ~Releasing(scope[n].parent)

(* A child that was inserted in time is known to its parent until it is    *)
(* closed, and whoever closes the parent visits it.                        *)
Kept(n) == In(n, scope[scope[n].parent].children) \/ scope[n].closed
Visited(n, u, k) ==
    Calls(u)[k].scope = scope[n].parent /\ Calls(u)[k].pc = "closing" =>
        \/ In(n, Calls(u)[k].todo) \/ scope[n].closed
        \/ k < Len(Calls(u)) /\ Calls(u)[k+1].scope = n /\ Calls(u)[k+1].pc = "close"
Tracked(n) ==
    Kept(n) /\ \A u \in Scopes : \A k \in 1..Len(Calls(u)) : Visited(n, u, k)
ChildOnly(n) == n \in Scopes \ {Root} /\ thread[n].mode = "none"
Known == \A n \in Scopes : ChildOnly(n) /\ scope[n].owned => Tracked(n)
ClosedFirst ==
    \A n \in Scopes : ChildOnly(n) /\ scope[n].owned =>
        (FrameAt(scope[n].parent, {"quiesce"}) => scope[n].closed)
MainKept ==
    \A n \in Scopes : ChildOnly(n) /\ scope[n].owned =>
        (scope[n].opener = Root /\ Releasing(scope[n].parent) => scope[n].drained)

(* Items are listed in the order of their registration, and what is held   *)
(* is listed.                                                              *)
Rising(list) == \A a, b \in 1..Len(list) : a < b => list[a] < list[b]
ListOf(i) ==
    IF item[i].kind = "resource" THEN scope[item[i].scope].resource
                                 ELSE scope[item[i].scope].finalizer
Lists ==
    \A s \in Scopes :
        /\ Rising(scope[s].resource) /\ Rising(scope[s].finalizer)
        /\ \A a \in 1..Len(scope[s].resource) :
             /\ item[scope[s].resource[a]].scope = s
             /\ item[scope[s].resource[a]].kind = "resource"
        /\ \A a \in 1..Len(scope[s].finalizer) :
             /\ item[scope[s].finalizer[a]].scope = s
             /\ item[scope[s].finalizer[a]].kind # "resource"
Listed ==
    \A i \in Items :
        /\ item[i].status = "held" => In(i, ListOf(i))
        /\ thread[item[i].by].mode \in Ran
        /\ thread[item[i].by].home = item[i].scope

(* A list that has been drained gets no item of a task that is waited for. *)
Minded(i) == item[i].by = Root \/ scope[item[i].by].owned
Emptied ==
    stalled = {} => \A i \in Items : Minded(i) =>
        /\ In(i, scope[item[i].scope].resource) =>
             /\ ~scope[item[i].scope].drained
             /\ ~FrameAt(item[i].scope, {"finalizer"})
        /\ In(i, scope[item[i].scope].finalizer) => ~scope[item[i].scope].drained

Protocol ==
    /\ Tree /\ Chains /\ Ascending /\ Bottoms /\ Todos
    /\ OneCloser /\ Closers /\ Guards /\ RootAlone
    /\ TasksKept /\ Known /\ ClosedFirst /\ MainKept
    /\ Lists /\ Listed /\ Emptied
-----------------------------------------------------------------------------
(* What a step of thread t may do to the calls: keep the j lowest of them, *)
(* and have e of them afterwards, f and g being the new ones.              *)
Depth(u) == Len(Calls(u))
Top(u) == Calls(u)[Depth(u)]
Moves(t, j, e, f, g) ==
    /\ j \in Nat /\ j <= Depth(t) /\ Depth(t) <= j + 1
    /\ e \in {j, j + 1, j + 2} /\ Len(Calls(t)') = e
    /\ e > j => Depth(t) = j + 1 \/ (Depth(t) = 0 /\ e = 1)
    /\ \A k \in 1..j : Calls(t)'[k] = Calls(t)[k]
    /\ e > j => Calls(t)'[j + 1] = f
    /\ e = j + 2 => Calls(t)'[j + 2] = g
    /\ \A u \in Scopes \ {t} : Calls(u)' = Calls(u)
Grows ==
    /\ Len(scope') \in Nat /\ Len(scope) <= Len(scope')
    /\ \A n \in Scopes : /\ scope'[n].parent = scope[n].parent
                         /\ scope'[n].opener = scope[n].opener
                         /\ thread'[n].home = thread[n].home

(* A call begins, returns, or goes on, perhaps into another call.          *)
Enters(t, f) == Bottom(t, f)' /\ f.pc \in EntryPcs \cup {"cancel", "close"} /\ f.todo = <<>>
                /\ f.scope \in Scopes
Returns(t) ==
    /\ Top(t).pc \in Past => Top(t).pc = "detach"
    /\ Top(t).pc = "close" => scope[Top(t).scope].closed
ClosesOn(o, e, j, f, g) ==
    /\ f.pc # "close"
    /\ f.pc = "children" => o.pc = "close" /\ ~scope[o.scope].closed /\ e = j + 2
    /\ f.pc = "closing" => f.todo \in Seq(Scopes)
    /\ f.pc = "closing" =>
         \/ /\ o.pc = "children"
            /\ \A c \in Scopes : In(c, f.todo) <=> In(c, scope[o.scope].children)
         \/ /\ o.pc = "closing" /\ e = j + 2 /\ In(g.scope, o.todo)
            /\ \A c \in Scopes : In(c, o.todo) => In(c, f.todo) \/ c = g.scope
            /\ \A c \in Scopes : In(c, f.todo) => In(c, o.todo)
    /\ f.pc = "quiesce" => o.pc = "closing" /\ o.todo = <<>>
    /\ f.pc = "resource" => o.pc = "quiesce"
         /\ \A c \in scope[o.scope].tasks : c \in stalled' \/ thread[c].mode = "done"
    /\ f.pc = "finalizer" => o.pc = "resource" /\ scope[o.scope].resource = <<>>
    /\ f.pc = "detach" => o.pc = "finalizer" /\ scope[o.scope].finalizer = <<>>
Proceeds(t, e, j, f, g) ==
    /\ f.scope = Top(t).scope
    /\ \/ f.pc \in CancelPcs /\ Top(t).pc \in CancelPcs
       \/ f.pc \in ClosePcs /\ Top(t).pc \in ClosePcs
            /\ ClosesOn(Top(t), e, j, f, g)
       \/ f.pc \in SpawnPcs /\ Top(t).pc \in SpawnPcs
    /\ f.pc \in {"descend", "spawn start", "spawn record"} => Visits(f)'
    /\ e = j + 2 =>
         /\ Follows(f, g) /\ g.scope \in Scopes /\ g.todo = <<>>
         /\ f.pc \in Resting /\ g.pc \in {"cancel", "close"}
CallsGo(t, j, e, f, g) ==
    /\ Depth(t) = 0 /\ e = 1 => Enters(t, f)
    /\ Depth(t) = j + 1 /\ e = j => Returns(t)
    /\ Depth(t) = j + 1 /\ e > j => Proceeds(t, e, j, f, g)

(* A thread starts or fails to, begins to close, and finishes.             *)
ThreadsGo(t, e, f) ==
    \A u \in Scopes :
        /\ thread[u].mode = "none" <=> thread'[u].mode = "none"
        /\ \/ thread'[u].mode = thread[u].mode
           \/ thread[u].mode = "starting" /\ thread'[u].mode \in {"body", "failed"}
           \/ /\ u = t /\ thread[t].mode = "body" /\ thread'[t].mode = "closing"
              /\ Depth(t) = 0 /\ e = 1
              /\ ~scope'[t].guarded
              /\ \A n \in Scopes : scope[n].opener = t /\ thread[n].mode = "none" =>
                   ~scope[n].guarded
           \/ /\ u = t /\ Depth(t) = 0 /\ e = 0
              /\ thread[t].mode \in {"closing", "finishing"}
              /\ thread'[t].mode \in {"finishing", "done"}

(* The fields of the scopes change with the calls.                         *)
FlagsGo(t, j, e, f) ==
    \A s \in Scopes :
        /\ scope'[s].guarded => scope[s].guarded
        /\ scope[s].guarded /\ ~scope'[s].guarded =>
             \/ thread'[s].mode = "failed"
             \/ Depth(t) = 0 /\ e = 1 /\ f.scope = s /\ f.pc = "close" /\ scope[s].opener = t
        /\ scope[s].closed => scope'[s].closed
        /\ scope'[s].closed /\ ~scope[s].closed =>
             Depth(t) = j + 1 /\ e > j /\ f.scope = s /\ f.pc = "children"
        /\ Depth(t) = j + 1 /\ e > j /\ f.scope = s /\ f.pc = "children" =>
             scope'[s].closed
        /\ scope[s].drained => scope'[s].drained
        /\ scope'[s].drained /\ ~scope[s].drained =>
             Depth(t) = j + 1 /\ e > j /\ f.scope = s /\ f.pc = "detach"
        /\ Depth(t) = j + 1 /\ e > j /\ f.scope = s /\ f.pc = "detach" =>
             scope'[s].drained
        /\ scope'[s].owned /\ ~scope[s].owned =>
             /\ thread[s].mode \in Ran /\ s # Root
             /\ s \in scope'[scope[s].parent].tasks
             /\ ~scope[scope[s].parent].closed
        /\ thread[s].mode = "none" => (scope'[s].owned => scope[s].owned)
TasksGo(t, j, e, f) ==
    /\ stalled \subseteq stalled'
    /\ \A s \in Scopes : \A c \in scope[s].tasks :
         c \in scope'[s].tasks \/ c \in stalled' \/ thread[c].mode = "done"
ChildrenGo(t, j, e, f) ==
    \A s \in Scopes :
        /\ \A a \in 1..Len(scope'[s].children) :
             /\ scope'[s].children[a] \in Scopes' \ {Root}
             /\ scope'[scope'[s].children[a]].parent = s
        /\ \A c \in Scopes :
             /\ thread[c].mode = "none" /\ scope[c].parent = s
             /\ In(c, scope[s].children)
             => \/ In(c, scope'[s].children) \/ scope[c].closed
                \/ Depth(t) = j + 1 /\ Top(t).pc = "closing" /\ Top(t).scope = s
                     /\ Top(t).todo = <<>>

(* A new scope.                                                            *)
Arrives(t, n) ==
    /\ Calls(n)' = <<>>
    /\ scope'[n].guarded /\ ~scope'[n].closed /\ ~scope'[n].drained
    /\ scope'[n].children = <<>> /\ scope'[n].resource = <<>> /\ scope'[n].finalizer = <<>>
    /\ scope'[n].parent \in Scopes /\ HomeOrGuard(t, scope'[n].parent)
    /\ \/ thread'[n].mode = "starting" /\ scope'[n].opener = n
            /\ thread'[n].home = scope'[n].parent /\ ~scope'[n].owned
       \/ thread'[n].mode = "none" /\ scope'[n].opener = t
    /\ scope'[n].owned => ~scope[scope'[n].parent].closed
    /\ In(n, scope'[scope'[n].parent].children)
Arrivals(t) ==
    \A n \in Scopes' \ Scopes :
        thread[t].mode = "body" /\ thread'[t].mode = "body" /\ Arrives(t, n)

(* An item is added at the end of a list, in the home of the thread; the   *)
(* last of a list is released.                                             *)
ListGoes(s, kind, old, new) ==
    \/ new = old
    \/ old # <<>> /\ new = Front(old) /\ item'[Last(old)].status # "held"
    \/ /\ Len(item') = Len(item) + 1 /\ new = Append(old, Len(item) + 1)
       /\ item'[Len(item) + 1].scope = s
       /\ item'[Len(item) + 1].kind = "resource" <=> kind = "resource"
ItemsGo(t, j, e) ==
    /\ Len(item') \in {Len(item), Len(item) + 1}
    /\ \A i \in Items :
         /\ item'[i].kind = item[i].kind /\ item'[i].scope = item[i].scope
         /\ item'[i].by = item[i].by
         /\ item'[i].status = "held" => item[i].status = "held"
    /\ \A s \in Scopes :
         /\ ListGoes(s, "resource", scope[s].resource, scope'[s].resource)
         /\ ListGoes(s, "finalizer", scope[s].finalizer, scope'[s].finalizer)
    /\ \A i \in Items' \ Items :
         /\ item'[i].by = t /\ item'[i].scope = thread[t].home
         /\ thread[t].mode = "body" /\ Depth(t) = j + 1 /\ e = j
         /\ In(i, ListOf(i)')

Goes(t, j, e, f, g) ==
    /\ t \in Scopes /\ Grows /\ Moves(t, j, e, f, g) /\ CallsGo(t, j, e, f, g)
    /\ ThreadsGo(t, e, f) /\ FlagsGo(t, j, e, f)
    /\ TasksGo(t, j, e, f) /\ ChildrenGo(t, j, e, f)
    /\ Arrivals(t) /\ ItemsGo(t, j, e)

(* A call is on a scope and visits scopes, or items.                       *)
LEMMA CallTyped ==
  ASSUME Typed, NEW u \in Scopes, NEW k \in 1..Len(Calls(u))
  PROVE  /\ Calls(u)[k] \in CallRec(Len(scope), Len(item))
         /\ Calls(u)[k].scope \in Scopes /\ Calls(u)[k].pc \in Pcs
         /\ Calls(u)[k].pc # "asking" => Calls(u)[k].todo \in Seq(Scopes)
         /\ Calls(u)[k].pc = "asking" => Calls(u)[k].todo \in Seq(Items)
<1>1. Calls(u)[k] \in CallRec(Len(scope), Len(item))
  BY ThreadTyped
<1> QED
  BY <1>1 DEF CallRec, Scopes, Items, Pcs, CancelPcs

(* The depth of a stack is a number, zero for no calls.                    *)
LEMMA DepthTyped ==
  ASSUME Typed, NEW u \in Scopes
  PROVE  /\ Depth(u) \in Nat /\ Len(Calls(u)) \in Nat
         /\ Calls(u) = <<>> <=> Depth(u) = 0
         /\ Depth(u) # 0 => Depth(u) \in 1..Len(Calls(u))
BY ThreadTyped, EmptySeq, LenProperties DEF Depth

(* The calls after a step: old ones, and f and g.                          *)
IsOld(u, k) == u \in Scopes /\ k \in 1..Len(Calls(u)) /\ Calls(u)'[k] = Calls(u)[k]
IsF(t, j, e, f, u, k) ==
    /\ u = t /\ k = j + 1 /\ e > j /\ Calls(t)'[k] = f
    /\ Depth(t) = j + 1 \/ (Depth(t) = 0 /\ j = 0 /\ e = 1)
IsG(t, j, e, f, g, u, k) ==
    /\ u = t /\ k = j + 2 /\ e = j + 2 /\ Depth(t) = j + 1
    /\ Calls(t)'[k] = g /\ Calls(t)'[j + 1] = f

(* A step keeps the scopes and may make one more: numbers go up.           *)
LEMMA ScopesAfter ==
  ASSUME IndInv, NEW t, NEW j, NEW e, NEW f, NEW g, Goes(t, j, e, f, g)
  PROVE  /\ t \in Scopes /\ Scopes \subseteq Scopes'
         /\ Len(scope) \in Nat \ {0} /\ Len(scope') \in Nat
         /\ Scopes = 1..Len(scope) /\ Scopes' = 1..Len(scope')
         /\ Root \in Scopes
         /\ j \in Nat /\ e \in Nat /\ Depth(t) \in Nat
         /\ \A u \in Scopes' \ Scopes : Calls(u)' = <<>> /\ Len(Calls(u)') = 0
<1>1. Len(scope) \in Nat \ {0} /\ Len(scope') \in Nat /\ Len(scope) <= Len(scope')
  BY DEF IndInv, Typed, Goes, Grows
<1>2. Scopes = 1..Len(scope) /\ Scopes' = 1..Len(scope')
  BY DEF Scopes
<1>3. t \in Scopes /\ Depth(t) \in Nat
  BY DepthTyped DEF IndInv, Goes
<1>4. j \in Nat /\ e \in Nat
  BY DEF Goes, Moves
<1>5. \A u \in Scopes' \ Scopes : Calls(u)' = <<>>
  BY DEF Goes, Arrivals, Arrives
<1>6. Len(<<>>) = 0
  BY EmptySeq
<1> QED
  BY <1>1, <1>2, <1>3, <1>4, <1>5, <1>6 DEF Root

(* Every call after a step is an old one, or f, or g.                      *)
LEMMA FramesAfter ==
  ASSUME IndInv, NEW t, NEW j, NEW e, NEW f, NEW g, Goes(t, j, e, f, g),
         NEW u \in Scopes', NEW k \in 1..Len(Calls(u)')
  PROVE  /\ u \in Scopes /\ k \in Nat \ {0}
         /\ \/ IsOld(u, k) /\ (u # t \/ k <= j)
            \/ IsF(t, j, e, f, u, k)
            \/ IsG(t, j, e, f, g, u, k)
<1>1. u \in Scopes
  BY ScopesAfter
<1>2. CASE u # t
  <2>1. Calls(u)' = Calls(u)
    BY <1>1, <1>2 DEF Goes, Moves
  <2> QED
    BY <1>1, <1>2, <2>1, DepthTyped DEF IsOld, IndInv
<1>3. CASE u = t
  <2>1. k \in 1..e /\ e \in {j, j + 1, j + 2} /\ j \in Nat /\ j <= Len(Calls(t)) /\ Len(Calls(t)) \in Nat
    BY <1>3, ScopesAfter DEF Goes, Moves, Depth
  <2>2. k \in 1..j \/ (k = j + 1 /\ e > j) \/ (k = j + 2 /\ e = j + 2)
    BY <2>1
  <2>3. CASE k \in 1..j
    BY <1>1, <1>3, <2>1, <2>3 DEF Goes, Moves, IsOld
  <2>4. CASE k = j + 1 /\ e > j
    BY <1>1, <1>3, <2>1, <2>4, ScopesAfter DEF Goes, Moves, IsF, Depth
  <2>5. CASE k = j + 2 /\ e = j + 2
    BY <1>1, <1>3, <2>1, <2>5, ScopesAfter DEF Goes, Moves, IsG, Depth
  <2> QED
    BY <2>2, <2>3, <2>4, <2>5, <1>1
<1> QED
  BY <1>2, <1>3

(* The calls before it: all but the top of t are there afterwards.         *)
LEMMA FramesBefore ==
  ASSUME IndInv, NEW t, NEW j, NEW e, NEW f, NEW g, Goes(t, j, e, f, g),
         NEW u \in Scopes, NEW k \in 1..Len(Calls(u))
  PROVE  \/ /\ u \in Scopes' /\ k \in 1..Len(Calls(u)')
            /\ Calls(u)'[k] = Calls(u)[k] /\ (u # t \/ k <= j)
         \/ u = t /\ k = j + 1 /\ Depth(t) = j + 1
<1>1. CASE u # t
  <2>1. Calls(u)' = Calls(u)
    BY <1>1 DEF Goes, Moves
  <2> QED
    BY <1>1, <2>1, ScopesAfter
<1>2. CASE u = t
  <2>1. k \in Nat \ {0} /\ k <= Len(Calls(t)) /\ Len(Calls(t)) <= j + 1 /\ j <= Len(Calls(t))
        /\ Len(Calls(t)) \in Nat /\ j \in Nat
    BY <1>2, ScopesAfter DEF Goes, Moves, Depth
  <2>2. CASE k <= j
    BY <1>2, <2>1, <2>2, ScopesAfter DEF Goes, Moves
  <2>3. CASE k > j
    BY <1>2, <2>1, <2>3 DEF Depth
  <2> QED
    BY <2>1, <2>2, <2>3
<1> QED
  BY <1>1, <1>2

(* A scope made for a task is never made a child scope, or back, and a     *)
(* thread that ran has run.                                                *)
LEMMA ModesAfter ==
  ASSUME IndInv, NEW t, NEW j, NEW e, NEW f, NEW g, Goes(t, j, e, f, g),
         NEW u \in Scopes
  PROVE  /\ thread[u].mode = "none" <=> thread'[u].mode = "none"
         /\ thread[u].mode \in Ran => thread'[u].mode \in Ran
         /\ Calls(u) # <<>> => thread'[u].mode = thread[u].mode
         /\ thread[u].mode = "done" => thread'[u].mode = "done"
         /\ thread[u].mode = "failed" => thread'[u].mode = "failed"
<1>1. Calls(u) # <<>> => thread[u].mode \in {"body", "closing"}
  BY DEF IndInv, Stacks
<1>2. u = t /\ Depth(t) = 0 => Calls(u) = <<>>
  BY DepthTyped DEF IndInv
<1> QED
  BY <1>1, <1>2 DEF Goes, ThreadsGo, Ran

(* What Tree says of one scope.                                            *)
LEMMA TreeOf ==
  ASSUME IndInv, Tree, NEW n \in Scopes
  PROVE  /\ scope[n].parent \in Scopes /\ scope[n].opener \in Scopes
         /\ thread[n].home \in Scopes
         /\ n # Root => scope[n].parent < n
         /\ n # Root /\ thread[n].mode = "none" => scope[n].opener < n
         /\ Root \in Scopes
<1>1. scope[n] \in ScopeRec(Len(scope), Len(item)) /\ Scopes = 1..Len(scope)
      /\ thread[n].home \in Scopes /\ Len(scope) \in Nat \ {0}
  BY ScopeTyped, ThreadTyped, TypedShapes DEF IndInv
<1> QED
  BY <1>1 DEF Tree, ScopeRec, Root

(* The tree: parents and openers are set once, and a new scope is made in  *)
(* the home of its opener or in a child scope it opened.                   *)
LEMMA TreeKept ==
  ASSUME IndInv, Tree, NEW t, NEW j, NEW e, NEW f, NEW g, Goes(t, j, e, f, g)
  PROVE  Tree'
<1>1. \A n \in Scopes : /\ scope'[n].parent = scope[n].parent
                        /\ scope'[n].opener = scope[n].opener
                        /\ thread'[n].home = thread[n].home
  BY DEF Goes, Grows
<1>2. \A n \in Scopes :
        /\ thread[n].mode = "none" <=> thread'[n].mode = "none"
        /\ thread[n].mode \in Ran => thread'[n].mode \in Ran
  BY ModesAfter
<1>3. \A n \in Scopes : /\ scope[n].parent \in Scopes /\ scope[n].opener \in Scopes
                        /\ thread[n].home \in Scopes
  BY TreeOf
<1>4. \A n \in Scopes' \ Scopes :
        /\ thread[t].mode = "body" /\ n > t /\ scope'[n].parent < n /\ n # Root
        /\ scope'[n].parent \in Scopes /\ HomeOrGuard(t, scope'[n].parent)
        /\ \/ thread'[n].mode = "starting" /\ scope'[n].opener = n
                /\ thread'[n].home = scope'[n].parent
           \/ thread'[n].mode = "none" /\ scope'[n].opener = t
  <2>1. \A n \in Scopes' \ Scopes : \A s \in Scopes : s < n
    BY ScopesAfter
  <2> QED
    BY <2>1, ScopesAfter DEF Goes, Arrivals, Arrives, Root
<1>5. Root \in Scopes /\ t \in Scopes /\ Scopes \subseteq Scopes'
  BY ScopesAfter
<1>6. (scope[Root].parent = Root /\ scope[Root].opener = Root /\ thread[Root].mode \in Ran)'
  BY <1>1, <1>2, <1>5 DEF Tree
<1>7. thread[t].mode # "none" =>
        thread[t].home = Root \/ thread[thread[t].home].mode = "none"
  BY <1>3, <1>5 DEF Tree
<1>8. ASSUME NEW n \in Scopes' \ {Root}
      PROVE  /\ scope'[n].parent < n
             /\ scope'[n].parent = Root \/ thread'[scope'[n].parent].mode = "none"
  <2>1. CASE n \in Scopes
    BY <1>1, <1>2, <1>3, <2>1 DEF Tree
  <2>2. CASE n \notin Scopes
    <3>1. /\ scope'[n].parent < n /\ scope'[n].parent \in Scopes
          /\ HomeOrGuard(t, scope'[n].parent)
      BY <1>4, <2>2
    <3>2. scope'[n].parent = Root \/ thread[scope'[n].parent].mode = "none"
      BY <1>4, <1>7, <2>2, <3>1 DEF HomeOrGuard
    <3> QED
      BY <1>2, <3>1, <3>2
  <2> QED
    BY <2>1, <2>2
<1>9. ASSUME NEW n \in Scopes', thread'[n].mode # "none"
      PROVE  scope'[n].opener = n /\ thread'[n].home = scope'[n].parent
  BY <1>1, <1>2, <1>4, <1>9 DEF Tree
<1>10. ASSUME NEW n \in Scopes', thread'[n].mode = "none"
      PROVE  /\ scope'[n].opener < n /\ thread'[scope'[n].opener].mode \in Ran
             /\ \/ scope'[n].parent = thread'[scope'[n].opener].home
                \/ /\ thread'[scope'[n].parent].mode = "none"
                   /\ scope'[scope'[n].parent].opener = scope'[n].opener
  <2>1. CASE n \in Scopes
    BY <1>1, <1>2, <1>3, <1>10, <2>1 DEF Tree
  <2>2. CASE n \notin Scopes
    <3>1. /\ scope'[n].opener = t /\ t < n /\ thread[t].mode = "body"
          /\ scope'[n].parent \in Scopes /\ HomeOrGuard(t, scope'[n].parent)
      BY <1>4, <1>10, <2>2
    <3> QED
      BY <1>1, <1>2, <1>5, <3>1 DEF HomeOrGuard, Ran
  <2> QED
    BY <2>1, <2>2
<1> QED
  BY <1>6, <1>8, <1>9, <1>10 DEF Tree

(* A call that follows another still does.                                 *)
LEMMA FollowsKept ==
  ASSUME IndInv, Tree, NEW t, NEW j, NEW e, NEW f, NEW g, Goes(t, j, e, f, g),
         NEW a, NEW b, b.scope \in Scopes, Follows(a, b)
  PROVE  Follows(a, b)'
BY ScopesAfter DEF Follows, Under, Goes, Grows

(* A step calls only down the tree, so the stacks stay chains.             *)
LEMMA ChainsKept ==
  ASSUME IndInv, Tree, Chains, NEW t, NEW j, NEW e, NEW f, NEW g, Goes(t, j, e, f, g)
  PROVE  Chains'
<1> SUFFICES ASSUME NEW u \in Scopes', NEW k \in 1..Len(Calls(u)') - 1,
                    NEW a, NEW b, a = Calls(u)'[k], b = Calls(u)'[k + 1]
             PROVE  Follows(a, b)'
  BY DEF Chains, Follows, Under
<1>0. Len(Calls(u)') \in Nat /\ k \in 1..Len(Calls(u)') /\ k + 1 \in 1..Len(Calls(u)')
      /\ k \in Nat /\ u \in Scopes
  <2>1. Len(Calls(u)') \in Nat
    <3>1. CASE u \in Scopes
      BY <3>1, DepthTyped, ScopesAfter DEF Goes, Moves, IndInv
    <3>2. CASE u \notin Scopes
      BY <3>2, ScopesAfter
    <3> QED
      BY <3>1, <3>2
  <2>2. k \in 1..Len(Calls(u)') /\ k + 1 \in 1..Len(Calls(u)')
    BY <2>1
  <2> QED
    BY <2>1, <2>2, FramesAfter
<1>1. \/ IsOld(u, k) /\ (u # t \/ k <= j)
      \/ IsF(t, j, e, f, u, k) \/ IsG(t, j, e, f, g, u, k)
  BY <1>0, FramesAfter
<1>2. \/ IsOld(u, k + 1) /\ (u # t \/ k + 1 <= j)
      \/ IsF(t, j, e, f, u, k + 1) \/ IsG(t, j, e, f, g, u, k + 1)
  BY <1>0, FramesAfter
<1>3. j \in Nat
  BY ScopesAfter
<1>4. CASE IsOld(u, k + 1) /\ (u # t \/ k + 1 <= j)
  <2>1. IsOld(u, k)
    BY <1>0, <1>1, <1>2, <1>3, <1>4 DEF IsOld, IsF, IsG
  <2>2. Len(Calls(u)) \in Nat
    BY <1>0, DepthTyped DEF IndInv
  <2>3. Follows(Calls(u)[k], Calls(u)[k + 1])
    BY <1>0, <1>4, <2>1, <2>2 DEF Chains, IsOld
  <2>4. Calls(u)[k + 1].scope \in Scopes
    BY <1>0, <1>4, CallTyped DEF IsOld, IndInv
  <2> QED
    BY <1>4, <2>1, <2>3, <2>4, FollowsKept DEF IsOld
<1>5. CASE IsF(t, j, e, f, u, k + 1)
  <2>1. IsOld(u, k) /\ k = j /\ j # 0 /\ Depth(t) = j + 1 /\ u = t /\ b = f
    BY <1>0, <1>1, <1>3, <1>5 DEF IsOld, IsF, IsG
  <2>2. Len(Calls(t)) = j + 1
    BY <2>1 DEF Depth
  <2>3. Follows(Calls(t)[k], Top(t)) /\ Top(t).scope \in Scopes
    BY <1>0, <2>1, <2>2, CallTyped DEF Chains, Top, IndInv
  <2>4. Proceeds(t, e, j, f, g)
    BY <2>1, <1>5 DEF Goes, CallsGo, IsF
  <2>5. Follows(Calls(t)[k], f) /\ f.scope \in Scopes
    <3>1. f.scope = Top(t).scope
      BY <2>4 DEF Proceeds
    <3>2. /\ Top(t).pc \in CancelPcs => f.pc \in CancelPcs
          /\ Top(t).pc \in ClosePcs => f.pc \in ClosePcs
      BY <2>4 DEF Proceeds, CancelPcs, ClosePcs, SpawnPcs
    <3> QED
      BY <2>3, <3>1, <3>2 DEF Follows, Under
  <2> QED
    BY <2>1, <2>5, FollowsKept DEF IsOld
<1>6. CASE IsG(t, j, e, f, g, u, k + 1)
  <2>1. a = f /\ b = g /\ Depth(t) = j + 1 /\ e = j + 2
    BY <1>0, <1>3, <1>6 DEF IsG
  <2>2. Follows(f, g) /\ g.scope \in Scopes
    <3>1. Proceeds(t, e, j, f, g)
      BY <2>1, <1>3 DEF Goes, CallsGo
    <3> QED
      BY <2>1, <3>1 DEF Proceeds
  <2> QED
    BY <2>1, <2>2, FollowsKept
<1> QED
  BY <1>2, <1>4, <1>5, <1>6

(* The new calls: the one that went on, the one it made, the first one.    *)
LEMMA TopAt ==
  ASSUME IndInv, NEW t, NEW j, NEW e, NEW f, NEW g, Goes(t, j, e, f, g), Depth(t) = j + 1
  PROVE  /\ j + 1 \in 1..Len(Calls(t)) /\ Top(t) = Calls(t)[j + 1] /\ Calls(t) # <<>>
         /\ Top(t).scope \in Scopes /\ Top(t).pc \in Pcs
<1>1. j + 1 \in 1..Len(Calls(t)) /\ Calls(t) # <<>>
  BY ScopesAfter, DepthTyped DEF IndInv, Depth
<1> QED
  BY <1>1, CallTyped, ScopesAfter DEF Top, IndInv

(* The call f: the first of its thread, or the top one, gone on.           *)
LEMMA WentOn ==
  ASSUME IndInv, NEW t, NEW j, NEW e, NEW f, NEW g, Goes(t, j, e, f, g),
         NEW u, NEW k, IsF(t, j, e, f, u, k)
  PROVE  \/ /\ Depth(t) = 0 /\ j = 0 /\ e = 1 /\ Enters(t, f) /\ k = 1
         \/ /\ Depth(t) = j + 1 /\ Proceeds(t, e, j, f, g) /\ f.scope = Top(t).scope
            /\ j + 1 \in 1..Len(Calls(t)) /\ Top(t) = Calls(t)[j + 1]
            /\ Top(t).scope \in Scopes
<1>1. CASE Depth(t) = j + 1
  <2>1. Proceeds(t, e, j, f, g)
    BY <1>1 DEF Goes, CallsGo, IsF
  <2> QED
    BY <1>1, <2>1, TopAt DEF Proceeds
<1>2. CASE Depth(t) = 0 /\ j = 0 /\ e = 1
  BY <1>2 DEF Goes, CallsGo, IsF
<1> QED
  BY <1>1, <1>2 DEF IsF

(* The call g: made by f, which waits for it.                              *)
LEMMA Called ==
  ASSUME IndInv, NEW t, NEW j, NEW e, NEW f, NEW g, Goes(t, j, e, f, g),
         e = j + 2
  PROVE  /\ Depth(t) = j + 1 /\ Proceeds(t, e, j, f, g) /\ f.scope = Top(t).scope
         /\ Follows(f, g) /\ g.scope \in Scopes /\ g.todo = <<>>
         /\ f.pc \in Resting /\ g.pc \in {"cancel", "close"}
<1>1. e > j /\ e # 1
  BY ScopesAfter
<1>2. Depth(t) = j + 1 /\ e > j
  BY ScopesAfter DEF Goes, Moves
<1>3. Proceeds(t, e, j, f, g)
  BY <1>2 DEF Goes, CallsGo
<1> QED
  BY <1>2, <1>3 DEF Proceeds

(* Under is down the tree.                                                 *)
LEMMA UnderLess ==
  ASSUME IndInv, Tree, NEW c \in Scopes, NEW s, Under(c, s)
  PROVE  s \in Scopes /\ s < c
BY TreeOf DEF Under

(* A call is made on the same scope (close cancels its own) or on a child. *)
LEMMA CalledBelow ==
  ASSUME IndInv, Tree, NEW t, NEW j, NEW e, NEW f, NEW g, Goes(t, j, e, f, g),
         e = j + 2
  PROVE  f.scope \in Scopes /\ g.scope \in Scopes /\ f.scope <= g.scope
<1>1. /\ Depth(t) = j + 1 /\ f.scope = Top(t).scope
      /\ Follows(f, g) /\ g.scope \in Scopes /\ f.pc \in Resting
  BY Called
<1>2. f.scope \in Scopes
  BY <1>1, TopAt
<1>3. g.scope = f.scope \/ Under(g.scope, f.scope)
  BY <1>1 DEF Follows, Resting
<1> QED
  BY <1>1, <1>2, <1>3, UnderLess, ScopesAfter

(* Along a stack the scopes go down the tree.                              *)
LEMMA AscendingKept ==
  ASSUME IndInv, Tree, Ascending, NEW t, NEW j, NEW e, NEW f, NEW g, Goes(t, j, e, f, g)
  PROVE  Ascending'
<1> SUFFICES ASSUME NEW u \in Scopes', NEW k \in 1..Len(Calls(u)'),
                    NEW l \in 1..Len(Calls(u)'), k <= l
             PROVE  Calls(u)'[k].scope <= Calls(u)'[l].scope
  BY DEF Ascending
<1>1. /\ u \in Scopes /\ k \in Nat /\ l \in Nat /\ j \in Nat
      /\ \/ IsOld(u, k) /\ (u # t \/ k <= j)
         \/ IsF(t, j, e, f, u, k) \/ IsG(t, j, e, f, g, u, k)
      /\ \/ IsOld(u, l) /\ (u # t \/ l <= j)
         \/ IsF(t, j, e, f, u, l) \/ IsG(t, j, e, f, g, u, l)
  BY FramesAfter, ScopesAfter
<1>2. CASE IsOld(u, l) /\ (u # t \/ l <= j)
  <2>1. IsOld(u, k)
    BY <1>1, <1>2 DEF IsOld, IsF, IsG
  <2> QED
    BY <1>2, <2>1 DEF IsOld, Ascending
<1>3. CASE IsF(t, j, e, f, u, l)
  <2>1. u = t /\ l = j + 1 /\ Calls(u)'[l] = f
    BY <1>3 DEF IsF
  <2>2. CASE k = l
    <3>1. f.scope \in Scopes
      BY <1>3, WentOn DEF Enters
    <3>2. f.scope \in Nat
      BY <3>1, ScopesAfter
    <3> QED
      BY <2>1, <2>2, <3>2
  <2>3. CASE k # l
    <3>1. IsOld(u, k) /\ k <= j /\ Depth(t) = j + 1
      BY <1>1, <1>3, <2>1, <2>3, WentOn DEF IsF, IsG
    <3>2. /\ f.scope = Top(t).scope
          /\ j + 1 \in 1..Len(Calls(t)) /\ Top(t) = Calls(t)[j + 1]
      BY <1>1, <1>3, <3>1, WentOn
    <3> QED
      BY <1>1, <2>1, <3>1, <3>2 DEF IsOld, Ascending
  <2> QED
    BY <2>2, <2>3
<1>4. CASE IsG(t, j, e, f, g, u, l)
  <2>1. u = t /\ l = j + 2 /\ e = j + 2 /\ Depth(t) = j + 1 /\ Calls(u)'[l] = g /\ Calls(u)'[j + 1] = f
    BY <1>4 DEF IsG
  <2>2. f.scope \in Nat /\ g.scope \in Nat /\ f.scope <= g.scope /\ f.scope = Top(t).scope
    BY <2>1, CalledBelow, Called, ScopesAfter
  <2>3. CASE k = j + 2
    BY <2>1, <2>2, <2>3
  <2>4. CASE k = j + 1
    BY <2>1, <2>2, <2>4
  <2>5. CASE k <= j
    <3>1. IsOld(u, k)
      BY <1>1, <2>5 DEF IsF, IsG
    <3>2. Calls(t)[k].scope <= Top(t).scope /\ Calls(t)[k].scope \in Nat
      <4>1. j + 1 \in 1..Len(Calls(t)) /\ Top(t) = Calls(t)[j + 1]
        BY <2>1, TopAt
      <4>2. Calls(t)[k].scope \in Scopes
        BY <2>1, <3>1, CallTyped DEF IsOld, IndInv
      <4> QED
        BY <1>1, <2>1, <2>5, <3>1, <4>1, <4>2, ScopesAfter DEF IsOld, Ascending
    <3> QED
      BY <2>1, <2>2, <3>1, <3>2 DEF IsOld
  <2> QED
    BY <1>1, <2>1, <2>3, <2>4, <2>5, <1>4 DEF IsF, IsG
<1> QED
  BY <1>1, <1>2, <1>3, <1>4

(* The stacks after a step.                                                *)
LEMMA CallsAfter ==
  ASSUME IndInv', NEW u \in Scopes'
  PROVE  /\ Calls(u)' \in Seq(CallRec(Len(scope'), Len(item')))
         /\ Len(Calls(u)') \in Nat
         /\ Calls(u)' # <<>> => 1 \in 1..Len(Calls(u)')
<1>1. /\ thread' \in Seq(ThreadRec(Len(scope'), Len(item')))
      /\ u \in 1..Len(thread')
  BY DEF IndInv, Typed, Shapes, ThreadRec, CallRec, Scopes
<1>2. thread'[u] \in ThreadRec(Len(scope'), Len(item'))
  BY <1>1
<1>3. Calls(u)' \in Seq(CallRec(Len(scope'), Len(item')))
  BY <1>2 DEF ThreadRec, Calls
<1> QED
  BY <1>3, EmptySeq, LenProperties

(* What a first call needs, it keeps.                                      *)
LEMMA BottomKept ==
  ASSUME IndInv, Tree, NEW t, NEW j, NEW e, NEW f, NEW g, Goes(t, j, e, f, g),
         NEW u \in Scopes, NEW a, a.scope \in Scopes, Calls(u) # <<>>, Bottom(u, a)
  PROVE  Bottom(u, a)'
<1>1. /\ thread'[u].mode = thread[u].mode /\ thread'[u].home = thread[u].home
      /\ thread[a.scope].mode = "none" <=> thread'[a.scope].mode = "none"
      /\ scope'[a.scope].opener = scope[a.scope].opener
      /\ scope'[a.scope].guarded => scope[a.scope].guarded
  BY ModesAfter DEF Goes, Grows, FlagsGo
<1> QED
  BY <1>1 DEF Bottom, HomeOrGuard

(* The first call of every thread: begun by its running body, or the close *)
(* of its own scope.                                                       *)
LEMMA BottomsKept ==
  ASSUME IndInv, IndInv', Tree, Bottoms, NEW t, NEW j, NEW e, NEW f, NEW g, Goes(t, j, e, f, g)
  PROVE  Bottoms'
<1> SUFFICES ASSUME NEW u \in Scopes', Calls(u)' # <<>>,
                    NEW a, a = Calls(u)'[1]
             PROVE  Bottom(u, a)'
  BY DEF Bottoms, Bottom, HomeOrGuard
<1>1. u \in Scopes
  BY ScopesAfter
<1>2. CASE u # t
  <2>1. Calls(u)' = Calls(u)
    BY <1>1, <1>2 DEF Goes, Moves
  <2>2. 1 \in 1..Len(Calls(u))
    BY <1>1, <2>1, DepthTyped DEF IndInv, Depth
  <2>3. a.scope \in Scopes
    BY <1>1, <2>1, <2>2, CallTyped DEF IndInv
  <2> QED
    BY <1>1, <2>1, <2>3, BottomKept DEF Bottoms
<1>3. CASE u = t
  <2>1. 1 \in 1..Len(Calls(t)')
    BY <1>3, CallsAfter
  <2>2. \/ IsOld(t, 1) /\ 1 <= j
        \/ IsF(t, j, e, f, t, 1) \/ IsG(t, j, e, f, g, t, 1)
    BY <1>1, <1>3, <2>1, FramesAfter
  <2>3. CASE IsOld(t, 1)
    BY <1>1, <1>3, <2>3, BottomKept, CallTyped, DepthTyped DEF Bottoms, IndInv, IsOld
  <2>4. CASE IsF(t, j, e, f, t, 1)
    <3>1. CASE Enters(t, f)
      BY <1>3, <2>4, <3>1 DEF Enters, IsF
    <3>2. CASE Depth(t) = 1 /\ Proceeds(t, e, j, f, g) /\ Top(t).scope \in Scopes /\ Top(t) = Calls(t)[1]
      <4>1. Bottom(t, Top(t)) /\ Calls(t) # <<>>
        BY <1>1, <1>3, <3>2, DepthTyped DEF Bottoms, IndInv
      <4>2. Bottom(t, f) /\ f.scope = Top(t).scope
        BY <3>2, <4>1 DEF Proceeds, Bottom, CancelPcs, ClosePcs, SpawnPcs, ChildPcs, AddPcs
      <4> QED
        BY <1>1, <1>3, <2>4, <3>2, <4>1, <4>2, BottomKept DEF IsF
    <3> QED
      BY <2>4, <3>1, <3>2, WentOn, ScopesAfter DEF IsF
  <2> QED
    BY <2>2, <2>3, <2>4, ScopesAfter DEF IsG
<1> QED
  BY <1>2, <1>3

(* A child stays a child of its parent.                                    *)
LEMMA UnderKept ==
  ASSUME IndInv, NEW t, NEW j, NEW e, NEW f, NEW g, Goes(t, j, e, f, g),
         NEW c, NEW s, Under(c, s)
  PROVE  Under(c, s)'
BY ScopesAfter DEF Under, Goes, Grows

(* What a call has left to visit stays below it.                           *)
LEMMA VisitsKept ==
  ASSUME IndInv, NEW t, NEW j, NEW e, NEW f, NEW g, Goes(t, j, e, f, g),
         NEW a, Visits(a)
  PROVE  Visits(a)'
<1>1. a.pc \in {"descend", "closing"} => \A b \in 1..Len(a.todo) : Under(a.todo[b], a.scope)'
  BY UnderKept DEF Visits
<1>2. a.pc \in {"spawn start", "spawn record"} => Under(a.todo[1], a.scope)'
  BY UnderKept DEF Visits
<1>3. a.pc = "spawn record" => thread'[a.todo[1]].mode \in Ran
  BY ModesAfter DEF Visits, Under
<1> QED
  BY <1>1, <1>2, <1>3 DEF Visits

(* The snapshots that cancel and close take of the children, and the lists *)
(* of children themselves, hold children.                                  *)
LEMMA TodosKept ==
  ASSUME IndInv, IndInv', Tree, Todos,
         NEW t, NEW j, NEW e, NEW f, NEW g, Goes(t, j, e, f, g)
  PROVE  Todos'
<1>1. ASSUME NEW u \in Scopes', NEW k \in 1..Len(Calls(u)'),
             NEW a, a = Calls(u)'[k]
      PROVE  Visits(a)'
  <2>1. /\ u \in Scopes
        /\ \/ IsOld(u, k) \/ IsF(t, j, e, f, u, k) \/ IsG(t, j, e, f, g, u, k)
    BY FramesAfter
  <2>2. CASE IsOld(u, k)
    BY <1>1, <2>1, <2>2, VisitsKept DEF Todos, IsOld
  <2>3. CASE IsG(t, j, e, f, g, u, k)
    BY <1>1, <2>3, Called DEF IsG, Visits
  <2>4. CASE IsF(t, j, e, f, u, k)
    <3>1. a = f
      BY <1>1, <2>4 DEF IsF
    <3>2. CASE Enters(t, f)
      BY <3>1, <3>2 DEF Enters, Visits, EntryPcs, AddPcs
    <3>3. CASE /\ Proceeds(t, e, j, f, g) /\ j + 1 \in 1..Len(Calls(t))
               /\ Top(t) = Calls(t)[j + 1] /\ f.scope = Top(t).scope
      <4>1. CASE f.pc \in {"descend", "spawn start", "spawn record"}
        BY <3>1, <3>3, <4>1 DEF Proceeds
      <4>2. CASE f.pc = "closing"
        <5>1. /\ ClosesOn(Top(t), e, j, f, g) /\ t \in Scopes
          BY <3>3, <4>2, ScopesAfter DEF Proceeds, CancelPcs, SpawnPcs
        <5>2. ASSUME NEW b \in 1..Len(f.todo)
              PROVE  Under(f.todo[b], f.scope)
          <6>1. f.todo[b] \in Scopes /\ In(f.todo[b], f.todo)
            BY <4>2, <5>1, <5>2 DEF ClosesOn, In
          <6>2. CASE Top(t).pc = "children"
            <7>1. In(f.todo[b], scope[f.scope].children)
              BY <3>3, <4>2, <5>1, <6>1, <6>2 DEF ClosesOn
            <7>2. f.scope \in Scopes
              BY <3>3, <5>1, CallTyped DEF IndInv
            <7> QED
              BY <7>1, <7>2 DEF Todos, In
          <6>3. CASE Top(t).pc = "closing"
            <7>1. In(f.todo[b], Top(t).todo)
              BY <4>2, <5>1, <6>1, <6>3 DEF ClosesOn
            <7>2. Visits(Top(t))
              BY <3>3, <5>1 DEF Todos
            <7> QED
              BY <3>3, <6>3, <7>1, <7>2 DEF In, Visits
          <6> QED
            BY <4>2, <5>1, <6>2, <6>3 DEF ClosesOn
        <5>3. Visits(f)
          BY <4>2, <5>2 DEF Visits
        <5> QED
          BY <3>1, <5>3, VisitsKept
      <4>3. CASE f.pc \notin {"descend", "spawn start", "spawn record", "closing"}
        BY <3>1, <4>3 DEF Visits
      <4> QED
        BY <4>1, <4>2, <4>3
    <3> QED
      BY <2>4, <3>2, <3>3, WentOn
  <2> QED
    BY <2>1, <2>2, <2>3, <2>4
<1>2. ASSUME NEW s \in Scopes', NEW b \in 1..Len(scope'[s].children),
             NEW c, c = scope'[s].children[b]
      PROVE  Under(c, s)'
  <2>1. CASE s \in Scopes
    BY <1>2, <2>1 DEF Goes, ChildrenGo, Under
  <2>2. CASE s \notin Scopes
    <3>1. scope'[s].children = <<>>
      BY <2>2 DEF Goes, Arrivals, Arrives
    <3> QED
      BY <1>2, <3>1, EmptySeq
  <2> QED
    BY <2>1, <2>2
<1> QED
  BY <1>1, <1>2 DEF Todos, Visits, Under

(* The guards the main thread opened are closed by the main thread, and by *)
(* the closes it makes.                                                    *)
LEMMA RootAloneKept ==
  ASSUME IndInv, Tree, RootAlone, Bottoms, NEW t, NEW j, NEW e, NEW f, NEW g, Goes(t, j, e, f, g)
  PROVE  RootAlone'
<1> SUFFICES ASSUME NEW u \in Scopes', NEW k \in 1..Len(Calls(u)'),
                    Calls(u)'[k].pc \in ClosePcs,
                    scope'[Calls(u)'[k].scope].opener = Root
             PROVE  u = Root
  BY DEF RootAlone
<1>1. /\ u \in Scopes /\ t \in Scopes
      /\ \/ IsOld(u, k) \/ IsF(t, j, e, f, u, k) \/ IsG(t, j, e, f, g, u, k)
  BY FramesAfter, ScopesAfter
<1>2. \A s \in Scopes : scope'[s].opener = scope[s].opener
  BY DEF Goes, Grows
<1>3. CASE IsOld(u, k)
  <2>1. Calls(u)[k].scope \in Scopes
    BY <1>3, CallTyped DEF IsOld, IndInv
  <2> QED
    BY <1>2, <1>3, <2>1 DEF IsOld, RootAlone
<1>4. CASE IsF(t, j, e, f, u, k)
  <2>1. CASE Enters(t, f)
    BY <1>4, <2>1 DEF Enters, Bottom, IsF
  <2>2. CASE /\ Proceeds(t, e, j, f, g) /\ j + 1 \in 1..Len(Calls(t))
             /\ Top(t) = Calls(t)[j + 1] /\ f.scope = Top(t).scope /\ Top(t).scope \in Scopes
    <3>1. Top(t).pc \in ClosePcs
      BY <1>4, <2>2 DEF Proceeds, IsF, ClosePcs, CancelPcs, SpawnPcs
    <3> QED
      BY <1>1, <1>2, <1>4, <2>2, <3>1 DEF IsF, RootAlone
  <2> QED
    BY <1>4, <2>1, <2>2, WentOn
<1>5. CASE IsG(t, j, e, f, g, u, k)
  <2>1. /\ Depth(t) = j + 1 /\ u = t /\ Calls(u)'[k] = g /\ e = j + 2
    BY <1>5 DEF IsG
  <2>2. /\ Proceeds(t, e, j, f, g) /\ f.scope = Top(t).scope /\ Follows(f, g)
        /\ f.pc \in Resting /\ g.scope \in Scopes /\ g.pc = "close"
    BY <2>1, Called DEF ClosePcs
  <2>3. f.pc = "closing" /\ Under(g.scope, f.scope)
    BY <2>2 DEF Resting, Follows, CancelPcs
  <2>4. /\ j + 1 \in 1..Len(Calls(t)) /\ Top(t) = Calls(t)[j + 1] /\ Top(t).scope \in Scopes
        /\ Top(t).pc \in ClosePcs
    BY <2>1, <2>2, <2>3, TopAt DEF Proceeds, ClosePcs, CancelPcs, SpawnPcs
  <2>5. scope[g.scope].opener = Root /\ g.scope # Root /\ scope[g.scope].parent = f.scope
    BY <1>2, <2>1, <2>2, <2>3 DEF Under
  <2>6. scope[f.scope].opener = Root
    <3>1. thread[g.scope].mode = "none"
      BY <2>2, <2>5 DEF Tree
    <3>2. thread[Root].home = Root /\ scope[Root].opener = Root
      BY ScopesAfter DEF Tree, Ran
    <3> QED
      BY <2>2, <2>5, <3>1, <3>2 DEF Tree
  <2> QED
    BY <1>1, <2>1, <2>2, <2>4, <2>6 DEF RootAlone
<1> QED
  BY <1>1, <1>3, <1>4, <1>5

(* A step that does not return leaves f in its place.                      *)
LEMMA NewTop ==
  ASSUME IndInv, NEW t, NEW j, NEW e, NEW f, NEW g, Goes(t, j, e, f, g), e > j
  PROVE  t \in Scopes' /\ j + 1 \in 1..Len(Calls(t)') /\ Calls(t)'[j + 1] = f
         /\ t \in Scopes
BY ScopesAfter DEF Goes, Moves

(* A close under way that a step leaves under way, or starts.              *)
LEMMA PastAfter ==
  ASSUME IndInv, NEW t, NEW j, NEW e, NEW f, NEW g, Goes(t, j, e, f, g),
         NEW u \in Scopes', NEW k \in 1..Len(Calls(u)'), Calls(u)'[k].pc \in Past
  PROVE  /\ u \in Scopes /\ Calls(u)'[k].scope \in Scopes
         /\ \/ /\ k \in 1..Len(Calls(u)) /\ Calls(u)[k].pc \in Past
               /\ Calls(u)[k].scope = Calls(u)'[k].scope
            \/ /\ u = t /\ k = j + 1 /\ Calls(u)'[k].pc = "children"
               /\ ~scope[Calls(u)'[k].scope].closed
<1>1. /\ u \in Scopes /\ t \in Scopes
      /\ \/ IsOld(u, k) \/ IsF(t, j, e, f, u, k) \/ IsG(t, j, e, f, g, u, k)
  BY FramesAfter, ScopesAfter
<1>2. CASE IsOld(u, k)
  BY <1>2, CallTyped DEF IsOld, IndInv
<1>3. CASE IsF(t, j, e, f, u, k)
  <2>1. ~Enters(t, f)
    BY <1>3 DEF Enters, IsF, Past, EntryPcs, AddPcs
  <2>2. /\ Proceeds(t, e, j, f, g) /\ j + 1 \in 1..Len(Calls(t))
        /\ Top(t) = Calls(t)[j + 1] /\ f.scope = Top(t).scope /\ Top(t).scope \in Scopes
    BY <1>3, <2>1, WentOn
  <2>3. ClosesOn(Top(t), e, j, f, g) /\ f.pc \in Past
    BY <1>3, <2>2 DEF Proceeds, IsF, Past, CancelPcs, SpawnPcs
  <2>4. Top(t).pc \in Past \/ (f.pc = "children" /\ ~scope[f.scope].closed)
    BY <2>2, <2>3 DEF ClosesOn, Past
  <2>5. u = t /\ k = j + 1 /\ Calls(u)'[k] = f
    BY <1>3 DEF IsF
  <2> QED
    BY <1>1, <2>2, <2>4, <2>5
<1>4. CASE IsG(t, j, e, f, g, u, k)
  <2>1. e = j + 2 /\ Calls(u)'[k] = g
    BY <1>4 DEF IsG
  <2> QED
    BY <2>1, Called DEF Past
<1> QED
  BY <1>1, <1>2, <1>3, <1>4

(* The swap of `closed` lets one thread past, and no second one.           *)
LEMMA OneCloserKept ==
  ASSUME IndInv, OneCloser, Closers, NEW t, NEW j, NEW e, NEW f, NEW g, Goes(t, j, e, f, g)
  PROVE  OneCloser'
<1> SUFFICES ASSUME NEW u \in Scopes', NEW v \in Scopes',
                    NEW k \in 1..Len(Calls(u)'), NEW l \in 1..Len(Calls(v)'),
                    Calls(u)'[k].pc \in Past, Calls(v)'[l].pc \in Past,
                    Calls(u)'[k].scope = Calls(v)'[l].scope
             PROVE  u = v /\ k = l
  BY DEF OneCloser
<1> DEFINE s == Calls(u)'[k].scope
<1>1. /\ u \in Scopes
      /\ \/ k \in 1..Len(Calls(u)) /\ Calls(u)[k].pc \in Past /\ Calls(u)[k].scope = s
         \/ u = t /\ k = j + 1 /\ ~scope[s].closed
  BY PastAfter
<1>2. /\ v \in Scopes
      /\ \/ l \in 1..Len(Calls(v)) /\ Calls(v)[l].pc \in Past /\ Calls(v)[l].scope = s
         \/ v = t /\ l = j + 1 /\ ~scope[s].closed
  BY PastAfter
<1> HIDE DEF s
<1> QED
  BY <1>1, <1>2 DEF OneCloser, Closers

(* Whoever is past the swap closes a closed scope, and drains it before it *)
(* detaches it.                                                            *)
LEMMA ClosersKept ==
  ASSUME IndInv, OneCloser, Closers, NEW t, NEW j, NEW e, NEW f, NEW g, Goes(t, j, e, f, g)
  PROVE  Closers'
<1>1. ASSUME NEW s \in Scopes, scope'[s].drained, ~scope[s].drained
      PROVE  /\ f.pc = "detach" /\ f.scope = s /\ Depth(t) = j + 1 /\ e > j
             /\ Top(t).pc = "finalizer" /\ Top(t).scope = s
             /\ t \in Scopes /\ j + 1 \in 1..Len(Calls(t)) /\ Top(t) = Calls(t)[j + 1]
  <2>1. f.pc = "detach" /\ f.scope = s /\ Depth(t) = j + 1 /\ e > j
    BY <1>1 DEF Goes, FlagsGo
  <2>2. Proceeds(t, e, j, f, g)
    BY <2>1 DEF Goes, CallsGo
  <2>3. Top(t).pc = "finalizer" /\ Top(t).scope = s
    BY <2>1, <2>2 DEF Proceeds, ClosesOn, CancelPcs, SpawnPcs
  <2> QED
    BY <2>1, <2>3, TopAt, ScopesAfter
<1>2. \A s \in Scopes : scope[s].closed => scope'[s].closed
  BY DEF Goes, FlagsGo
<1>3. ASSUME NEW u \in Scopes', NEW k \in 1..Len(Calls(u)'),
             NEW s, s = Calls(u)'[k].scope, Calls(u)'[k].pc \in Past
      PROVE  scope'[s].closed /\ (scope'[s].drained <=> Calls(u)'[k].pc = "detach")
  <2>1. /\ u \in Scopes /\ s \in Scopes /\ t \in Scopes
        /\ \/ k \in 1..Len(Calls(u)) /\ Calls(u)[k].pc \in Past /\ Calls(u)[k].scope = s
           \/ u = t /\ k = j + 1 /\ Calls(u)'[k].pc = "children" /\ ~scope[s].closed
    BY <1>3, PastAfter, ScopesAfter
  <2>2. \/ IsOld(u, k) /\ (u # t \/ k <= j)
        \/ IsF(t, j, e, f, u, k) \/ IsG(t, j, e, f, g, u, k)
    BY FramesAfter
  <2>3. CASE IsOld(u, k) /\ (u # t \/ k <= j)
    <3>1. k \in 1..Len(Calls(u)) /\ Calls(u)[k] = Calls(u)'[k]
      BY <2>3 DEF IsOld
    <3>2. scope[s].closed /\ (scope[s].drained <=> Calls(u)[k].pc = "detach")
      BY <1>3, <2>1, <3>1 DEF Closers
    <3>3. scope[s].drained => scope'[s].drained
      BY <2>1 DEF Goes, FlagsGo
    <3>4. scope'[s].drained => scope[s].drained
      <4> SUFFICES ASSUME scope'[s].drained, ~scope[s].drained PROVE FALSE
        OBVIOUS
      <4>1. /\ Top(t).pc = "finalizer" /\ Top(t).scope = s
            /\ t \in Scopes /\ j + 1 \in 1..Len(Calls(t)) /\ Top(t) = Calls(t)[j + 1]
        BY <1>1, <2>1
      <4>2. u = t /\ k = j + 1
        BY <1>3, <2>1, <3>1, <4>1 DEF OneCloser, Past
      <4> QED
        BY <2>3, <4>2, ScopesAfter
    <3> QED
      BY <1>2, <2>1, <3>1, <3>2, <3>3, <3>4
  <2>4. CASE IsF(t, j, e, f, u, k)
    <3>1. ~Enters(t, f) /\ Calls(u)'[k] = f /\ f.pc \in Past /\ f.scope = s
      BY <1>3, <2>4 DEF Enters, IsF, Past, EntryPcs, AddPcs
    <3>2. /\ Proceeds(t, e, j, f, g) /\ j + 1 \in 1..Len(Calls(t)) /\ Depth(t) = j + 1
          /\ Top(t) = Calls(t)[j + 1] /\ f.scope = Top(t).scope
      BY <2>4, <3>1, WentOn
    <3>8. e > j
      BY <2>4 DEF IsF
    <3>3. ClosesOn(Top(t), e, j, f, g)
      BY <3>1, <3>2 DEF Proceeds, Past, CancelPcs, SpawnPcs
    <3>4. f.pc = "detach" => scope'[s].drained
      BY <2>1, <3>1, <3>2, <3>8 DEF Goes, FlagsGo
    <3>5. f.pc = "children" => scope'[s].closed /\ ~scope[s].closed
      <4>1. f.pc = "children" => scope'[s].closed
        BY <2>1, <3>1, <3>2, <3>8 DEF Goes, FlagsGo
      <4>2. f.pc = "children" => ~scope[s].closed
        BY <3>1, <3>2, <3>3 DEF ClosesOn
      <4> QED
        BY <4>1, <4>2
    <3>6. f.pc # "children" =>
            /\ Top(t).pc \in Past /\ scope[s].closed /\ Top(t).pc # "detach"
            /\ ~scope[s].drained
      <4>1. f.pc # "children" => Top(t).pc \in Past /\ Top(t).pc # "detach"
        BY <3>1, <3>3 DEF ClosesOn, Past
      <4> QED
        BY <2>1, <3>1, <3>2, <4>1 DEF Closers
    <3>7. f.pc # "detach" => ~scope'[s].drained
      <4>1. f.pc # "detach" => ~scope[s].drained
        BY <2>1, <3>5, <3>6 DEF Closers
      <4> QED
        BY <1>1, <2>1, <4>1
    <3> QED
      BY <1>2, <2>1, <3>1, <3>4, <3>5, <3>6, <3>7
  <2>5. CASE IsG(t, j, e, f, g, u, k)
    BY <1>3, <2>5, Called DEF IsG, Past
  <2> QED
    BY <2>2, <2>3, <2>4, <2>5
<1>4. ASSUME NEW s \in Scopes', scope'[s].drained
      PROVE  scope'[s].closed
  <2>1. s \in Scopes
    BY <1>4 DEF Goes, Arrivals, Arrives
  <2>2. CASE scope[s].drained
    BY <1>2, <2>1, <2>2 DEF Closers
  <2>3. CASE ~scope[s].drained
    BY <1>1, <1>2, <1>4, <2>1, <2>3 DEF Closers, Past
  <2> QED
    BY <2>2, <2>3
<1>5. ASSUME NEW s \in Scopes', scope'[s].closed, ~scope'[s].drained
      PROVE  FrameAt(s, Past)'
  <2>1. s \in Scopes
    BY <1>5 DEF Goes, Arrivals, Arrives
  <2>2. CASE ~scope[s].closed
    <3>1. e > j /\ f.scope = s /\ f.pc = "children"
      BY <1>5, <2>1, <2>2 DEF Goes, FlagsGo
    <3> QED
      BY <3>1, NewTop DEF FrameAt, Past
  <2>3. CASE scope[s].closed
    <3>1. ~scope[s].drained
      BY <1>5, <2>1 DEF Goes, FlagsGo
    <3>0. PICK u \in Scopes : \E k \in 1..Len(Calls(u)) :
            Calls(u)[k].scope = s /\ Calls(u)[k].pc \in Past
      BY <2>1, <2>3, <3>1 DEF Closers, FrameAt
    <3>2. PICK k \in 1..Len(Calls(u)) :
            Calls(u)[k].scope = s /\ Calls(u)[k].pc \in Past
      BY <3>0
    <3>3. CASE /\ u \in Scopes' /\ k \in 1..Len(Calls(u)') /\ Calls(u)'[k] = Calls(u)[k]
      BY <3>2, <3>3 DEF FrameAt
    <3>4. CASE u = t /\ k = j + 1 /\ Depth(t) = j + 1
      <4>1. Top(t) = Calls(t)[j + 1] /\ Top(t).pc \in Past /\ Top(t).scope = s /\ Top(t).pc # "detach"
        BY <2>1, <3>1, <3>2, <3>4, TopAt DEF Closers
      <4>2. e > j
        BY <3>4, <4>1, ScopesAfter DEF Goes, CallsGo, Returns, Moves
      <4>3. Proceeds(t, e, j, f, g)
        BY <3>4, <4>2 DEF Goes, CallsGo
      <4>4. f.scope = s /\ f.pc \in Past
        BY <4>1, <4>3 DEF Proceeds, ClosesOn, Past, ClosePcs, CancelPcs, SpawnPcs
      <4> QED
        BY <4>2, <4>4, NewTop DEF FrameAt
    <3> QED
      BY <3>3, <3>4, FramesBefore
  <2> QED
    BY <2>2, <2>3
<1> QED
  BY <1>3, <1>4, <1>5 DEF Closers, FrameAt

(* A close on top of another call is one of a closing call, below.         *)
LEMMA CloseInside ==
  ASSUME IndInv, Chains, NEW u \in Scopes, NEW k \in 2..Len(Calls(u)),
         Calls(u)[k].pc \in ClosePcs
  PROVE  /\ k - 1 \in 1..Len(Calls(u)) /\ Calls(u)[k - 1].pc = "closing"
         /\ Under(Calls(u)[k].scope, Calls(u)[k - 1].scope)
<1>1. Len(Calls(u)) \in Nat
  BY DepthTyped DEF IndInv
<1>2. k - 1 \in 1..Len(Calls(u)) - 1 /\ (k - 1) + 1 = k
  BY <1>1
<1>3. Follows(Calls(u)[k - 1], Calls(u)[k])
  BY <1>2 DEF Chains
<1>4. Calls(u)[k - 1].pc \in Resting
  BY <1>2 DEF IndInv, Stacks, Rested
<1> QED
  BY <1>1, <1>2, <1>3, <1>4 DEF Follows, Resting, ClosePcs, CancelPcs

(* A guard is consumed by the close of its scope, which comes next; a body *)
(* ends when its guards are gone.                                          *)
LEMMA GuardsKept ==
  ASSUME IndInv, Tree, Chains, Bottoms, Guards, RootAlone,
         NEW t, NEW j, NEW e, NEW f, NEW g, Goes(t, j, e, f, g)
  PROVE  Guards'
<1>0. /\ Root \in Scopes /\ t \in Scopes /\ Scopes \subseteq Scopes' /\ j \in Nat
  BY ScopesAfter
<1>1. \A s \in Scopes : /\ scope[s].closed => scope'[s].closed
                        /\ scope'[s].guarded => scope[s].guarded
                        /\ scope'[s].opener = scope[s].opener
  BY DEF Goes, FlagsGo, Grows
<1>2. ASSUME NEW n \in Scopes', ~scope'[n].guarded, thread'[n].mode # "failed",
             NEW u, u = scope'[n].opener
      PROVE  scope'[n].closed \/ Swapping(n, u)'
  <2>1. n \in Scopes /\ u = scope[n].opener /\ u \in Scopes
    <3>1. n \in Scopes
      BY <1>2 DEF Goes, Arrivals, Arrives
    <3> QED
      BY <1>1, <1>2, <3>1, TreeOf
  <2>2. CASE scope[n].guarded
    <3>1. Depth(t) = 0 /\ e = 1 /\ f.scope = n /\ f.pc = "close" /\ u = t
      BY <1>2, <2>1, <2>2 DEF Goes, FlagsGo
    <3>2. j = 0
      BY <1>0, <3>1, ScopesAfter DEF Goes, Moves
    <3>3. Len(Calls(t)') = 1 /\ Calls(t)'[1] = f
      BY <3>1, <3>2 DEF Goes, Moves
    <3>4. Calls(t)' # <<>>
      <4>1. Len(<<>>) = 0
        BY EmptySeq
      <4> QED
        BY <3>3, <4>1
    <3> QED
      BY <3>1, <3>3, <3>4 DEF Swapping
  <2>3. CASE ~scope[n].guarded
    <3>1. scope[n].closed \/ Swapping(n, u)
      BY <1>2, <2>1, <2>3, ModesAfter DEF Guards
    <3>2. CASE scope[n].closed
      BY <1>1, <2>1, <3>2
    <3>3. CASE Swapping(n, u)
      <4>1. 1 \in 1..Len(Calls(u)) /\ Calls(u)[1].scope = n /\ Calls(u)[1].pc = "close"
        BY <2>1, <3>3, DepthTyped DEF Swapping, Depth, IndInv
      <4>2. CASE 1 \in 1..Len(Calls(u)') /\ Calls(u)'[1] = Calls(u)[1]
        <5>1. Calls(u)' # <<>>
          BY <4>2, EmptySeq
        <5> QED
          BY <4>1, <4>2, <5>1 DEF Swapping
      <4>3. CASE u = t /\ 1 = j + 1 /\ Depth(t) = j + 1
        <5>1. Top(t).scope = n /\ Top(t).pc = "close"
          BY <4>1, <4>3 DEF Top
        <5>2. CASE e = j
          BY <1>1, <2>1, <4>3, <5>1, <5>2 DEF Goes, CallsGo, Returns
        <5>3. CASE e > j
          <6>1. Proceeds(t, e, j, f, g)
            BY <4>3, <5>3 DEF Goes, CallsGo
          <6>2. f.pc = "children" /\ f.scope = n
            BY <5>1, <6>1 DEF Proceeds, ClosesOn, ClosePcs, CancelPcs, SpawnPcs
          <6> QED
            BY <2>1, <4>3, <5>3, <6>2 DEF Goes, FlagsGo
        <5> QED
          BY <1>0, <5>2, <5>3 DEF Goes, Moves
      <4> QED
        BY <2>1, <4>1, <4>2, <4>3, FramesBefore
    <3> QED
      BY <3>1, <3>2, <3>3
  <2> QED
    BY <2>2, <2>3
<1>3. ASSUME NEW u \in Scopes', thread'[u].mode \in {"closing", "finishing", "done"}
      PROVE  /\ ~scope'[u].guarded
             /\ \A n \in Scopes' : scope'[n].opener = u /\ thread'[n].mode = "none" =>
                  ~scope'[n].guarded
  <2>1. u \in Scopes
    BY <1>3 DEF Goes, Arrivals, Arrives
  <2>2. \A n \in Scopes' \ Scopes : thread'[n].mode = "none" => scope'[n].opener # u
    BY <1>3 DEF Goes, Arrivals, Arrives
  <2>3. CASE thread[u].mode \in {"closing", "finishing", "done"}
    BY <1>1, <2>1, <2>2, <2>3, ModesAfter DEF Guards
  <2>4. CASE thread[u].mode \notin {"closing", "finishing", "done"}
    <3>1. /\ u = t /\ ~scope'[t].guarded
          /\ \A n \in Scopes : scope[n].opener = t /\ thread[n].mode = "none" =>
               ~scope[n].guarded
      BY <1>3, <2>1, <2>4 DEF Goes, ThreadsGo
    <3> QED
      BY <1>1, <2>2, <3>1, ModesAfter
  <2> QED
    BY <2>3, <2>4
<1>4. ASSUME scope'[Root].closed, thread'[Root].mode = "body"
      PROVE  FALSE
  <2>1. thread[Root].mode = "body"
    <3>1. thread[Root].mode \in Ran
      BY DEF Tree
    <3> QED
      BY <1>0, <1>4, <3>1 DEF Goes, ThreadsGo, Ran
  <2>2. /\ Depth(t) = j + 1 /\ e > j /\ f.scope = Root /\ f.pc = "children"
    BY <1>0, <1>4, <2>1 DEF Guards, Goes, FlagsGo
  <2>3. Proceeds(t, e, j, f, g)
    BY <2>2 DEF Goes, CallsGo
  <2>4. Top(t).pc = "close" /\ Top(t).scope = Root
    BY <2>2, <2>3 DEF Proceeds, ClosesOn, CancelPcs, SpawnPcs
  <2>5. j + 1 \in 1..Len(Calls(t)) /\ Top(t) = Calls(t)[j + 1] /\ Calls(t) # <<>>
    BY <2>2, TopAt
  <2>6. t = Root
    BY <1>0, <2>4, <2>5 DEF RootAlone, Tree, ClosePcs
  <2>7. CASE j = 0
    BY <1>0, <2>1, <2>4, <2>5, <2>6, <2>7 DEF Bottoms, Bottom, ClosePcs
  <2>8. CASE j # 0
    <3>1. j + 1 \in 2..Len(Calls(t))
      BY <1>0, <2>5, <2>8
    <3> QED
      BY <1>0, <2>4, <2>5, <3>1, CloseInside DEF Under, ClosePcs
  <2> QED
    BY <2>7, <2>8
<1> QED
  BY <1>2, <1>3, <1>4 DEF Guards, Swapping

(* A scope begins to release after its tasks have been waited for.         *)
LEMMA ReleasingAfter ==
  ASSUME IndInv, NEW t, NEW j, NEW e, NEW f, NEW g, Goes(t, j, e, f, g),
         NEW s \in Scopes, Releasing(s)'
  PROVE  \/ Releasing(s)
         \/ /\ Depth(t) = j + 1 /\ e > j /\ f.pc = "resource" /\ f.scope = s
            /\ Top(t).pc = "quiesce" /\ Top(t).scope = s /\ t \in Scopes
            /\ j + 1 \in 1..Len(Calls(t)) /\ Top(t) = Calls(t)[j + 1]
            /\ ClosesOn(Top(t), e, j, f, g)
<1>1. CASE scope'[s].drained /\ ~scope[s].drained
  <2>1. f.pc = "detach" /\ f.scope = s /\ Depth(t) = j + 1 /\ e > j
    BY <1>1 DEF Goes, FlagsGo
  <2>2. Proceeds(t, e, j, f, g)
    BY <2>1 DEF Goes, CallsGo
  <2>3. Top(t).pc = "finalizer" /\ Top(t).scope = s
    BY <2>1, <2>2 DEF Proceeds, ClosesOn, CancelPcs, SpawnPcs
  <2> QED
    BY <2>1, <2>3, TopAt, ScopesAfter DEF Releasing, Locked
<1>2. CASE scope'[s].drained /\ scope[s].drained
  BY <1>2 DEF Releasing
<1>3. ASSUME NEW u \in Scopes', NEW k \in 1..Len(Calls(u)'),
             Calls(u)'[k].scope = s, Calls(u)'[k].pc \in {"resource", "finalizer"}
      PROVE  \/ Releasing(s)
             \/ /\ Depth(t) = j + 1 /\ e > j /\ f.pc = "resource" /\ f.scope = s
                /\ Top(t).pc = "quiesce" /\ Top(t).scope = s /\ t \in Scopes
                /\ j + 1 \in 1..Len(Calls(t)) /\ Top(t) = Calls(t)[j + 1]
                /\ ClosesOn(Top(t), e, j, f, g)
  <2>1. /\ u \in Scopes
        /\ \/ IsOld(u, k) \/ IsF(t, j, e, f, u, k) \/ IsG(t, j, e, f, g, u, k)
    BY FramesAfter
  <2>2. CASE IsOld(u, k)
    BY <1>3, <2>1, <2>2 DEF IsOld, Releasing, Locked
  <2>3. CASE IsF(t, j, e, f, u, k)
    <3>1. ~Enters(t, f) /\ Calls(u)'[k] = f /\ u = t /\ e > j
      BY <1>3, <2>3 DEF Enters, IsF, EntryPcs, AddPcs
    <3>2. /\ Proceeds(t, e, j, f, g) /\ j + 1 \in 1..Len(Calls(t)) /\ Depth(t) = j + 1
          /\ Top(t) = Calls(t)[j + 1] /\ f.scope = Top(t).scope
      BY <2>3, <3>1, WentOn
    <3>3. ClosesOn(Top(t), e, j, f, g)
      BY <1>3, <3>1, <3>2 DEF Proceeds, CancelPcs, SpawnPcs
    <3>4. CASE f.pc = "finalizer"
      <4>1. Top(t).pc = "resource"
        BY <3>3, <3>4 DEF ClosesOn
      <4> QED
        BY <1>3, <2>1, <3>1, <3>2, <4>1 DEF Releasing, Locked
    <3>5. CASE f.pc = "resource"
      <4>1. Top(t).pc = "quiesce"
        BY <3>3, <3>5 DEF ClosesOn
      <4> QED
        BY <1>3, <2>1, <3>1, <3>2, <3>3, <3>5, <4>1
    <3> QED
      BY <1>3, <3>1, <3>4, <3>5
  <2>4. CASE IsG(t, j, e, f, g, u, k)
    <3>1. e = j + 2 /\ Calls(u)'[k] = g
      BY <2>4 DEF IsG
    <3> QED
      BY <1>3, <3>1, Called
  <2> QED
    BY <2>1, <2>2, <2>3, <2>4
<1> QED
  BY <1>1, <1>2, <1>3 DEF Releasing, Locked

(* Only a scope that was closed releases.                                  *)
LEMMA ReleasingClosed ==
  ASSUME Closers, NEW s \in Scopes, Releasing(s)
  PROVE  scope[s].closed
BY DEF Closers, Releasing, Locked, Past

(* A task recorded before its parent closed stays in the parent's records  *)
(* until it is done or reported as stalled.                                *)
LEMMA TasksKeptKept ==
  ASSUME IndInv, Tree, Closers, TasksKept,
         NEW t, NEW j, NEW e, NEW f, NEW g, Goes(t, j, e, f, g)
  PROVE  TasksKept'
<1> SUFFICES ASSUME NEW n \in Scopes' \ {Root}, thread'[n].mode # "none", scope'[n].owned,
                    NEW p, p = scope'[n].parent
             PROVE  /\ thread'[n].mode \in Ran
                    /\ \/ n \in stalled' \/ thread'[n].mode = "done"
                       \/ n \in scope'[p].tasks /\ ~Releasing(p)'
  BY DEF TasksKept, Releasing, Locked
<1>1. /\ n \in Scopes /\ p = scope[n].parent /\ p \in Scopes /\ thread[n].mode # "none"
  <2>1. n \in Scopes
    BY DEF Goes, Arrivals, Arrives
  <2> QED
    BY <2>1, TreeOf, ModesAfter DEF Goes, Grows
<1>2. CASE ~scope[n].owned
  <2>1. thread[n].mode \in Ran /\ n \in scope'[p].tasks /\ ~scope[p].closed
    BY <1>1, <1>2 DEF Goes, FlagsGo
  <2>2. ~Releasing(p)'
    <3> SUFFICES ASSUME Releasing(p)' PROVE FALSE
      OBVIOUS
    <3>1. CASE Releasing(p)
      BY <1>1, <2>1, <3>1, ReleasingClosed
    <3>2. CASE /\ Top(t).pc = "quiesce" /\ Top(t).scope = p /\ t \in Scopes
               /\ j + 1 \in 1..Len(Calls(t)) /\ Top(t) = Calls(t)[j + 1]
      BY <1>1, <2>1, <3>2 DEF Closers, Past
    <3> QED
      BY <1>1, <3>1, <3>2, ReleasingAfter
  <2> QED
    BY <1>1, <2>1, <2>2, ModesAfter
<1>3. CASE scope[n].owned
  <2>1. /\ thread[n].mode \in Ran
        /\ \/ n \in stalled \/ thread[n].mode = "done"
           \/ n \in scope[p].tasks /\ ~Releasing(p)
    BY <1>1, <1>3 DEF TasksKept
  <2>2. thread'[n].mode \in Ran /\ (thread[n].mode = "done" => thread'[n].mode = "done")
    BY <1>1, <2>1, ModesAfter
  <2>3. CASE n \in stalled \/ thread[n].mode = "done"
    BY <2>2, <2>3 DEF Goes, TasksGo
  <2>4. CASE n \in scope[p].tasks /\ ~Releasing(p)
    <3>1. n \in scope'[p].tasks \/ n \in stalled' \/ thread[n].mode = "done"
      BY <1>1, <2>4 DEF Goes, TasksGo
    <3>2. Releasing(p)' => n \in stalled' \/ thread[n].mode = "done"
      <4> SUFFICES ASSUME Releasing(p)' PROVE n \in stalled' \/ thread[n].mode = "done"
        OBVIOUS
      <4>1. f.pc = "resource" /\ Top(t).scope = p /\ ClosesOn(Top(t), e, j, f, g)
        BY <1>1, <2>4, ReleasingAfter
      <4> QED
        BY <2>4, <4>1 DEF ClosesOn
    <3> QED
      BY <2>2, <3>1, <3>2
  <2> QED
    BY <2>1, <2>3, <2>4
<1> QED
  BY <1>2, <1>3

(* A call below another one stays, or that one is on top and returns.      *)
LEMMA SwapDone ==
  ASSUME IndInv, NEW t, NEW j, NEW e, NEW f, NEW g, Goes(t, j, e, f, g),
         NEW n \in Scopes, Depth(t) = j + 1, Top(t).pc = "close", Top(t).scope = n
  PROVE  scope'[n].closed
<1>1. CASE e = j
  BY <1>1 DEF Goes, CallsGo, Returns, FlagsGo
<1>2. CASE e > j
  <2>1. Proceeds(t, e, j, f, g)
    BY <1>2 DEF Goes, CallsGo
  <2>2. f.pc = "children" /\ f.scope = n
    BY <2>1 DEF Proceeds, ClosesOn, ClosePcs, CancelPcs, SpawnPcs
  <2> QED
    BY <1>2, <2>2 DEF Goes, FlagsGo
<1> QED
  BY <1>1, <1>2, ScopesAfter DEF Goes, Moves

(* A closing call without children left: n has been closed.                *)
LEMMA NoneLeft ==
  ASSUME IndInv, NEW n \in Scopes, Tracked(n),
         NEW t \in Scopes, NEW k, k = Depth(t), k \in 1..Len(Calls(t)),
         Calls(t)[k].scope = scope[n].parent, Calls(t)[k].pc = "closing",
         Calls(t)[k].todo = <<>>
  PROVE  scope[n].closed
<1>1. Visited(n, t, k)
  BY DEF Tracked
<1>2. Len(<<>>) = 0
  BY EmptySeq
<1> QED
  BY <1>1, <1>2 DEF Visited, In, Depth

(* A child stays in its parent's list until it is closed; the close of the *)
(* parent takes the list and visits each of its members.                   *)
LEMMA TrackedKept ==
  ASSUME IndInv, Tree, NEW n \in Scopes, ChildOnly(n), Tracked(n),
         NEW t, NEW j, NEW e, NEW f, NEW g, Goes(t, j, e, f, g)
  PROVE  Tracked(n)'
<1> DEFINE p == scope[n].parent
<1>1. p \in Scopes /\ scope'[n].parent = p /\ t \in Scopes /\ j \in Nat
  BY TreeOf, ScopesAfter DEF Goes, Grows
<1>2. scope[n].closed => scope'[n].closed
  BY DEF Goes, FlagsGo
<1>3. In(n, scope'[p].children) \/ scope'[n].closed
  <2>1. CASE scope[n].closed
    BY <1>2, <2>1
  <2>2. CASE In(n, scope[p].children)
    <3>1. CASE Depth(t) = j + 1 /\ Top(t).pc = "closing" /\ Top(t).scope = p /\ Top(t).todo = <<>>
      BY <1>1, <1>2, <3>1, TopAt, NoneLeft
    <3> QED
      BY <1>1, <1>2, <2>2, <3>1 DEF Goes, ChildrenGo, ChildOnly
  <2> QED
    BY <2>1, <2>2 DEF Tracked, Kept
<1> HIDE DEF p
<1>4. ASSUME NEW u \in Scopes', NEW k \in 1..Len(Calls(u)'),
             Calls(u)'[k].scope = p, Calls(u)'[k].pc = "closing"
      PROVE  \/ In(n, Calls(u)'[k].todo) \/ scope'[n].closed
             \/ /\ k < Len(Calls(u)') /\ Calls(u)'[k+1].scope = n
                /\ Calls(u)'[k+1].pc = "close"
  <2>1. /\ u \in Scopes /\ k \in Nat
        /\ \/ IsOld(u, k) /\ (u # t \/ k <= j)
           \/ IsF(t, j, e, f, u, k) \/ IsG(t, j, e, f, g, u, k)
    BY FramesAfter
  <2>2. CASE IsOld(u, k) /\ (u # t \/ k <= j)
    <3>1. \/ In(n, Calls(u)[k].todo) \/ scope[n].closed
          \/ /\ k < Len(Calls(u)) /\ Calls(u)[k+1].scope = n
             /\ Calls(u)[k+1].pc = "close"
      BY <1>4, <2>1, <2>2 DEF Tracked, Visited, IsOld, p
    <3>2. CASE /\ k < Len(Calls(u)) /\ Calls(u)[k+1].scope = n
               /\ Calls(u)[k+1].pc = "close"
      <4>1. k + 1 \in 1..Len(Calls(u)) /\ Len(Calls(u)) \in Nat
        BY <2>1, <3>2, DepthTyped DEF IndInv
      <4>2. CASE k + 1 \in 1..Len(Calls(u)') /\ Calls(u)'[k + 1] = Calls(u)[k + 1]
        <5>1. k < Len(Calls(u)')
          <6>1. CASE u # t
            <7>1. Calls(u)' = Calls(u)
              BY <2>1, <6>1 DEF Goes, Moves
            <7> QED
              BY <3>2, <7>1
          <6>2. CASE u = t
            <7>1. Len(Calls(u)') \in Nat
              BY <6>2, ScopesAfter DEF Goes, Moves
            <7> QED
              BY <2>1, <4>2, <7>1
          <6> QED
            BY <6>1, <6>2
        <5> QED
          BY <3>2, <4>2, <5>1
      <4>3. CASE u = t /\ k + 1 = j + 1 /\ Depth(t) = j + 1
        <5>1. Top(t) = Calls(t)[k + 1]
          BY <4>3 DEF Top
        <5> QED
          BY <3>2, <4>3, <5>1, SwapDone
      <4> QED
        BY <2>1, <4>1, <4>2, <4>3, FramesBefore
    <3> QED
      BY <1>2, <2>2, <3>1, <3>2 DEF IsOld
  <2>3. CASE IsF(t, j, e, f, u, k)
    <3>1. ~Enters(t, f) /\ Calls(u)'[k] = f /\ u = t /\ e > j /\ k = j + 1
      BY <1>4, <2>3 DEF Enters, IsF, EntryPcs, AddPcs
    <3>2. /\ Proceeds(t, e, j, f, g) /\ j + 1 \in 1..Len(Calls(t)) /\ Depth(t) = j + 1
          /\ Top(t) = Calls(t)[j + 1] /\ f.scope = Top(t).scope
      BY <2>3, <3>1, WentOn
    <3>3. ClosesOn(Top(t), e, j, f, g) /\ f.pc = "closing" /\ Top(t).scope = p
      BY <1>4, <3>1, <3>2 DEF Proceeds, CancelPcs, SpawnPcs
    <3>4. CASE Top(t).pc = "children"
      <4>1. In(n, f.todo) <=> In(n, scope[p].children)
        BY <3>3, <3>4 DEF ClosesOn
      <4> QED
        BY <1>2, <3>1, <4>1 DEF Tracked, Kept, p
    <3>5. CASE Top(t).pc = "closing"
      <4>1. /\ In(n, Top(t).todo) => In(n, f.todo) \/ n = g.scope
            /\ e = j + 2
        BY <3>3, <3>5 DEF ClosesOn
      <4>2. Follows(f, g) /\ g.pc \in {"cancel", "close"}
        BY <4>1, Called
      <4>3. g.pc = "close"
        BY <3>3, <4>2 DEF Follows, ClosePcs
      <4>4. Calls(t)'[k + 1] = g /\ Len(Calls(t)') = j + 2
        BY <1>1, <3>1, <4>1 DEF Goes, Moves
      <4>5. In(n, Top(t).todo) \/ scope[n].closed
        BY <1>1, <3>2, <3>3, <3>5 DEF Tracked, Visited, p, Depth
      <4> QED
        BY <1>1, <1>2, <3>1, <4>1, <4>3, <4>4, <4>5
    <3> QED
      BY <3>3, <3>4, <3>5 DEF ClosesOn
  <2>4. CASE IsG(t, j, e, f, g, u, k)
    <3>1. e = j + 2 /\ Calls(u)'[k] = g
      BY <2>4 DEF IsG
    <3> QED
      BY <1>4, <3>1, Called
  <2> QED
    BY <2>1, <2>2, <2>3, <2>4
<1>5. Kept(n)'
  BY <1>1, <1>3 DEF Kept
<1>6. ASSUME NEW u \in Scopes', NEW k \in 1..Len(Calls(u)')
      PROVE  Visited(n, u, k)'
  BY <1>1, <1>4 DEF Visited
<1> QED
  BY <1>5, <1>6 DEF Tracked

(* A new scope: its parent was not being closed.                           *)
LEMMA Newcomer ==
  ASSUME IndInv, Closers, NEW t, NEW j, NEW e, NEW f, NEW g, Goes(t, j, e, f, g),
         NEW n \in Scopes' \ Scopes, scope'[n].owned
  PROVE  /\ scope'[n].parent \in Scopes /\ In(n, scope'[scope'[n].parent].children)
         /\ ~Releasing(scope'[n].parent)
         /\ \A u \in Scopes' : \A k \in 1..Len(Calls(u)') :
              Calls(u)'[k].scope = scope'[n].parent /\ Calls(u)'[k].pc \in Past =>
                Calls(u)'[k].pc = "children"
         /\ \A u \in Scopes : \A k \in 1..Len(Calls(u)) :
              Calls(u)[k].scope = scope'[n].parent => Calls(u)[k].pc \notin Past
<1> DEFINE p == scope'[n].parent
<1>1. p \in Scopes /\ ~scope[p].closed /\ In(n, scope'[p].children)
  BY DEF Goes, Arrivals, Arrives
<1>2. ~Releasing(p)
  BY <1>1, ReleasingClosed
<1>3. \A u \in Scopes : \A k \in 1..Len(Calls(u)) :
              Calls(u)[k].scope = p => Calls(u)[k].pc \notin Past
  BY <1>1 DEF Closers
<1> HIDE DEF p
<1>4. ASSUME NEW u \in Scopes', NEW k \in 1..Len(Calls(u)'),
             Calls(u)'[k].scope = p, Calls(u)'[k].pc \in Past
      PROVE  Calls(u)'[k].pc = "children"
  BY <1>3, <1>4, PastAfter
<1> QED
  BY <1>1, <1>2, <1>3, <1>4 DEF p

(* So every child that was inserted in time is tracked.                    *)
LEMMA KnownKept ==
  ASSUME IndInv, Tree, Closers, Known, NEW t, NEW j, NEW e, NEW f, NEW g, Goes(t, j, e, f, g)
  PROVE  Known'
<1> SUFFICES ASSUME NEW n \in Scopes', ChildOnly(n)', scope'[n].owned
             PROVE  Tracked(n)'
  BY DEF Known
<1>1. CASE n \in Scopes
  <2>1. ChildOnly(n) /\ scope[n].owned
    BY <1>1, ModesAfter DEF ChildOnly, Goes, FlagsGo
  <2> QED
    BY <1>1, <2>1, TrackedKept DEF Known
<1>2. CASE n \notin Scopes
  <2>1. Kept(n)'
    BY <1>2, Newcomer DEF Kept
  <2>2. ASSUME NEW u \in Scopes', NEW k \in 1..Len(Calls(u)')
        PROVE  Visited(n, u, k)'
    BY <1>2, Newcomer DEF Visited, Past
  <2> QED
    BY <2>1, <2>2 DEF Tracked
<1> QED
  BY <1>1, <1>2

(* A close waits for its tasks after it has visited its children.          *)
LEMMA ClosedFirstKept ==
  ASSUME IndInv, Tree, Closers, Known, ClosedFirst,
         NEW t, NEW j, NEW e, NEW f, NEW g, Goes(t, j, e, f, g)
  PROVE  ClosedFirst'
<1> SUFFICES ASSUME NEW n \in Scopes', ChildOnly(n)', scope'[n].owned,
                    NEW u \in Scopes', NEW k \in 1..Len(Calls(u)'),
                    Calls(u)'[k].scope = scope'[n].parent, Calls(u)'[k].pc = "quiesce"
             PROVE  scope'[n].closed
  BY DEF ClosedFirst, FrameAt
<1>1. CASE n \notin Scopes
  BY <1>1, Newcomer DEF Past
<1>2. CASE n \in Scopes
  <2>1. /\ ChildOnly(n) /\ scope[n].owned /\ scope'[n].parent = scope[n].parent
        /\ scope[n].closed => scope'[n].closed
    BY <1>2, ModesAfter DEF ChildOnly, Goes, FlagsGo, Grows
  <2>2. /\ u \in Scopes /\ t \in Scopes
        /\ \/ IsOld(u, k) \/ IsF(t, j, e, f, u, k) \/ IsG(t, j, e, f, g, u, k)
    BY FramesAfter, ScopesAfter
  <2>3. CASE IsOld(u, k)
    BY <1>2, <2>1, <2>2, <2>3 DEF IsOld, ClosedFirst, FrameAt
  <2>4. CASE IsF(t, j, e, f, u, k)
    <3>1. ~Enters(t, f) /\ Calls(u)'[k] = f /\ u = t /\ e > j /\ k = j + 1
      BY <2>4 DEF Enters, IsF, EntryPcs, AddPcs
    <3>2. /\ Proceeds(t, e, j, f, g) /\ j + 1 \in 1..Len(Calls(t)) /\ Depth(t) = j + 1
          /\ Top(t) = Calls(t)[j + 1] /\ f.scope = Top(t).scope
      BY <2>4, <3>1, WentOn
    <3>3. Top(t).pc = "closing" /\ Top(t).todo = <<>>
      BY <3>1, <3>2 DEF Proceeds, ClosesOn, CancelPcs, SpawnPcs
    <3>4. Tracked(n)
      BY <1>2, <2>1 DEF Known
    <3> QED
      BY <1>2, <2>1, <2>2, <3>1, <3>2, <3>3, <3>4, NoneLeft
  <2>5. CASE IsG(t, j, e, f, g, u, k)
    <3>1. e = j + 2 /\ Calls(u)'[k] = g
      BY <2>5 DEF IsG
    <3> QED
      BY <3>1, Called
  <2> QED
    BY <2>2, <2>3, <2>4, <2>5
<1> QED
  BY <1>1, <1>2

(* The close of a child that the main thread opened is over before its     *)
(* parent releases: nobody else closes it.                                 *)
LEMMA MainKeptKept ==
  ASSUME IndInv, Tree, Ascending, Closers, RootAlone, ClosedFirst, MainKept,
         NEW t, NEW j, NEW e, NEW f, NEW g, Goes(t, j, e, f, g)
  PROVE  MainKept'
<1> SUFFICES ASSUME NEW n \in Scopes', ChildOnly(n)', scope'[n].owned, scope'[n].opener = Root,
                    NEW p, p = scope'[n].parent, Releasing(p)'
             PROVE  scope'[n].drained
  BY DEF MainKept, Releasing, Locked
<1>1. CASE n \notin Scopes
  <2>1. p \in Scopes /\ ~Releasing(p)
    BY <1>1, Newcomer
  <2>2. /\ Top(t).pc = "quiesce" /\ Top(t).scope = p /\ t \in Scopes
        /\ j + 1 \in 1..Len(Calls(t)) /\ Top(t) = Calls(t)[j + 1]
    BY <2>1, ReleasingAfter
  <2> QED
    BY <1>1, <2>2, Newcomer DEF Past
<1>2. CASE n \in Scopes
  <2>1. /\ ChildOnly(n) /\ scope[n].owned /\ p = scope[n].parent /\ scope[n].opener = Root
        /\ scope[n].drained => scope'[n].drained
    BY <1>2, ModesAfter DEF ChildOnly, Goes, FlagsGo, Grows
  <2>2. p \in Scopes /\ p < n /\ Root \in Scopes
    BY <1>2, <2>1, TreeOf DEF ChildOnly
  <2>3. CASE Releasing(p)
    BY <1>2, <2>1, <2>3 DEF MainKept
  <2>4. CASE /\ Top(t).pc = "quiesce" /\ Top(t).scope = p /\ t \in Scopes
             /\ j + 1 \in 1..Len(Calls(t)) /\ Top(t) = Calls(t)[j + 1] /\ Depth(t) = j + 1
    <3>1. FrameAt(scope[n].parent, {"quiesce"})
      BY <2>1, <2>4 DEF FrameAt
    <3>2. scope[n].closed
      BY <1>2, <2>1, <3>1 DEF ClosedFirst
    <3>3. scope[p].opener = Root
      <4>1. thread[Root].home = Root /\ scope[Root].opener = Root
        BY <2>2 DEF Tree, Ran
      <4> QED
        BY <1>2, <2>1, <2>2, <4>1 DEF Tree, ChildOnly
    <3>4. t = Root
      BY <2>4, <3>3 DEF RootAlone, ClosePcs
    <3> SUFFICES ASSUME ~scope[n].drained PROVE FALSE
      BY <2>1
    <3>5. FrameAt(n, Past)
      BY <1>2, <3>2 DEF Closers
    <3>6. PICK v \in Scopes : \E l \in 1..Len(Calls(v)) :
            Calls(v)[l].scope = n /\ Calls(v)[l].pc \in Past
      BY <3>5 DEF FrameAt
    <3>7. PICK l \in 1..Len(Calls(v)) : Calls(v)[l].scope = n /\ Calls(v)[l].pc \in Past
      BY <3>6
    <3>8. v = Root
      BY <2>1, <3>7 DEF RootAlone, Past, ClosePcs
    <3>9. l <= j + 1
      BY <2>4, <3>4, <3>7, <3>8, DepthTyped DEF Depth, IndInv
    <3>10. n <= p
      BY <2>4, <3>4, <3>7, <3>8, <3>9 DEF Ascending
    <3> QED
      BY <1>2, <2>2, <3>10, ScopesAfter
  <2> QED
    BY <2>2, <2>3, <2>4, ReleasingAfter
<1> QED
  BY <1>1, <1>2

(* A list that loses its last, and one that gets one more.                 *)
LEMMA InFront ==
  ASSUME NEW S, NEW l \in Seq(S), l # <<>>, NEW x
  PROVE  /\ In(x, Front(l)) => In(x, l)
         /\ In(x, l) => In(x, Front(l)) \/ x = Last(l)
<1>1. /\ Len(l) \in Nat \ {0} /\ Last(l) = l[Len(l)] /\ Len(Front(l)) = Len(l) - 1
      /\ \A i \in 1..Len(l) - 1 : Front(l)[i] = l[i]
  BY FrontOfSeq
<1> QED
  BY <1>1 DEF In

(* What a list holds that got one more.                                    *)
LEMMA InAppend ==
  ASSUME NEW S, NEW l \in Seq(S), NEW y, NEW x
  PROVE  In(x, Append(l, y)) <=> In(x, l) \/ x = y
<1>1. /\ Len(l) \in Nat /\ Len(Append(l, y)) = Len(l) + 1
      /\ \A i \in 1..Len(l) : Append(l, y)[i] = l[i]
      /\ Append(l, y)[Len(l) + 1] = y
  <2>1. l \in Seq(S \cup {y}) /\ y \in S \cup {y}
    BY SeqMonotonic
  <2> QED
    BY <2>1, AppendToSeq, LenProperties
<1>2. In(x, Append(l, y)) => In(x, l) \/ x = y
  BY <1>1 DEF In
<1>3. In(x, l) => In(x, Append(l, y))
  BY <1>1 DEF In
<1>4. In(y, Append(l, y))
  BY <1>1 DEF In
<1> QED
  BY <1>2, <1>3, <1>4

(* One list of a scope after a step.                                       *)
LEMMA ListAfter ==
  ASSUME Len(item) \in Nat, NEW s, NEW kind, NEW old \in Seq(Items), NEW new,
         ListGoes(s, kind, old, new)
  PROVE  /\ \A i \in Items : In(i, new) => In(i, old)
         /\ \A i \in Items : In(i, old) => In(i, new) \/ item'[i].status # "held"
         /\ Rising(old) => Rising(new)
         /\ \A a \in 1..Len(new) :
              \/ new[a] \in Items /\ In(new[a], old)
              \/ /\ new[a] = Len(item) + 1 /\ item'[Len(item) + 1].scope = s
                 /\ item'[Len(item) + 1].kind = "resource" <=> kind = "resource"
<1>0. Len(old) \in Nat /\ \A a \in 1..Len(old) : old[a] \in Items /\ old[a] \in Nat /\ old[a] <= Len(item)
  <2>1. \A a \in 1..Len(old) : old[a] \in Items
    OBVIOUS
  <2> QED
    BY <2>1, LenProperties DEF Items
<1>1. CASE new = old
  BY <1>0, <1>1 DEF In
<1>2. CASE old # <<>> /\ new = Front(old) /\ item'[Last(old)].status # "held"
  <2>1. /\ Len(new) = Len(old) - 1 /\ Len(old) \in Nat
        /\ \A a \in 1..Len(new) : new[a] = old[a]
    BY <1>2, FrontOfSeq
  <2>2. Rising(old) => Rising(new)
    BY <2>1 DEF Rising
  <2>3. \A a \in 1..Len(new) : new[a] \in Items /\ In(new[a], old)
    BY <1>0, <2>1 DEF In
  <2>4. \A i \in Items : In(i, new) => In(i, old)
    BY <1>2, InFront
  <2>5. \A i \in Items : In(i, old) => In(i, new) \/ item'[i].status # "held"
    BY <1>2, InFront
  <2> QED
    BY <2>2, <2>3, <2>4, <2>5
<1>3. CASE /\ new = Append(old, Len(item) + 1)
           /\ item'[Len(item) + 1].scope = s
           /\ item'[Len(item) + 1].kind = "resource" <=> kind = "resource"
  <2> DEFINE n == Len(item) + 1
  <2>1. n \in Nat /\ n \notin Items /\ \A i \in Items : i < n
    BY DEF Items
  <2>2. /\ Len(new) = Len(old) + 1
        /\ \A a \in 1..Len(old) : new[a] = old[a]
        /\ new[Len(old) + 1] = n
    <3>1. old \in Seq(Nat)
      <4>1. Items \subseteq Nat
        BY DEF Items
      <4> QED
        BY <4>1, SeqMonotonic
    <3> QED
      BY <1>3, <2>1, <3>1, AppendToSeq
  <2>3. \A i \in Items : In(i, new) => In(i, old)
    BY <1>3, <2>1, InAppend
  <2>4. \A i \in Items : In(i, old) => In(i, new)
    BY <1>3, InAppend
  <2>5. Rising(old) => Rising(new)
    <3> SUFFICES ASSUME Rising(old), NEW a \in 1..Len(new), NEW b \in 1..Len(new), a < b
                 PROVE  new[a] < new[b]
      BY DEF Rising
    <3>1. a \in 1..Len(old)
      BY <1>0, <2>2
    <3>2. CASE b \in 1..Len(old)
      BY <2>2, <3>1, <3>2 DEF Rising
    <3>3. CASE b = Len(old) + 1
      BY <1>0, <2>1, <2>2, <3>1, <3>3
    <3>5. Len(old) \in Nat /\ Len(new) = Len(old) + 1
      BY <1>0, <2>2
    <3>4. b \in 1..Len(old) \/ b = Len(old) + 1
      BY <3>5
    <3> QED
      BY <3>2, <3>3, <3>4
  <2>6. \A a \in 1..Len(new) : (new[a] \in Items /\ In(new[a], old)) \/ new[a] = n
    BY <1>0, <2>2 DEF In
  <2> QED
    BY <1>3, <2>3, <2>4, <2>5, <2>6
<1> QED
  BY <1>1, <1>2, <1>3 DEF ListGoes

(* Both lists of a scope.                                                  *)
LEMMA ListsAfter ==
  ASSUME IndInv, NEW t, NEW j, NEW e, NEW f, NEW g, Goes(t, j, e, f, g), NEW s \in Scopes
  PROVE  /\ Len(item) \in Nat /\ Items = 1..Len(item) /\ Items' = 1..Len(item')
         /\ Items \subseteq Items'
         /\ scope[s].resource \in Seq(Items) /\ scope[s].finalizer \in Seq(Items)
         /\ ListGoes(s, "resource", scope[s].resource, scope'[s].resource)
         /\ ListGoes(s, "finalizer", scope[s].finalizer, scope'[s].finalizer)
<1>1. Len(item) \in Nat /\ Items = 1..Len(item) /\ Items' = 1..Len(item')
  BY DEF IndInv, Typed, Items
<1>2. Len(item') \in {Len(item), Len(item) + 1}
  BY DEF Goes, ItemsGo
<1>3. Items \subseteq Items'
  BY <1>1, <1>2
<1> QED
  BY <1>1, <1>3, ListsTyped DEF Goes, ItemsGo, IndInv

(* What stays in a list of a scope, and what was in it before.             *)
LEMMA InAfter ==
  ASSUME IndInv, NEW t, NEW j, NEW e, NEW f, NEW g, Goes(t, j, e, f, g),
         NEW s \in Scopes, NEW i \in Items
  PROVE  /\ In(i, scope'[s].resource) => In(i, scope[s].resource)
         /\ In(i, scope'[s].finalizer) => In(i, scope[s].finalizer)
         /\ item'[i].status = "held" =>
              /\ In(i, scope[s].resource) => In(i, scope'[s].resource)
              /\ In(i, scope[s].finalizer) => In(i, scope'[s].finalizer)
<1>0. /\ Len(item) \in Nat
      /\ scope[s].resource \in Seq(Items) /\ scope[s].finalizer \in Seq(Items)
      /\ ListGoes(s, "resource", scope[s].resource, scope'[s].resource)
      /\ ListGoes(s, "finalizer", scope[s].finalizer, scope'[s].finalizer)
  BY ListsAfter
<1>1. PICK r, r2, l, l2 : /\ r = scope[s].resource /\ r2 = scope'[s].resource
                          /\ l = scope[s].finalizer /\ l2 = scope'[s].finalizer
  OBVIOUS
<1>2. /\ Len(item) \in Nat /\ r \in Seq(Items) /\ l \in Seq(Items)
      /\ ListGoes(s, "resource", r, r2) /\ ListGoes(s, "finalizer", l, l2)
  BY <1>0, <1>1
<1>3. /\ In(i, r2) => In(i, r)
      /\ In(i, r) => In(i, r2) \/ item'[i].status # "held"
  BY <1>2, ListAfter
<1>5. Len(item) \in Nat /\ l \in Seq(Items) /\ ListGoes(s, "finalizer", l, l2)
  BY <1>2
<1>4. /\ In(i, l2) => In(i, l)
      /\ In(i, l) => In(i, l2) \/ item'[i].status # "held"
  BY <1>5, ListAfter
<1> QED
  BY <1>1, <1>3, <1>4

(* The lists of a scope stay in the order of registration, and hold items  *)
(* of that scope.                                                          *)
LEMMA ListsKept ==
  ASSUME IndInv, Lists, NEW t, NEW j, NEW e, NEW f, NEW g, Goes(t, j, e, f, g)
  PROVE  Lists'
<1>1. ASSUME NEW s \in Scopes' \ Scopes
      PROVE  scope'[s].resource = <<>> /\ scope'[s].finalizer = <<>>
  BY DEF Goes, Arrivals, Arrives
<1>2. Len(<<>>) = 0
  BY EmptySeq
<1>3. ASSUME NEW s \in Scopes, NEW l, l = scope'[s].resource
      PROVE  /\ Rising(l)
             /\ \A a \in 1..Len(l) : item'[l[a]].scope = s /\ item'[l[a]].kind = "resource"
  <2> DEFINE o == scope[s].resource
  <2>0. Len(item) \in Nat /\ o \in Seq(Items) /\ ListGoes(s, "resource", o, l)
    BY <1>3, ListsAfter
  <2>1. Rising(o) /\ \A a \in 1..Len(o) : item[o[a]].scope = s /\ item[o[a]].kind = "resource"
    BY DEF Lists
  <2> HIDE DEF o
  <2>2. Rising(l)
    BY <2>0, <2>1, ListAfter
  <2>3. ASSUME NEW a \in 1..Len(l)
        PROVE  item'[l[a]].scope = s /\ item'[l[a]].kind = "resource"
    <3>2. \/ l[a] \in Items /\ In(l[a], o)
          \/ /\ l[a] = Len(item) + 1 /\ item'[Len(item) + 1].scope = s
             /\ item'[Len(item) + 1].kind = "resource" <=> "resource" = "resource"
      BY <2>0, <2>3, ListAfter
    <3>1. CASE l[a] \in Items /\ In(l[a], o)
      <4>1. item[l[a]].scope = s /\ item[l[a]].kind = "resource"
        BY <2>1, <3>1 DEF In
      <4> QED
        BY <3>1, <4>1 DEF Goes, ItemsGo
    <3> QED
      BY <3>1, <3>2
  <2> QED
    BY <2>2, <2>3
<1>4. ASSUME NEW s \in Scopes, NEW l, l = scope'[s].finalizer
      PROVE  /\ Rising(l)
             /\ \A a \in 1..Len(l) : item'[l[a]].scope = s /\ item'[l[a]].kind # "resource"
  <2> DEFINE o == scope[s].finalizer
  <2>0. Len(item) \in Nat /\ o \in Seq(Items) /\ ListGoes(s, "finalizer", o, l)
    BY <1>4, ListsAfter
  <2>1. Rising(o) /\ \A a \in 1..Len(o) : item[o[a]].scope = s /\ item[o[a]].kind # "resource"
    BY DEF Lists
  <2> HIDE DEF o
  <2>2. Rising(l)
    BY <2>0, <2>1, ListAfter
  <2>3. ASSUME NEW a \in 1..Len(l)
        PROVE  item'[l[a]].scope = s /\ item'[l[a]].kind # "resource"
    <3>2. \/ l[a] \in Items /\ In(l[a], o)
          \/ /\ l[a] = Len(item) + 1 /\ item'[Len(item) + 1].scope = s
             /\ item'[Len(item) + 1].kind = "resource" <=> "finalizer" = "resource"
      BY <2>0, <2>3, ListAfter
    <3>1. CASE l[a] \in Items /\ In(l[a], o)
      <4>1. item[l[a]].scope = s /\ item[l[a]].kind # "resource"
        BY <2>1, <3>1 DEF In
      <4> QED
        BY <3>1, <4>1 DEF Goes, ItemsGo
    <3> QED
      BY <3>1, <3>2
  <2> QED
    BY <2>2, <2>3
<1>5. ASSUME NEW s \in Scopes'
      PROVE  /\ Rising(scope'[s].resource) /\ Rising(scope'[s].finalizer)
             /\ \A a \in 1..Len(scope'[s].resource) :
                  /\ item'[scope'[s].resource[a]].scope = s
                  /\ item'[scope'[s].resource[a]].kind = "resource"
             /\ \A a \in 1..Len(scope'[s].finalizer) :
                  /\ item'[scope'[s].finalizer[a]].scope = s
                  /\ item'[scope'[s].finalizer[a]].kind # "resource"
  <2>1. CASE s \in Scopes
    BY <1>3, <1>4, <2>1
  <2>2. CASE s \notin Scopes
    BY <1>1, <1>2, <2>2 DEF Rising
  <2> QED
    BY <2>1, <2>2
<1> QED
  BY <1>5 DEF Lists, Rising

(* An item was registered by a thread, in a scope.                         *)
LEMMA ItemTypes ==
  ASSUME IndInv, NEW i \in Items
  PROVE  /\ item[i].scope \in Scopes /\ item[i].by \in Scopes /\ item[i].asked \in Nat
         /\ item[i].calm \in BOOLEAN
BY ItemTyped DEF IndInv, ItemRec, Scopes

(* What is held stays listed: a drain takes an item off its list and       *)
(* releases it in one step.                                                *)
LEMMA ListedKept ==
  ASSUME IndInv, Tree, Listed, NEW t, NEW j, NEW e, NEW f, NEW g, Goes(t, j, e, f, g)
  PROVE  Listed'
<1> SUFFICES ASSUME NEW i \in Items'
             PROVE  /\ item'[i].status = "held" => In(i, ListOf(i)')
                    /\ thread'[item'[i].by].mode \in Ran
                    /\ thread'[item'[i].by].home = item'[i].scope
  BY DEF Listed, In, ListOf
<1>0. t \in Scopes
  BY ScopesAfter
<1>1. CASE i \notin Items
  <2>1. /\ item'[i].by = t /\ item'[i].scope = thread[t].home
        /\ thread[t].mode = "body" /\ In(i, ListOf(i)')
    BY <1>1 DEF Goes, ItemsGo
  <2> QED
    BY <1>0, <2>1, ModesAfter DEF Ran, Goes, Grows
<1>2. CASE i \in Items
  <2>1. /\ item'[i].kind = item[i].kind /\ item'[i].scope = item[i].scope
        /\ item'[i].by = item[i].by
        /\ item'[i].status = "held" => item[i].status = "held"
    BY <1>2 DEF Goes, ItemsGo
  <2>2. item[i].scope \in Scopes /\ item[i].by \in Scopes
    BY <1>2, ItemTypes
  <2>3. thread'[item'[i].by].mode \in Ran /\ thread'[item'[i].by].home = item'[i].scope
    BY <1>2, <2>1, <2>2, ModesAfter DEF Listed, Goes, Grows
  <2>4. ASSUME item'[i].status = "held"
        PROVE  In(i, ListOf(i)')
    <3>1. In(i, ListOf(i))
      BY <1>2, <2>1, <2>4 DEF Listed
    <3>2. CASE item[i].kind = "resource"
      <4>2. In(i, scope[item[i].scope].resource) /\ item'[i].status = "held"
        BY <2>4, <3>1, <3>2 DEF ListOf
      <4>1. In(i, scope'[item[i].scope].resource)
        BY <1>2, <2>2, <4>2, InAfter
      <4> QED
        BY <2>1, <3>2, <4>1 DEF ListOf
    <3>3. CASE item[i].kind # "resource"
      <4>2. In(i, scope[item[i].scope].finalizer) /\ item'[i].status = "held"
        BY <2>4, <3>1, <3>3 DEF ListOf
      <4>1. In(i, scope'[item[i].scope].finalizer)
        BY <1>2, <2>2, <4>2, InAfter
      <4> QED
        BY <2>1, <3>3, <4>1 DEF ListOf
    <3> QED
      BY <3>2, <3>3
  <2> QED
    BY <2>3, <2>4
<1> QED
  BY <1>1, <1>2

(* Who begins to run the finalizers, and who is through with them.         *)
LEMMA FinalizerAfter ==
  ASSUME IndInv, NEW t, NEW j, NEW e, NEW f, NEW g, Goes(t, j, e, f, g),
         NEW s \in Scopes, FrameAt(s, {"finalizer"})'
  PROVE  \/ FrameAt(s, {"finalizer"})
         \/ FrameAt(s, {"resource"}) /\ scope[s].resource = <<>>
<1> SUFFICES ASSUME NEW u \in Scopes', NEW k \in 1..Len(Calls(u)'),
                    Calls(u)'[k].scope = s, Calls(u)'[k].pc = "finalizer"
             PROVE  \/ FrameAt(s, {"finalizer"})
                    \/ FrameAt(s, {"resource"}) /\ scope[s].resource = <<>>
  BY DEF FrameAt
<1>1. /\ u \in Scopes /\ t \in Scopes
      /\ \/ IsOld(u, k) \/ IsF(t, j, e, f, u, k) \/ IsG(t, j, e, f, g, u, k)
  BY FramesAfter, ScopesAfter
<1>2. CASE IsOld(u, k)
  BY <1>1, <1>2 DEF IsOld, FrameAt
<1>3. CASE IsF(t, j, e, f, u, k)
  <2>1. ~Enters(t, f) /\ Calls(u)'[k] = f /\ u = t
    BY <1>3 DEF Enters, IsF, EntryPcs, AddPcs
  <2>2. /\ Proceeds(t, e, j, f, g) /\ j + 1 \in 1..Len(Calls(t)) /\ Depth(t) = j + 1
        /\ Top(t) = Calls(t)[j + 1] /\ f.scope = Top(t).scope
    BY <1>3, <2>1, WentOn
  <2>3. Top(t).pc = "resource" /\ scope[s].resource = <<>>
    BY <2>1, <2>2 DEF Proceeds, ClosesOn, CancelPcs, SpawnPcs
  <2> QED
    BY <1>1, <2>1, <2>2, <2>3 DEF FrameAt
<1>4. CASE IsG(t, j, e, f, g, u, k)
  <2>1. e = j + 2 /\ Calls(u)'[k] = g
    BY <1>4 DEF IsG
  <2> QED
    BY <2>1, Called
<1> QED
  BY <1>1, <1>2, <1>3, <1>4

(* A scope is drained when its list of finalizers is empty.                *)
LEMMA DrainedAfter ==
  ASSUME IndInv, NEW t, NEW j, NEW e, NEW f, NEW g, Goes(t, j, e, f, g),
         NEW s \in Scopes, scope'[s].drained
  PROVE  \/ scope[s].drained
         \/ FrameAt(s, {"finalizer"}) /\ scope[s].finalizer = <<>>
<1> SUFFICES ASSUME ~scope[s].drained
             PROVE  FrameAt(s, {"finalizer"}) /\ scope[s].finalizer = <<>>
  OBVIOUS
<1>1. f.pc = "detach" /\ f.scope = s /\ Depth(t) = j + 1 /\ e > j
  BY DEF Goes, FlagsGo
<1>2. Proceeds(t, e, j, f, g)
  BY <1>1 DEF Goes, CallsGo
<1>3. Top(t).pc = "finalizer" /\ Top(t).scope = s /\ scope[s].finalizer = <<>>
  BY <1>1, <1>2 DEF Proceeds, ClosesOn, CancelPcs, SpawnPcs
<1>4. t \in Scopes /\ j + 1 \in 1..Len(Calls(t)) /\ Top(t) = Calls(t)[j + 1]
  BY <1>1, TopAt, ScopesAfter
<1> QED
  BY <1>3, <1>4 DEF FrameAt

(* A scope that does not release yet has no part in the drains.            *)
LEMMA NotReleasing ==
  ASSUME NEW s \in Scopes, ~Releasing(s)
  PROVE  ~scope[s].drained /\ ~FrameAt(s, {"finalizer"}) /\ ~FrameAt(s, {"resource"})
BY DEF Releasing, Locked, FrameAt

(* A list that was found empty stays so, for the tasks that were waited    *)
(* for: a late register or defer is by a stalled task, or by one that was  *)
(* not recorded in time.                                                   *)
LEMMA EmptiedKept ==
  ASSUME IndInv, Tree, Closers, Guards, TasksKept, Listed, Emptied,
         NEW t, NEW j, NEW e, NEW f, NEW g, Goes(t, j, e, f, g)
  PROVE  Emptied'
<1> SUFFICES ASSUME stalled' = {}, NEW i \in Items', NEW b, b = item'[i].by,
                    b = Root \/ scope'[b].owned, NEW s, s = item'[i].scope
             PROVE  /\ In(i, scope'[s].resource) =>
                         ~scope'[s].drained /\ ~FrameAt(s, {"finalizer"})'
                    /\ In(i, scope'[s].finalizer) => ~scope'[s].drained
  BY DEF Emptied, Minded, FrameAt, In
<1>0. t \in Scopes /\ Root \in Scopes /\ stalled = {}
  BY ScopesAfter DEF Goes, TasksGo
<1>1. ASSUME s \in Scopes, ~Releasing(s)
      PROVE  ~scope'[s].drained /\ ~FrameAt(s, {"finalizer"})'
  BY <1>1, NotReleasing, FinalizerAfter, DrainedAfter
<1>2. CASE i \notin Items
  <2>1. /\ b = t /\ s = thread[t].home /\ thread[t].mode = "body"
    BY <1>2 DEF Goes, ItemsGo
  <2>2. s = scope[t].parent /\ s \in Scopes
    BY <1>0, <2>1, TreeOf DEF Tree
  <2>3. CASE t = Root
    <3>1. s = Root /\ ~scope[Root].closed
      BY <2>1, <2>2, <2>3 DEF Tree, Guards
    <3> QED
      BY <1>0, <1>1, <3>1, ReleasingClosed
  <2>4. CASE t # Root /\ scope[t].owned
    <3>1. ~Releasing(s)
      BY <1>0, <2>1, <2>2, <2>4 DEF TasksKept
    <3> QED
      BY <1>1, <2>2, <3>1
  <2>5. CASE t # Root /\ ~scope[t].owned
    <3>1. ~scope[s].closed
      BY <1>0, <2>1, <2>2, <2>5 DEF Goes, FlagsGo
    <3> QED
      BY <1>1, <2>2, <3>1, ReleasingClosed
  <2> QED
    BY <2>3, <2>4, <2>5
<1>3. CASE i \in Items
  <2>1. b = item[i].by /\ s = item[i].scope /\ b \in Scopes /\ s \in Scopes
    BY <1>3, ItemTypes DEF Goes, ItemsGo
  <2>2. CASE ~Minded(i)
    <3>1. b # Root /\ scope'[b].owned /\ ~scope[b].owned
      BY <2>1, <2>2 DEF Minded
    <3>2. ~scope[scope[b].parent].closed
      BY <2>1, <3>1 DEF Goes, FlagsGo
    <3>3. s = scope[b].parent
      BY <1>3, <2>1 DEF Listed, Tree, Ran
    <3> QED
      BY <1>1, <2>1, <3>2, <3>3, ReleasingClosed
  <2>3. CASE Minded(i)
    <3>1. /\ In(i, scope[s].resource) => ~scope[s].drained /\ ~FrameAt(s, {"finalizer"})
          /\ In(i, scope[s].finalizer) => ~scope[s].drained
      BY <1>0, <1>3, <2>1, <2>3 DEF Emptied
    <3>2. /\ In(i, scope'[s].resource) => In(i, scope[s].resource)
          /\ In(i, scope'[s].finalizer) => In(i, scope[s].finalizer)
      BY <1>3, <2>1, InAfter
    <3>3. Len(<<>>) = 0
      BY EmptySeq
    <3>4. /\ In(i, scope[s].resource) => scope[s].resource # <<>>
          /\ In(i, scope[s].finalizer) => scope[s].finalizer # <<>>
      BY <3>3 DEF In
    <3> QED
      BY <2>1, <3>1, <3>2, <3>4, FinalizerAfter, DrainedAfter
  <2> QED
    BY <2>2, <2>3
<1> QED
  BY <1>2, <1>3

(* Every step that goes as it may keeps the protocol.                      *)
LEMMA ProtocolKept ==
  ASSUME IndInv, IndInv', Protocol,
         NEW t, NEW j, NEW e, NEW f, NEW g, Goes(t, j, e, f, g)
  PROVE  Protocol'
<1>1. Tree' /\ Chains' /\ Ascending' /\ Bottoms' /\ Todos'
  BY TreeKept, ChainsKept, AscendingKept, BottomsKept, TodosKept DEF Protocol
<1>2. OneCloser' /\ Closers' /\ Guards' /\ RootAlone'
  BY OneCloserKept, ClosersKept, GuardsKept, RootAloneKept DEF Protocol
<1>3. TasksKept' /\ Known' /\ ClosedFirst' /\ MainKept'
  BY TasksKeptKept, KnownKept, ClosedFirstKept, MainKeptKept DEF Protocol
<1>4. Lists' /\ Listed' /\ Emptied'
  BY ListsKept, ListedKept, EmptiedKept DEF Protocol
<1> QED
  BY <1>1, <1>2, <1>3, <1>4 DEF Protocol

-----------------------------------------------------------------------------
(* What the forms of a step do to the calls of its thread.                 *)
OthersStay(t) == \A u \in Scopes \ {t} : Calls(u)' = Calls(u)

(* The calls of its thread stay as they are.                               *)
LEMMA Stayed ==
  ASSUME IndInv, NEW t \in Scopes, OthersStay(t), Calls(t)' = Calls(t), NEW f, NEW g
  PROVE  Moves(t, Depth(t), Depth(t), f, g)
<1>1. Depth(t) \in Nat /\ Len(Calls(t)) = Depth(t)
  BY DepthTyped DEF IndInv, Depth
<1> QED
  BY <1>1 DEF Moves, OthersStay

(* A thread without calls makes one.                                       *)
LEMMA Started ==
  ASSUME IndInv, NEW t \in Scopes, OthersStay(t), Calls(t) = <<>>,
         NEW f, Calls(t)' = Append(<<>>, f), NEW g
  PROVE  Moves(t, 0, 1, f, g) /\ Depth(t) = 0
<1>1. Depth(t) = 0
  BY DepthTyped DEF IndInv
<1>2. Append(<<>>, f) = <<f>>
  OBVIOUS
<1>3. Len(Calls(t)') = 1 /\ Calls(t)'[1] = f
  BY <1>2
<1> QED
  BY <1>1, <1>3 DEF Moves, OthersStay

(* The top call returns.                                                   *)
LEMMA Returned ==
  ASSUME IndInv, NEW t \in Scopes, OthersStay(t), Calls(t) # <<>>,
         Calls(t)' = Front(Calls(t)), NEW j, j = Depth(t) - 1, NEW f, NEW g
  PROVE  Moves(t, j, j, f, g) /\ Depth(t) = j + 1 /\ Top(t) = Last(Calls(t))
<1> DEFINE S == CallRec(Len(scope), Len(item))
<1>1. /\ Calls(t) \in Seq(S)
  BY ThreadTyped DEF IndInv
<1> HIDE DEF S
<1>2. /\ Depth(t) \in Nat \ {0} /\ Top(t) = Last(Calls(t))
      /\ Len(Calls(t)') = Depth(t) - 1
      /\ \A i \in 1..Depth(t) - 1 : Calls(t)'[i] = Calls(t)[i]
  BY <1>1, FrontOfSeq DEF Depth, Top
<1> QED
  BY <1>2 DEF Moves, OthersStay

(* The top call goes on.                                                   *)
LEMMA Jumped ==
  ASSUME IndInv, NEW t \in Scopes, OthersStay(t), Calls(t) # <<>>,
         NEW f, Calls(t)' = Append(Front(Calls(t)), f), NEW j, j = Depth(t) - 1, NEW g
  PROVE  Moves(t, j, j + 1, f, g) /\ Depth(t) = j + 1 /\ Top(t) = Last(Calls(t))
<1> DEFINE S == CallRec(Len(scope), Len(item))
           b == Front(Calls(t))
<1>1. Calls(t) \in Seq(S)
  BY ThreadTyped DEF IndInv
<1> HIDE DEF S
<1>2. /\ Depth(t) \in Nat \ {0} /\ Top(t) = Last(Calls(t)) /\ b \in Seq(S)
      /\ Len(b) = Depth(t) - 1
      /\ \A i \in 1..Depth(t) - 1 : b[i] = Calls(t)[i]
  BY <1>1, FrontOfSeq DEF Depth, Top
<1>3. /\ b \in Seq(S \cup {f}) /\ f \in S \cup {f} /\ Calls(t)' = Append(b, f)
  BY <1>2, SeqMonotonic
<1> HIDE DEF b
<1>4. /\ Len(Calls(t)') = Depth(t)
      /\ \A i \in 1..Depth(t) - 1 : Calls(t)'[i] = Calls(t)[i]
      /\ Calls(t)'[Depth(t)] = f
  BY <1>2, <1>3, AppendToSeq
<1> QED
  BY <1>2, <1>4 DEF Moves, OthersStay

(* The top call goes on and makes another.                                 *)
LEMMA Deepened ==
  ASSUME IndInv, NEW t \in Scopes, OthersStay(t), Calls(t) # <<>>,
         NEW f, NEW g, Calls(t)' = Append(Append(Front(Calls(t)), f), g),
         NEW j, j = Depth(t) - 1
  PROVE  Moves(t, j, j + 2, f, g) /\ Depth(t) = j + 1 /\ Top(t) = Last(Calls(t))
<1> DEFINE S == CallRec(Len(scope), Len(item))
           b == Front(Calls(t))
           c == Append(b, f)
<1>1. Calls(t) \in Seq(S)
  BY ThreadTyped DEF IndInv
<1> HIDE DEF S
<1>2. /\ Depth(t) \in Nat \ {0} /\ Top(t) = Last(Calls(t)) /\ b \in Seq(S)
      /\ Len(b) = Depth(t) - 1
      /\ \A i \in 1..Depth(t) - 1 : b[i] = Calls(t)[i]
  BY <1>1, FrontOfSeq DEF Depth, Top
<1> DEFINE Z == S \cup {f, g}
<1>3. /\ b \in Seq(Z) /\ f \in Z /\ g \in Z /\ Calls(t)' = Append(c, g)
  BY <1>2, SeqMonotonic
<1> HIDE DEF b, Z
<1>4. /\ Len(c) = Depth(t) /\ c \in Seq(Z)
      /\ \A i \in 1..Depth(t) - 1 : c[i] = Calls(t)[i]
      /\ c[Depth(t)] = f
  BY <1>2, <1>3, AppendToSeq
<1> HIDE DEF c
<1>5. /\ Len(Calls(t)') = Depth(t) + 1
      /\ \A i \in 1..Depth(t) : Calls(t)'[i] = c[i]
      /\ Calls(t)'[Depth(t) + 1] = g
  BY <1>2, <1>3, <1>4, AppendToSeq
<1>6. /\ \A i \in 1..Depth(t) - 1 : Calls(t)'[i] = Calls(t)[i]
      /\ Calls(t)'[Depth(t)] = f
  BY <1>2, <1>4, <1>5
<1> QED
  BY <1>2, <1>5, <1>6 DEF Moves, OthersStay

(* A step that changes the stack of its thread only.                       *)
ThreadsStay ==
    /\ Len(thread') = Len(thread)
    /\ \A u \in Scopes : thread'[u].mode = thread[u].mode /\ thread'[u].home = thread[u].home

(* SetCalls changes the stack and nothing else of its thread.              *)
LEMMA StackSet ==
  ASSUME Typed, NEW t \in Scopes, NEW calls, SetCalls(t, calls)
  PROVE  ThreadsStay /\ OthersStay(t) /\ Calls(t)' = calls
<1>1. thread \in Seq(ThreadRec(Len(scope), Len(item))) /\ Scopes = 1..Len(thread)
  BY DEF Typed, Shapes, Scopes
<1>2. thread[t] \in ThreadRec(Len(scope), Len(item))
  BY ThreadTyped
<1> DEFINE r == [thread[t] EXCEPT !.calls = calls]
<1>3. r.mode = thread[t].mode /\ r.home = thread[t].home /\ r.calls = calls
  BY <1>2 DEF ThreadRec
<1> HIDE DEF r
<1>4. Len(thread') = Len(thread) /\ \A u \in Scopes : thread'[u] = IF u = t THEN r ELSE thread[u]
  BY <1>1 DEF SetCalls, r
<1>5. \A u \in Scopes \ {t} : thread'[u] = thread[u]
  BY <1>4
<1>6. thread'[t] = r
  BY <1>4
<1>7. Calls(t)' = calls /\ OthersStay(t)
  BY <1>3, <1>5, <1>6 DEF Calls, OthersStay
<1>8. \A u \in Scopes : thread'[u].mode = thread[u].mode /\ thread'[u].home = thread[u].home
  BY <1>3, <1>5, <1>6
<1> QED
  BY <1>4, <1>7, <1>8 DEF ThreadsStay

Fields == {"parent", "opener", "guarded", "owned", "cancelled", "closed",
           "drained", "children", "tasks", "resource", "finalizer"}

(* The fields of an ExecutionScopeInner.                                   *)
LEMMA FieldsOf ==
  ASSUME NEW n, NEW m, NEW r \in ScopeRec(n, m)
  PROVE  DOMAIN r = Fields
BY DEF ScopeRec, Fields

(* A step that changes at most one field of one scope.                     *)
Only(s, x) ==
    /\ Len(scope') = Len(scope)
    /\ \A n \in Scopes : \A y \in Fields :
          n # s \/ y # x => scope'[n][y] = scope[n][y]

(* An assignment to a field.                                               *)
LEMMA FieldSet ==
  ASSUME Typed, NEW s \in Scopes, NEW x \in Fields, NEW v,
         scope' = [scope EXCEPT ![s] = [scope[s] EXCEPT ![x] = v]]
  PROVE  Only(s, x) /\ scope'[s][x] = v
<1>1. scope \in Seq(ScopeRec(Len(scope), Len(item))) /\ Scopes = 1..Len(scope)
  BY DEF Typed, Shapes, Scopes
<1>2. DOMAIN scope[s] = Fields
  BY <1>1, FieldsOf
<1> DEFINE r == [scope[s] EXCEPT ![x] = v]
<1>3. \A y \in Fields : r[y] = IF y = x THEN v ELSE scope[s][y]
  BY <1>2
<1> HIDE DEF r
<1>4. Len(scope') = Len(scope) /\ \A n \in Scopes : scope'[n] = IF n = s THEN r ELSE scope[n]
  BY <1>1 DEF r
<1>5. scope'[s][x] = v
  BY <1>3, <1>4
<1>6. ASSUME NEW n \in Scopes, NEW y \in Fields, n # s \/ y # x
      PROVE  scope'[n][y] = scope[n][y]
  <2>1. CASE n = s
    <3>1. scope'[n] = r
      BY <1>4, <2>1
    <3> QED
      BY <1>3, <1>6, <2>1, <3>1
  <2>2. CASE n # s
    BY <1>4, <2>2
  <2> QED
    BY <2>1, <2>2
<1> QED
  BY <1>4, <1>5, <1>6 DEF Only

(* A step that leaves the scopes alone changes at most any field.          *)
LEMMA NoneSet ==
  ASSUME UNCHANGED scope, NEW s, NEW x
  PROVE  Only(s, x)
BY DEF Only

(* What such a step leaves as it is.                                       *)
LEMMA GrowsOnly ==
  ASSUME IndInv, NEW s, NEW x, x \notin {"parent", "opener"}, Only(s, x), ThreadsStay,
         NEW t
  PROVE  Grows /\ Arrivals(t) /\ Scopes' = Scopes
<1>1. Len(scope) \in Nat /\ Len(scope') = Len(scope) /\ Scopes' = Scopes
  BY DEF IndInv, Typed, Only, Scopes
<1>2. \A n \in Scopes : /\ scope'[n].parent = scope[n].parent
                        /\ scope'[n].opener = scope[n].opener
                        /\ thread'[n].home = thread[n].home
  BY DEF Only, Fields, ThreadsStay
<1> QED
  BY <1>1, <1>2 DEF Grows, Arrivals

(* The threads, when their modes stay.                                     *)
LEMMA ThreadsOnly ==
  ASSUME ThreadsStay, NEW t, NEW e, NEW f
  PROVE  ThreadsGo(t, e, f)
BY DEF ThreadsStay, ThreadsGo

(* The records of tasks, when another field is set.                        *)
LEMMA TasksOnly ==
  ASSUME NEW s, NEW x, x # "tasks", Only(s, x), UNCHANGED stalled,
         NEW t, NEW j, NEW e, NEW f
  PROVE  TasksGo(t, j, e, f)
<1>1. \A n \in Scopes : scope'[n].tasks = scope[n].tasks
  BY DEF Only, Fields
<1> QED
  BY <1>1 DEF TasksGo

(* The lists of children, when another field is set.                       *)
LEMMA ChildrenOnly ==
  ASSUME IndInv, Todos, NEW s, NEW x, x \notin {"children", "parent"}, Only(s, x),
         NEW t, NEW j, NEW e, NEW f
  PROVE  ChildrenGo(t, j, e, f)
<1>1. \A n \in Scopes : /\ scope'[n].children = scope[n].children
                        /\ scope'[n].parent = scope[n].parent
  BY DEF Only, Fields
<1>2. Scopes' = Scopes
  BY DEF Only, Scopes
<1>3. \A n \in Scopes : \A a \in 1..Len(scope[n].children) :
        scope[n].children[a] \in Scopes \ {Root} /\ scope[scope[n].children[a]].parent = n
  BY DEF Todos, Under
<1> QED
  BY <1>1, <1>2, <1>3 DEF ChildrenGo

(* The flags, when a list is set.                                          *)
LEMMA FlagsOnly ==
  ASSUME NEW s, NEW x, x \notin {"guarded", "owned", "closed", "drained"}, Only(s, x),
         NEW t, NEW j, NEW e, NEW f,
         Depth(t) = j + 1 /\ e > j => f.pc \notin {"children", "detach"}
  PROVE  FlagsGo(t, j, e, f)
<1>1. \A n \in Scopes : /\ scope'[n].guarded = scope[n].guarded
                        /\ scope'[n].owned = scope[n].owned
                        /\ scope'[n].closed = scope[n].closed
                        /\ scope'[n].drained = scope[n].drained
  BY DEF Only, Fields
<1> QED
  BY <1>1, Zenon DEF FlagsGo

(* The items keep what they are, and those released stay so.               *)
ItemsStay ==
    /\ Len(item') = Len(item)
    /\ \A i \in Items :
         /\ item'[i].kind = item[i].kind /\ item'[i].scope = item[i].scope
         /\ item'[i].by = item[i].by
         /\ item'[i].status = "held" => item[i].status = "held"

(* The items and their lists, when another field is set.                   *)
LEMMA ItemsOnly ==
  ASSUME NEW s, NEW x, x \notin {"resource", "finalizer"}, Only(s, x), ItemsStay,
         NEW t, NEW j, NEW e
  PROVE  ItemsGo(t, j, e)
<1>1. \A n \in Scopes : /\ scope'[n].resource = scope[n].resource
                        /\ scope'[n].finalizer = scope[n].finalizer
  BY DEF Only, Fields
<1>2. Items' = Items
  BY DEF Items, ItemsStay
<1> QED
  BY <1>1, <1>2 DEF ItemsGo, ItemsStay, ListGoes

(* A step that leaves the items alone.                                     *)
LEMMA NoItems ==
  ASSUME UNCHANGED item
  PROVE  ItemsStay
BY DEF ItemsStay

(* A step that sets a field the protocol says nothing of, if any.          *)
LEMMA Plain ==
  ASSUME IndInv, Todos, NEW s, Only(s, "cancelled"), ThreadsStay, ItemsStay,
         UNCHANGED stalled, NEW t \in Scopes, NEW j, NEW e, NEW f, NEW g,
         Moves(t, j, e, f, g), CallsGo(t, j, e, f, g),
         Depth(t) = j + 1 /\ e > j => f.pc \notin {"children", "detach"}
  PROVE  Goes(t, j, e, f, g)
<1>1. PICK x : x = "cancelled"
  OBVIOUS
<1>2. /\ x \notin {"parent", "opener", "children", "tasks", "resource", "finalizer",
                   "guarded", "owned", "closed", "drained"}
      /\ Only(s, x)
  BY <1>1
<1>3. Grows /\ Arrivals(t)
  BY <1>2, GrowsOnly
<1>4. ThreadsGo(t, e, f) /\ TasksGo(t, j, e, f)
  BY <1>2, ThreadsOnly, TasksOnly
<1>5. ChildrenGo(t, j, e, f) /\ FlagsGo(t, j, e, f)
  BY <1>2, ChildrenOnly, FlagsOnly
<1>6. ItemsGo(t, j, e)
  BY <1>2, ItemsOnly
<1> QED
  BY <1>3, <1>4, <1>5, <1>6 DEF Goes

Went(t) == \E j, e, f, g : Goes(t, j, e, f, g)

(* Return, as a change of the stack.                                       *)
LEMMA ReturnMoves ==
  ASSUME IndInv, NEW t \in Scopes, Calls(t) # <<>>, Return(t),
         NEW j, j = Depth(t) - 1, NEW f, NEW g
  PROVE  /\ ThreadsStay /\ Moves(t, j, j, f, g) /\ j \in Nat /\ Depth(t) = j + 1
         /\ Top(t) = Last(Calls(t))
<1>1. ThreadsStay /\ OthersStay(t) /\ Calls(t)' = Front(Calls(t))
  BY StackSet DEF Return, IndInv
<1>2. Moves(t, j, j, f, g) /\ Depth(t) = j + 1 /\ Top(t) = Last(Calls(t))
  BY <1>1, Returned
<1>3. j \in Nat
  BY <1>2 DEF Moves
<1> QED
  BY <1>1, <1>2, <1>3

(* Goto, as a change of the stack.                                         *)
LEMMA GotoMoves ==
  ASSUME IndInv, NEW t \in Scopes, Calls(t) # <<>>, NEW pc, NEW todo, Goto(t, pc, todo),
         NEW f, f = Frame(Here(t), pc, todo), NEW j, j = Depth(t) - 1, NEW g
  PROVE  /\ ThreadsStay /\ Moves(t, j, j + 1, f, g) /\ j \in Nat /\ Depth(t) = j + 1
         /\ Top(t) = Last(Calls(t))
         /\ f.scope = Top(t).scope /\ f.pc = pc /\ f.todo = todo
<1>1. ThreadsStay /\ OthersStay(t) /\ Calls(t)' = Append(Front(Calls(t)), f)
  BY StackSet DEF Goto, IndInv
<1>2. Moves(t, j, j + 1, f, g) /\ Depth(t) = j + 1 /\ Top(t) = Last(Calls(t))
  BY <1>1, Jumped
<1>3. j \in Nat
  BY <1>2 DEF Moves
<1>4. f.scope = Top(t).scope /\ f.pc = pc /\ f.todo = todo
  BY <1>2 DEF Frame, Here
<1> QED
  BY <1>1, <1>2, <1>3, <1>4

(* CallFrom, as a change of the stack.                                     *)
LEMMA CallFromMoves ==
  ASSUME IndInv, NEW t \in Scopes, Calls(t) # <<>>, NEW pc, NEW todo, NEW s, NEW entry,
         CallFrom(t, pc, todo, s, entry),
         NEW f, f = Frame(Here(t), pc, todo), NEW g, g = Frame(s, entry, <<>>),
         NEW j, j = Depth(t) - 1
  PROVE  /\ ThreadsStay /\ Moves(t, j, j + 2, f, g) /\ j \in Nat /\ Depth(t) = j + 1
         /\ Top(t) = Last(Calls(t))
         /\ f.scope = Top(t).scope /\ f.pc = pc /\ f.todo = todo
         /\ g.scope = s /\ g.pc = entry /\ g.todo = <<>>
<1>1. ThreadsStay /\ OthersStay(t) /\ Calls(t)' = Append(Append(Front(Calls(t)), f), g)
  BY StackSet DEF CallFrom, IndInv
<1>2. Moves(t, j, j + 2, f, g) /\ Depth(t) = j + 1 /\ Top(t) = Last(Calls(t))
  BY <1>1, Deepened
<1>3. j \in Nat
  BY <1>2 DEF Moves
<1>4. /\ f.scope = Top(t).scope /\ f.pc = pc /\ f.todo = todo
      /\ g.scope = s /\ g.pc = entry /\ g.todo = <<>>
  BY <1>2 DEF Frame, Here
<1> QED
  BY <1>1, <1>2, <1>3, <1>4

(* Call, as a change of the stack.                                         *)
LEMMA CallMoves ==
  ASSUME IndInv, NEW t \in Scopes, Calls(t) = <<>>, NEW s, NEW pc, Call(t, s, pc),
         NEW f, f = Frame(s, pc, <<>>), NEW g
  PROVE  /\ ThreadsStay /\ Moves(t, 0, 1, f, g) /\ Depth(t) = 0
         /\ f.scope = s /\ f.pc = pc /\ f.todo = <<>>
<1>1. ThreadsStay /\ OthersStay(t) /\ Calls(t)' = Append(<<>>, f)
  BY StackSet DEF Call, IndInv
<1>2. Moves(t, 0, 1, f, g) /\ Depth(t) = 0
  BY <1>1, Started
<1> QED
  BY <1>1, <1>2 DEF Frame

(* A step that returns, and sets nothing the protocol speaks of.           *)
LEMMA PlainReturn ==
  ASSUME IndInv, Todos, NEW t \in Scopes, Calls(t) # <<>>, Return(t),
         NEW s, Only(s, "cancelled"), UNCHANGED <<item, stalled>>,
         Last(Calls(t)).pc \in Past => Last(Calls(t)).pc = "detach",
         Last(Calls(t)).pc = "close" => scope[Last(Calls(t)).scope].closed
  PROVE  Went(t)
<1>1. PICK j, f : j = Depth(t) - 1 /\ f = 0
  OBVIOUS
<1>2. /\ ThreadsStay /\ Moves(t, j, j, f, f) /\ j \in Nat /\ Depth(t) = j + 1
      /\ Top(t) = Last(Calls(t))
  BY <1>1, ReturnMoves
<1>3. Returns(t)
  BY <1>2 DEF Returns
<1>4. CallsGo(t, j, j, f, f)
  BY <1>2, <1>3 DEF CallsGo
<1>5. Goes(t, j, j, f, f)
  BY <1>2, <1>4, Plain, NoItems
<1> QED
  BY <1>5 DEF Went

(* A step that begins a call.                                              *)
LEMMA PlainCall ==
  ASSUME IndInv, Todos, NEW t \in Scopes, Running(t), NEW s \in Scopes,
         NEW pc \in EntryPcs \cup {"cancel"}, Call(t, s, pc),
         UNCHANGED <<scope, item, stalled>>,
         pc \in AddPcs => s = thread[t].home,
         pc \notin AddPcs \cup {"cancel"} => HomeOrGuard(t, s)
  PROVE  Went(t)
<1>1. PICK f : f = Frame(s, pc, <<>>)
  OBVIOUS
<1>2. /\ ThreadsStay /\ Moves(t, 0, 1, f, f) /\ Depth(t) = 0
      /\ f.scope = s /\ f.pc = pc /\ f.todo = <<>>
  BY <1>1, CallMoves DEF Running
<1>3. thread[t].mode = "body" /\ thread'[t].mode = "body" /\ thread'[t].home = thread[t].home
  BY <1>2 DEF ThreadsStay, Running
<1>4. HomeOrGuard(t, s) => HomeOrGuard(t, s)'
  BY <1>2 DEF ThreadsStay, HomeOrGuard
<1>5. pc \notin ClosePcs
  BY DEF EntryPcs, ClosePcs, AddPcs
<1>6. Bottom(t, f)'
  BY <1>2, <1>3, <1>4, <1>5 DEF Bottom, AddPcs, ChildPcs, SpawnPcs, CancelPcs
<1>7. Enters(t, f)
  BY <1>2, <1>6 DEF Enters
<1>8. CallsGo(t, 0, 1, f, f)
  BY <1>2, <1>7 DEF CallsGo
<1>9. Depth(t) # 0 + 1
  BY <1>2
<1>10. Goes(t, 0, 1, f, f)
  BY <1>2, <1>8, <1>9, Plain, NoItems, NoneSet
<1> QED
  BY <1>10 DEF Went

(* register and defer: the load of `closed`.                               *)
LEMMA BeginAddGoes ==
  ASSUME IndInv, Todos, NEW t \in Scopes, NEW kind, BeginAdd(t, kind)
  PROVE  Went(t)
<1>1. PICK pc : pc = IF kind = "resource" THEN "push resource" ELSE "push finalizer"
  OBVIOUS
<1>2. pc \in AddPcs /\ pc \in EntryPcs
  BY <1>1 DEF AddPcs, EntryPcs
<1>3. thread[t].home \in Scopes
  BY ThreadTyped DEF IndInv
<1> QED
  BY <1>1, <1>2, <1>3, PlainCall DEF BeginAdd

(* A thread uses its home and the scopes whose guard it holds.             *)
LEMMA UsableHeld ==
  ASSUME NEW t, NEW s \in Usable(t)
  PROVE  HomeOrGuard(t, s)
BY DEF Usable, Opened, HomeOrGuard

(* child: the load of `closed`.                                            *)
LEMMA BeginChildGoes ==
  ASSUME IndInv, Todos, NEW t \in Scopes, NEW s, BeginChild(t, s)
  PROVE  Went(t)
<1>1. PICK pc : pc = "insert"
  OBVIOUS
<1>2. pc \notin AddPcs /\ pc \in EntryPcs
  BY <1>1 DEF AddPcs, EntryPcs
<1>3. s \in Scopes /\ HomeOrGuard(t, s)
  BY UsableAreScopes, UsableHeld DEF IndInv, BeginChild
<1> QED
  BY <1>1, <1>2, <1>3, PlainCall DEF BeginChild

(* spawn: the load of `closed` and the permit.                             *)
LEMMA BeginSpawnGoes ==
  ASSUME IndInv, Todos, NEW t \in Scopes, NEW s, BeginSpawn(t, s)
  PROVE  Went(t)
<1>1. PICK pc : pc = "spawn child"
  OBVIOUS
<1>2. pc \notin AddPcs /\ pc \in EntryPcs
  BY <1>1 DEF AddPcs, EntryPcs
<1>3. s \in Scopes /\ HomeOrGuard(t, s)
  BY UsableAreScopes, UsableHeld DEF IndInv, BeginSpawn
<1> QED
  BY <1>1, <1>2, <1>3, PlainCall DEF BeginSpawn

(* cancel is called.                                                       *)
LEMMA BeginCancelGoes ==
  ASSUME IndInv, Todos, NEW t \in Scopes, NEW s, BeginCancel(t, s)
  PROVE  Went(t)
<1>1. PICK pc : pc = "cancel"
  OBVIOUS
<1>2. pc \notin AddPcs
  BY <1>1 DEF AddPcs
<1>3. s \in Scopes
  BY UsableAreScopes DEF IndInv, BeginCancel
<1> QED
  BY <1>1, <1>2, <1>3, PlainCall DEF BeginCancel

(* A call that goes on, in cancel or spawn.                                *)
Onward(a, b) ==
    \/ a \in CancelPcs /\ b \in CancelPcs
    \/ a = "spawn child" /\ b = "spawn insert"

(* A call of cancel or spawn that goes on, and sets nothing the protocol   *)
(* speaks of.                                                              *)
LEMMA PlainGoto ==
  ASSUME IndInv, Todos, NEW t \in Scopes, Calls(t) # <<>>, NEW pc, NEW todo,
         Goto(t, pc, todo), NEW s, Only(s, "cancelled"), ItemsStay, UNCHANGED stalled,
         Onward(Last(Calls(t)).pc, pc),
         pc = "descend" => \A a \in 1..Len(todo) : Under(todo[a], Here(t))
  PROVE  Went(t)
<1>1. PICK j, f : j = Depth(t) - 1 /\ f = Frame(Here(t), pc, todo)
  OBVIOUS
<1>2. /\ ThreadsStay /\ Moves(t, j, j + 1, f, f) /\ j \in Nat /\ Depth(t) = j + 1
      /\ Top(t) = Last(Calls(t))
      /\ f.scope = Top(t).scope /\ f.pc = pc /\ f.todo = todo
  BY <1>1, GotoMoves
<1>3. \A c, n : Under(c, n) => Under(c, n)'
  BY DEF Only, Fields, Under, Scopes
<1>12. f.pc \notin {"spawn start", "spawn record"}
  BY <1>2 DEF Onward, CancelPcs
<1>13. f.scope = Here(t)
  BY <1>2 DEF Here
<1>4. f.pc \in {"descend", "spawn start", "spawn record"} => Visits(f)'
  BY <1>2, <1>3, <1>12, <1>13 DEF Visits
<1>11. "spawn child" \in SpawnPcs /\ "spawn insert" \in SpawnPcs
  BY Zenon DEF SpawnPcs
<1>5. \/ f.pc \in CancelPcs /\ Top(t).pc \in CancelPcs
      \/ f.pc \in SpawnPcs /\ Top(t).pc \in SpawnPcs
  BY <1>2, <1>11 DEF Onward
<1>6. j + 1 # j + 2 /\ j + 1 # j
  BY <1>2
<1>7. Proceeds(t, j + 1, j, f, f)
  BY <1>2, <1>4, <1>5, <1>6 DEF Proceeds
<1>8. CallsGo(t, j, j + 1, f, f)
  BY <1>2, <1>6, <1>7 DEF CallsGo
<1>9. f.pc \notin {"children", "detach"}
  BY <1>2 DEF CancelPcs, Onward
<1>10. Goes(t, j, j + 1, f, f)
  BY <1>2, <1>8, <1>9, Plain
<1> QED
  BY <1>10 DEF Went

(* The program closes a handle itself.                                     *)
LEMMA UserCloseGoes ==
  ASSUME IndInv, Todos, NEW t \in Scopes, NEW i \in Items, UserClose(t, i)
  PROVE  Went(t)
<1>1. /\ UNCHANGED <<scope, thread, stalled>> /\ Calls(t) = <<>>
      /\ item' = [item EXCEPT ![i].status = "closed"]
  BY DEF UserClose, Running
<1>2. ThreadsStay /\ OthersStay(t) /\ Calls(t)' = Calls(t) /\ Only(t, "cancelled")
  BY <1>1, NoneSet DEF ThreadsStay, OthersStay, Calls
<1>3. ItemsStay
  <2>1. item \in Seq(ItemRec(Len(scope), size.kinds)) /\ Items = 1..Len(item)
    BY DEF IndInv, Typed, Shapes, Items
  <2>2. item[i] \in ItemRec(Len(scope), size.kinds)
    BY ItemTyped DEF IndInv
  <2> DEFINE r == [item[i] EXCEPT !.status = "closed"]
  <2>3. /\ r.kind = item[i].kind /\ r.scope = item[i].scope /\ r.by = item[i].by
        /\ r.status = "closed"
    BY <2>2 DEF ItemRec
  <2> HIDE DEF r
  <2>4. Len(item') = Len(item) /\ \A a \in Items : item'[a] = IF a = i THEN r ELSE item[a]
    BY <1>1, <2>1 DEF r
  <2> QED
    BY <2>3, <2>4 DEF ItemsStay
<1>4. PICK j, f : j = Depth(t) /\ f = 0
  OBVIOUS
<1>5. Moves(t, j, j, f, f) /\ Depth(t) = 0
  BY <1>1, <1>2, <1>4, Stayed, DepthTyped DEF IndInv
<1>6. CallsGo(t, j, j, f, f)
  BY <1>4, <1>5 DEF CallsGo
<1>7. Goes(t, j, j, f, f)
  BY <1>1, <1>2, <1>3, <1>4, <1>5, <1>6, Plain
<1> QED
  BY <1>7 DEF Went

(* spawn calls child, whose own load of `closed` may refuse.               *)
LEMMA SpawnChildGoes ==
  ASSUME IndInv, Todos, NEW t \in Scopes, SpawnChild(t)
  PROVE  Went(t)
<1>1. /\ Calls(t) # <<>> /\ Last(Calls(t)).pc = "spawn child"
      /\ UNCHANGED <<scope, item, stalled>>
      /\ Return(t) \/ Goto(t, "spawn insert", <<>>)
  BY DEF SpawnChild, At
<1>2. Only(t, "cancelled") /\ ItemsStay
  BY <1>1, NoneSet, NoItems
<1>3. CASE Return(t)
  BY <1>1, <1>2, <1>3, PlainReturn DEF Past
<1>4. CASE Goto(t, "spawn insert", <<>>)
  <2>1. PICK pc : pc = "spawn insert"
    OBVIOUS
  <2>2. Onward(Last(Calls(t)).pc, pc)
    BY <1>1, <2>1 DEF Onward
  <2>3. Goto(t, pc, <<>>) /\ pc # "descend"
    BY <1>4, <2>1
  <2> QED
    BY <1>1, <1>2, <2>2, <2>3, PlainGoto
<1> QED
  BY <1>1, <1>3, <1>4

(* The swap of the cancellation flag.                                      *)
LEMMA CancelOnceGoes ==
  ASSUME IndInv, Todos, NEW t \in Scopes, CancelOnce(t)
  PROVE  Went(t)
<1>1. /\ Calls(t) # <<>> /\ Last(Calls(t)).pc = "cancel" /\ Here(t) \in Scopes
      /\ UNCHANGED <<item, stalled>> /\ ItemsStay
  BY TopTyped, NoItems DEF CancelOnce, At, IndInv
<1>2. CASE Return(t) /\ UNCHANGED scope
  BY <1>1, <1>2, NoneSet, PlainReturn DEF Past
<1>3. CASE scope' = [scope EXCEPT ![Here(t)].cancelled = TRUE] /\ Goto(t, "ask", <<>>)
  <2>1. PICK v, pc : v = TRUE /\ pc = "ask"
    OBVIOUS
  <2>2. scope' = [scope EXCEPT ![Here(t)] = [scope[Here(t)] EXCEPT !["cancelled"] = v]]
    BY <1>3, <2>1
  <2>3. Only(Here(t), "cancelled")
    BY <1>1, <2>2, FieldSet DEF Fields, IndInv
  <2>4. Onward(Last(Calls(t)).pc, pc) /\ pc # "descend" /\ Goto(t, pc, <<>>)
    BY <1>1, <1>3, <2>1 DEF Onward, CancelPcs
  <2> QED
    BY <1>1, <2>3, <2>4, PlainGoto
<1> QED
  BY <1>2, <1>3 DEF CancelOnce

(* request_cancel copies the registry.                                     *)
LEMMA AskSnapshotGoes ==
  ASSUME IndInv, Todos, NEW t \in Scopes, AskSnapshot(t)
  PROVE  Went(t)
<1>1. PICK pc, l : pc = "asking" /\ l = Reverse(scope[Here(t)].resource)
  OBVIOUS
<1>2. /\ Calls(t) # <<>> /\ Goto(t, pc, l) /\ UNCHANGED <<scope, item, stalled>>
      /\ Onward(Last(Calls(t)).pc, pc) /\ pc # "descend"
  BY <1>1 DEF AskSnapshot, At, Onward, CancelPcs
<1> QED
  BY <1>2, PlainGoto, NoneSet, NoItems

(* request_cancel asks one resource.                                       *)
LEMMA AskOneGoes ==
  ASSUME IndInv, Todos, NEW t \in Scopes, AskOne(t)
  PROVE  Went(t)
<1>1. PICK pc, l, i : pc = "asking" /\ l = Tail(Todo(t)) /\ i = Head(Todo(t))
  OBVIOUS
<1>2. /\ Calls(t) # <<>> /\ Goto(t, pc, l) /\ UNCHANGED <<scope, stalled>>
      /\ Onward(Last(Calls(t)).pc, pc) /\ pc # "descend"
      /\ item' = [item EXCEPT ![i].asked = @ + 1]
      /\ At(t, "asking") /\ Todo(t) # <<>>
  BY <1>1 DEF AskOne, At, Onward, CancelPcs
<1>3. i \in Items
  BY <1>1, <1>2, TopTyped, TailOfSeq DEF IndInv
<1>4. ItemsStay
  <2>1. item \in Seq(ItemRec(Len(scope), size.kinds)) /\ Items = 1..Len(item)
    BY DEF IndInv, Typed, Shapes, Items
  <2>2. item[i] \in ItemRec(Len(scope), size.kinds)
    BY <1>3, ItemTyped DEF IndInv
  <2> DEFINE r == [item[i] EXCEPT !.asked = @ + 1]
  <2>3. /\ r.kind = item[i].kind /\ r.scope = item[i].scope /\ r.by = item[i].by
        /\ r.status = item[i].status
    BY <2>2 DEF ItemRec
  <2> HIDE DEF r
  <2>4. Len(item') = Len(item) /\ \A a \in Items : item'[a] = IF a = i THEN r ELSE item[a]
    BY <1>2, <2>1 DEF r
  <2> QED
    BY <2>3, <2>4 DEF ItemsStay
<1> QED
  BY <1>2, <1>4, PlainGoto, NoneSet

(* cancel copies the list of children.                                     *)
LEMMA CancelSnapshotGoes ==
  ASSUME IndInv, Todos, NEW t \in Scopes, CancelSnapshot(t)
  PROVE  Went(t)
<1>1. PICK pc, l : pc = "descend" /\ l = scope[Here(t)].children
  OBVIOUS
<1>2. /\ Calls(t) # <<>> /\ Goto(t, pc, l) /\ UNCHANGED <<scope, item, stalled>>
      /\ Onward(Last(Calls(t)).pc, pc)
  BY <1>1 DEF CancelSnapshot, At, Onward, CancelPcs
<1>3. Here(t) \in Scopes
  BY <1>2, TopTyped DEF IndInv
<1>4. \A a \in 1..Len(l) : Under(l[a], Here(t))
  BY <1>1, <1>3 DEF Todos
<1> QED
  BY <1>2, <1>4, PlainGoto, NoneSet, NoItems

(* The children that a call has left to visit.                             *)
LEMMA VisitNext ==
  ASSUME IndInv, Todos, NEW t \in Scopes, NEW pc \in {"descend", "closing"}, At(t, pc),
         Todo(t) # <<>>
  PROVE  /\ Todo(t) \in Seq(Scopes) /\ Head(Todo(t)) \in Scopes
         /\ Tail(Todo(t)) \in Seq(Scopes)
         /\ Under(Head(Todo(t)), Here(t))
         /\ \A a \in 1..Len(Tail(Todo(t))) : Under(Tail(Todo(t))[a], Here(t))
         /\ In(Head(Todo(t)), Todo(t))
         /\ \A c : In(c, Todo(t)) <=> In(c, Tail(Todo(t))) \/ c = Head(Todo(t))
<1> DEFINE l == Todo(t)
<1>1. Calls(t) # <<>> /\ l \in Seq(Scopes) /\ ~At(t, "asking") /\ Last(Calls(t)).pc = pc
  BY TopTyped DEF At, IndInv
<1>2. Depth(t) \in 1..Len(Calls(t)) /\ Last(Calls(t)) = Calls(t)[Depth(t)]
  <2> DEFINE S == CallRec(Len(scope), Len(item))
  <2>1. Calls(t) \in Seq(S)
    BY ThreadTyped DEF IndInv
  <2> HIDE DEF S
  <2>2. Len(Calls(t)) \in Nat \ {0} /\ Last(Calls(t)) = Calls(t)[Len(Calls(t))]
    BY <1>1, <2>1, FrontOfSeq
  <2> QED
    BY <2>2 DEF Depth
<1>3. \A a \in 1..Len(l) : Under(l[a], Here(t))
  BY <1>1, <1>2 DEF Todos, Visits, Here, Todo
<1> HIDE DEF l
<1>4. /\ Head(l) = l[1] /\ Len(l) \in Nat \ {0} /\ Head(l) \in Scopes
      /\ Tail(l) \in Seq(Scopes) /\ Len(Tail(l)) = Len(l) - 1
      /\ \A a \in 1..Len(l) - 1 : Tail(l)[a] = l[a + 1]
  BY <1>1, HeadTailProperties, EmptySeq, LenProperties DEF l
<1>5. \A c : In(c, l) => In(c, Tail(l)) \/ c = l[1]
  <2> SUFFICES ASSUME NEW a \in 1..Len(l), a # 1
               PROVE  In(l[a], Tail(l))
    BY DEF In
  <2>1. a - 1 \in 1..Len(Tail(l)) /\ Tail(l)[a - 1] = l[a]
    BY <1>4
  <2> QED
    BY <2>1 DEF In
<1>6. \A c : In(c, Tail(l)) => In(c, l)
  <2> SUFFICES ASSUME NEW a \in 1..Len(Tail(l))
               PROVE  In(Tail(l)[a], l)
    BY DEF In
  <2>1. a + 1 \in 1..Len(l) /\ Tail(l)[a] = l[a + 1]
    BY <1>4
  <2> QED
    BY <2>1 DEF In
<1>7. In(l[1], l)
  BY <1>4 DEF In
<1>8. \A a \in 1..Len(Tail(l)) : Under(Tail(l)[a], Here(t))
  BY <1>3, <1>4
<1>9. Under(Head(l), Here(t))
  BY <1>3, <1>4
<1> QED
  BY <1>1, <1>4, <1>5, <1>6, <1>7, <1>8, <1>9 DEF l

(* cancel calls itself on the next child, or returns.                      *)
LEMMA CancelChildGoes ==
  ASSUME IndInv, Todos, NEW t \in Scopes, CancelChild(t)
  PROVE  Went(t)
<1>1. /\ Calls(t) # <<>> /\ Last(Calls(t)).pc = "descend"
      /\ UNCHANGED <<scope, item, stalled>> /\ Only(t, "cancelled") /\ ItemsStay
  BY NoneSet, NoItems DEF CancelChild, At
<1>2. CASE Return(t)
  BY <1>1, <1>2, PlainReturn DEF Past
<1>3. CASE Todo(t) # <<>> /\ CallFrom(t, "descend", Tail(Todo(t)), Head(Todo(t)), "cancel")
  <2>1. PICK j, pc, l, s, entry, f, g :
             /\ j = Depth(t) - 1 /\ pc = "descend" /\ l = Tail(Todo(t)) /\ s = Head(Todo(t))
             /\ entry = "cancel"
             /\ f = Frame(Here(t), pc, l) /\ g = Frame(s, entry, <<>>)
    OBVIOUS
  <2>2. CallFrom(t, pc, l, s, entry) /\ Calls(t) # <<>>
    BY <1>1, <1>3, <2>1
  <2>12. /\ j = Depth(t) - 1
         /\ f = Frame(Here(t), pc, l) /\ g = Frame(s, entry, <<>>)
    BY <2>1
  <2>3. /\ ThreadsStay /\ Moves(t, j, j + 2, f, g) /\ j \in Nat /\ Depth(t) = j + 1
        /\ Top(t) = Last(Calls(t))
        /\ f.scope = Top(t).scope /\ f.pc = pc /\ f.todo = l
        /\ g.scope = s /\ g.pc = entry /\ g.todo = <<>>
    BY <2>2, <2>12, CallFromMoves
  <2>4. /\ s \in Scopes /\ Under(s, Here(t))
        /\ \A a \in 1..Len(l) : Under(l[a], Here(t))
    BY <1>1, <1>3, <2>1, VisitNext DEF At
  <2>5. \A c, n : Under(c, n) => Under(c, n)'
    BY <1>1 DEF Under, Scopes
  <2>6. Visits(f)'
    BY <2>1, <2>3, <2>4, <2>5 DEF Visits, Here
  <2>7. Follows(f, g)
    BY <2>1, <2>3, <2>4 DEF Follows, Here, CancelPcs
  <2>8. f.pc \in CancelPcs /\ Top(t).pc \in CancelPcs /\ f.pc \in Resting
        /\ f.pc \notin {"children", "detach"} /\ g.pc \in {"cancel", "close"}
    BY <1>1, <2>1, <2>3 DEF CancelPcs, Resting
  <2>9. Proceeds(t, j + 2, j, f, g)
    BY <2>3, <2>4, <2>6, <2>7, <2>8 DEF Proceeds
  <2>10. CallsGo(t, j, j + 2, f, g)
    BY <2>3, <2>9 DEF CallsGo
  <2>11. Goes(t, j, j + 2, f, g)
    BY <1>1, <2>3, <2>8, <2>10, Plain
  <2> QED
    BY <2>11 DEF Went
<1> QED
  BY <1>2, <1>3 DEF CancelChild

(* A step that sets a flag of a scope, if anything of it.                  *)
LEMMA Flagged ==
  ASSUME IndInv, Todos, NEW s, NEW x \in {"guarded", "owned", "closed", "drained", "cancelled"},
         Only(s, x), ThreadsStay, ItemsStay, UNCHANGED stalled,
         NEW t \in Scopes, NEW j, NEW e, NEW f, NEW g,
         Moves(t, j, e, f, g), CallsGo(t, j, e, f, g), FlagsGo(t, j, e, f)
  PROVE  Goes(t, j, e, f, g)
<1>1. x \notin {"parent", "opener", "children", "tasks", "resource", "finalizer"}
  OBVIOUS
<1>2. Grows /\ Arrivals(t)
  BY <1>1, GrowsOnly
<1>3. ThreadsGo(t, e, f) /\ TasksGo(t, j, e, f)
  BY <1>1, ThreadsOnly, TasksOnly
<1>4. ChildrenGo(t, j, e, f)
  BY <1>1, ChildrenOnly
<1>5. ItemsGo(t, j, e)
  BY <1>1, ItemsOnly
<1> QED
  BY <1>2, <1>3, <1>4, <1>5 DEF Goes

(* ScopeGuard::close, and its drop.                                        *)
LEMMA CloseGuardGoes ==
  ASSUME IndInv, Todos, NEW t \in Scopes, NEW s, CloseGuard(t, s)
  PROVE  Went(t)
<1>1. PICK v, x, pc, f : v = FALSE /\ x = "guarded" /\ pc = "close" /\ f = Frame(s, pc, <<>>)
  OBVIOUS
<1>2. /\ Running(t) /\ Call(t, s, pc) /\ UNCHANGED <<item, stalled>>
      /\ s \in Scopes \ {Root} /\ scope[s].opener = t /\ thread[s].mode = "none"
      /\ scope' = [scope EXCEPT ![s] = [scope[s] EXCEPT ![x] = v]]
  BY <1>1 DEF CloseGuard, Opened
<1>11. x \in Fields
  BY <1>1 DEF Fields
<1>3. Only(s, x) /\ scope'[s][x] = v
  BY <1>2, <1>11, FieldSet DEF IndInv
<1>4. /\ ThreadsStay /\ Moves(t, 0, 1, f, f) /\ Depth(t) = 0
      /\ f.scope = s /\ f.pc = pc /\ f.todo = <<>>
  <2>1. Calls(t) = <<>>
    BY <1>2 DEF Running
  <2>2. f = Frame(s, pc, <<>>)
    BY <1>1
  <2> QED
    BY <1>2, <2>1, <2>2, CallMoves
<1>5. /\ \A n \in Scopes : scope'[n].opener = scope[n].opener
      /\ \A n \in Scopes : scope'[n].closed = scope[n].closed
      /\ \A n \in Scopes : scope'[n].drained = scope[n].drained
      /\ \A n \in Scopes : scope'[n].owned = scope[n].owned
      /\ \A n \in Scopes \ {s} : scope'[n].guarded = scope[n].guarded
      /\ ~scope'[s].guarded
  BY <1>1, <1>3 DEF Only, Fields
<1>6. /\ thread'[t].mode = "body" /\ thread'[s].mode = "none" /\ s # t
  BY <1>2, <1>4 DEF ThreadsStay, Running
<1>7. Bottom(t, f)'
  <2>1. f.pc \notin AddPcs \cup ChildPcs \cup SpawnPcs /\ f.pc \in ClosePcs
    BY <1>1, <1>4 DEF AddPcs, ChildPcs, SpawnPcs, ClosePcs
  <2> QED
    BY <1>2, <1>4, <1>5, <1>6, <2>1 DEF Bottom
<1>8. CallsGo(t, 0, 1, f, f)
  BY <1>1, <1>2, <1>4, <1>7 DEF CallsGo, Enters
<1>9. FlagsGo(t, 0, 1, f)
  <2>1. Depth(t) # 0 + 1
    BY <1>4
  <2>2. ASSUME NEW n \in Scopes, scope[n].guarded, ~scope'[n].guarded
        PROVE  Depth(t) = 0 /\ f.scope = n /\ f.pc = "close" /\ scope[n].opener = t
    BY <1>1, <1>2, <1>4, <1>5, <2>2
  <2>3. \A n \in Scopes : scope'[n].guarded => scope[n].guarded
    BY <1>5, Zenon
  <2>4. 1 = 1 /\ 0 = 0
    OBVIOUS
  <2> QED
    BY <1>5, <2>1, <2>2, <2>3, Zenon DEF FlagsGo
<1>10. Goes(t, 0, 1, f, f)
  BY <1>1, <1>2, <1>3, <1>4, <1>8, <1>9, Flagged, NoItems
<1> QED
  BY <1>10 DEF Went

(* A close that goes on to its next part.                                  *)
LEMMA CloseGoto ==
  ASSUME IndInv, NEW t \in Scopes, Calls(t) # <<>>, Last(Calls(t)).pc \in ClosePcs,
         NEW pc \in ClosePcs, NEW todo, Goto(t, pc, todo),
         NEW j, j = Depth(t) - 1, NEW f, f = Frame(Here(t), pc, todo)
  PROVE  /\ ClosesOn(Last(Calls(t)), j + 1, j, f, f) => CallsGo(t, j, j + 1, f, f)
         /\ ThreadsStay /\ Moves(t, j, j + 1, f, f)
         /\ Depth(t) = j + 1 /\ j \in Nat /\ Top(t) = Last(Calls(t))
         /\ f.scope = Here(t) /\ f.pc = pc /\ f.todo = todo
<1>1. /\ ThreadsStay /\ Moves(t, j, j + 1, f, f) /\ j \in Nat /\ Depth(t) = j + 1
      /\ Top(t) = Last(Calls(t))
      /\ f.scope = Top(t).scope /\ f.pc = pc /\ f.todo = todo
  BY GotoMoves
<1>2. pc \notin {"descend", "spawn start", "spawn record"}
  BY DEF ClosePcs
<1>3. j + 1 # j + 2 /\ j + 1 # j /\ j + 1 # 0
  BY <1>1
<1>4. ClosesOn(Last(Calls(t)), j + 1, j, f, f) => Proceeds(t, j + 1, j, f, f)
  BY <1>1, <1>2, <1>3 DEF Proceeds
<1>5. ClosesOn(Last(Calls(t)), j + 1, j, f, f) => CallsGo(t, j, j + 1, f, f)
  BY <1>1, <1>3, <1>4 DEF CallsGo
<1> QED
  BY <1>1, <1>5 DEF Here

(* A close that calls: the cancel of its scope, or the close of a child.   *)
LEMMA CloseCallFrom ==
  ASSUME IndInv, NEW t \in Scopes, Calls(t) # <<>>, Last(Calls(t)).pc \in ClosePcs,
         NEW pc \in {"children", "closing"}, NEW todo,
         NEW s \in Scopes, NEW entry \in {"cancel", "close"},
         CallFrom(t, pc, todo, s, entry),
         NEW j, j = Depth(t) - 1, NEW f, f = Frame(Here(t), pc, todo),
         NEW g, g = Frame(s, entry, <<>>),
         ClosesOn(Last(Calls(t)), j + 2, j, f, g), Follows(f, g)
  PROVE  /\ ThreadsStay /\ Moves(t, j, j + 2, f, g) /\ CallsGo(t, j, j + 2, f, g)
         /\ Depth(t) = j + 1 /\ j \in Nat /\ Top(t) = Last(Calls(t))
         /\ f.scope = Here(t) /\ f.pc = pc /\ f.todo = todo
<1>1. /\ ThreadsStay /\ Moves(t, j, j + 2, f, g) /\ j \in Nat /\ Depth(t) = j + 1
      /\ Top(t) = Last(Calls(t))
      /\ f.scope = Top(t).scope /\ f.pc = pc /\ f.todo = todo
      /\ g.scope = s /\ g.pc = entry /\ g.todo = <<>>
  BY CallFromMoves
<1>2. /\ pc \notin {"descend", "spawn start", "spawn record"}
      /\ pc \in ClosePcs /\ pc \in Resting
  BY DEF ClosePcs, Resting
<1>3. j + 2 # j + 1 /\ j + 2 # j /\ j + 1 # 0
  BY <1>1
<1>4. Proceeds(t, j + 2, j, f, g)
  BY <1>1, <1>2, <1>3 DEF Proceeds
<1>5. CallsGo(t, j, j + 2, f, g)
  BY <1>1, <1>3, <1>4 DEF CallsGo
<1> QED
  BY <1>1, <1>5 DEF Here

(* The swap of `closed`, and the cancel that follows it.                   *)
LEMMA CloseSwapGoes ==
  ASSUME IndInv, Todos, NEW t \in Scopes, CloseSwap(t)
  PROVE  Went(t)
<1>1. /\ Calls(t) # <<>> /\ Last(Calls(t)).pc = "close" /\ Here(t) \in Scopes
      /\ UNCHANGED <<item, stalled>> /\ ItemsStay
  BY TopTyped, NoItems DEF CloseSwap, At, IndInv
<1>2. CASE scope[Here(t)].closed
  <2>1. Return(t) /\ UNCHANGED scope /\ Only(t, "cancelled")
    BY <1>2, NoneSet DEF CloseSwap
  <2> QED
    BY <1>1, <1>2, <2>1, PlainReturn DEF Past, Here
<1>3. CASE ~scope[Here(t)].closed
  <2>1. PICK j, v, x, pc, l, s, entry, f, g :
             /\ j = Depth(t) - 1 /\ v = TRUE /\ x = "closed"
             /\ pc = "children" /\ l = <<>> /\ s = Here(t) /\ entry = "cancel"
             /\ f = Frame(Here(t), pc, l) /\ g = Frame(s, entry, <<>>)
    OBVIOUS
  <2>2. /\ CallFrom(t, pc, l, s, entry) /\ s \in Scopes
        /\ scope' = [scope EXCEPT ![s] = [scope[s] EXCEPT ![x] = v]]
    BY <1>1, <1>3, <2>1 DEF CloseSwap
  <2>14. x \in Fields
    BY <2>1 DEF Fields
  <2>3. Only(s, x) /\ scope'[s][x] = v
    BY <2>2, <2>14, FieldSet DEF IndInv
  <2>4. /\ f.pc = "children" /\ f.scope = s /\ g.scope = s /\ g.pc = "cancel"
    BY <2>1 DEF Frame
  <2>5. Follows(f, g)
    BY <2>4 DEF Follows, CancelPcs
  <2>6. ClosesOn(Last(Calls(t)), j + 2, j, f, g)
    BY <1>1, <1>3, <2>1, <2>4 DEF ClosesOn, Here
  <2>7. /\ Last(Calls(t)).pc \in ClosePcs /\ pc \in {"children", "closing"}
        /\ entry \in {"cancel", "close"}
    BY <1>1, <2>1 DEF ClosePcs
  <2>8. j = Depth(t) - 1 /\ f = Frame(Here(t), pc, l) /\ g = Frame(s, entry, <<>>)
    BY <2>1
  <2>9. /\ ThreadsStay /\ Moves(t, j, j + 2, f, g) /\ CallsGo(t, j, j + 2, f, g)
        /\ Depth(t) = j + 1 /\ j \in Nat
    BY <1>1, <2>2, <2>5, <2>6, <2>7, <2>8, CloseCallFrom
  <2>10. /\ \A n \in Scopes \ {s} : scope'[n].closed = scope[n].closed
         /\ \A n \in Scopes : scope'[n].drained = scope[n].drained
         /\ \A n \in Scopes : scope'[n].owned = scope[n].owned
         /\ \A n \in Scopes : scope'[n].guarded = scope[n].guarded
         /\ scope'[s].closed
    BY <2>1, <2>3 DEF Only, Fields
  <2>11. FlagsGo(t, j, j + 2, f)
    <3>1. j + 2 > j /\ Depth(t) = j + 1 /\ f.pc = "children" /\ f.pc # "detach"
          /\ f.scope = s
      BY <2>4, <2>9
    <3>2. ASSUME NEW n \in Scopes
          PROVE  /\ scope[n].closed => scope'[n].closed
                 /\ scope'[n].closed /\ ~scope[n].closed => n = s
      BY <2>10
    <3> QED
      BY <2>10, <3>1, <3>2, Zenon DEF FlagsGo
  <2>12. x \in {"guarded", "owned", "closed", "drained", "cancelled"}
    BY <2>1
  <2>13. Goes(t, j, j + 2, f, g)
    BY <1>1, <2>3, <2>9, <2>11, <2>12, Flagged
  <2> QED
    BY <2>13 DEF Went
<1> QED
  BY <1>2, <1>3

(* A snapshot read newest first holds what the list held.                  *)
LEMMA InReverse ==
  ASSUME NEW S, NEW l \in Seq(S), NEW c
  PROVE  In(c, Reverse(l)) <=> In(c, l)
<1>1. Len(l) \in Nat /\ \A i \in 1..Len(l) : (Len(l) - i) + 1 \in 1..Len(l)
  BY LenProperties
<1> DEFINE r == Reverse(l)
<1>2. r = [i \in 1..Len(l) |-> l[(Len(l) - i) + 1]]
  BY DEF Reverse
<1>3. r \in Seq(S)
  BY ReverseOfSeq
<1>4. Len(r) = Len(l)
  <2>1. DOMAIN r = 1..Len(l) /\ DOMAIN r = 1..Len(r) /\ Len(r) \in Nat
    BY <1>2, <1>3, LenProperties
  <2> QED
    BY <1>1, <2>1
<1>5. \A i \in 1..Len(l) : r[i] = l[(Len(l) - i) + 1]
  BY <1>2
<1> HIDE DEF r
<1>6. In(c, r) => In(c, l)
  BY <1>1, <1>4, <1>5 DEF In
<1>7. In(c, l) => In(c, r)
  <2> SUFFICES ASSUME NEW a \in 1..Len(l), l[a] = c
               PROVE  In(c, r)
    BY DEF In
  <2>1. /\ (Len(l) - a) + 1 \in 1..Len(r)
        /\ (Len(l) - ((Len(l) - a) + 1)) + 1 = a
    BY <1>1, <1>4
  <2>2. r[(Len(l) - a) + 1] = l[a]
    BY <1>4, <1>5, <2>1
  <2> QED
    BY <2>1, <2>2 DEF In
<1> QED
  BY <1>6, <1>7 DEF r

(* close copies the list of children.                                      *)
LEMMA CloseSnapshotGoes ==
  ASSUME IndInv, Todos, NEW t \in Scopes, CloseSnapshot(t)
  PROVE  Went(t)
<1>1. PICK j, pc, l, f : /\ j = Depth(t) - 1 /\ pc = "closing"
                         /\ l = Reverse(scope[Here(t)].children)
                         /\ f = Frame(Here(t), pc, l)
  OBVIOUS
<1>2. /\ Calls(t) # <<>> /\ Last(Calls(t)).pc = "children" /\ Here(t) \in Scopes
      /\ UNCHANGED <<scope, item, stalled>> /\ Goto(t, pc, l)
      /\ Last(Calls(t)).pc \in ClosePcs /\ pc \in ClosePcs
  BY <1>1, TopTyped DEF CloseSnapshot, At, IndInv, ClosePcs
<1>3. f.pc = "closing" /\ f.todo = l /\ f.scope = Here(t)
  BY <1>1 DEF Frame
<1>4. scope[Here(t)].children \in Seq(Scopes)
  BY <1>2, ListsTyped DEF IndInv
<1>5. l \in Seq(Scopes) /\ \A c : In(c, l) <=> In(c, scope[Here(t)].children)
  BY <1>1, <1>4, InReverse, ReverseOfSeq
<1>6. ClosesOn(Last(Calls(t)), j + 1, j, f, f)
  BY <1>2, <1>3, <1>5 DEF ClosesOn, Here
<1>7. j = Depth(t) - 1 /\ f = Frame(Here(t), pc, l)
  BY <1>1
<1>8. /\ ThreadsStay /\ Moves(t, j, j + 1, f, f) /\ CallsGo(t, j, j + 1, f, f)
  BY <1>2, <1>6, <1>7, CloseGoto
<1>9. Goes(t, j, j + 1, f, f)
  BY <1>2, <1>3, <1>8, Plain, NoItems, NoneSet
<1> QED
  BY <1>9 DEF Went

(* An assignment to a field, by the name of the field.                     *)
LEMMA FieldsSet ==
  ASSUME IndInv, NEW s \in Scopes, NEW v
  PROVE  /\ scope' = [scope EXCEPT ![s].children = v] =>
              Only(s, "children") /\ scope'[s].children = v
         /\ scope' = [scope EXCEPT ![s].tasks = v] =>
              Only(s, "tasks") /\ scope'[s].tasks = v
         /\ scope' = [scope EXCEPT ![s].resource = v] =>
              Only(s, "resource") /\ scope'[s].resource = v
         /\ scope' = [scope EXCEPT ![s].finalizer = v] =>
              Only(s, "finalizer") /\ scope'[s].finalizer = v
         /\ scope' = [scope EXCEPT ![s].drained = v] =>
              Only(s, "drained") /\ scope'[s].drained = v
         /\ scope' = [scope EXCEPT ![s].guarded = v] =>
              Only(s, "guarded") /\ scope'[s].guarded = v
BY FieldSet DEF Fields, IndInv

(* close calls itself on the next child; after the last it forgets them.   *)
LEMMA CloseChildGoes ==
  ASSUME IndInv, Todos, NEW t \in Scopes, CloseChild(t)
  PROVE  Went(t)
<1>1. /\ Calls(t) # <<>> /\ Last(Calls(t)).pc = "closing" /\ Here(t) \in Scopes
      /\ UNCHANGED <<item, stalled>> /\ ItemsStay /\ At(t, "closing")
      /\ Last(Calls(t)).pc \in ClosePcs
  BY TopTyped, NoItems DEF CloseChild, At, IndInv, ClosePcs
<1>2. CASE Todo(t) = <<>>
  <2>1. PICK j, pc, l, s, x, f : /\ j = Depth(t) - 1 /\ pc = "quiesce" /\ l = <<>> /\ s = Here(t)
                                 /\ x = "children" /\ f = Frame(Here(t), pc, l)
    OBVIOUS
  <2>2. Goto(t, pc, l) /\ scope' = [scope EXCEPT ![s].children = <<>>] /\ s \in Scopes
    BY <1>1, <1>2, <2>1 DEF CloseChild
  <2>3. Only(s, x) /\ scope'[s].children = <<>>
    BY <2>1, <2>2, FieldsSet
  <2>4. f.pc = "quiesce" /\ f.scope = s
    BY <2>1 DEF Frame
  <2>5. ClosesOn(Last(Calls(t)), j + 1, j, f, f)
    BY <1>1, <1>2, <2>4 DEF ClosesOn, Todo
  <2>6. j = Depth(t) - 1 /\ f = Frame(Here(t), pc, l) /\ pc \in ClosePcs
    BY <2>1 DEF ClosePcs
  <2>7. /\ ThreadsStay /\ Moves(t, j, j + 1, f, f) /\ CallsGo(t, j, j + 1, f, f)
        /\ Depth(t) = j + 1 /\ Top(t) = Last(Calls(t))
    BY <1>1, <2>2, <2>5, <2>6, CloseGoto
  <2>8. Grows /\ Arrivals(t) /\ Scopes' = Scopes
    BY <2>1, <2>3, <2>7, GrowsOnly
  <2>9. ThreadsGo(t, j + 1, f) /\ TasksGo(t, j, j + 1, f) /\ ItemsGo(t, j, j + 1)
    BY <1>1, <2>1, <2>3, <2>7, ThreadsOnly, TasksOnly, ItemsOnly
  <2>10. FlagsGo(t, j, j + 1, f)
    BY <2>1, <2>3, <2>4, FlagsOnly
  <2>11. ChildrenGo(t, j, j + 1, f)
    <3>1. \A n \in Scopes : scope'[n].parent = scope[n].parent
      BY <2>1, <2>3 DEF Only, Fields
    <3>2. \A n \in Scopes \ {s} : scope'[n].children = scope[n].children
      BY <2>1, <2>3 DEF Only, Fields
    <3>3. \A n \in Scopes : \A a \in 1..Len(scope[n].children) :
            scope[n].children[a] \in Scopes \ {Root} /\ scope[scope[n].children[a]].parent = n
      BY DEF Todos, Under
    <3>4. Len(<<>>) = 0
      BY EmptySeq
    <3>5. Depth(t) = j + 1 /\ Top(t).pc = "closing" /\ Top(t).scope = s /\ Top(t).todo = <<>>
      BY <1>1, <1>2, <2>1, <2>7 DEF Todo, Here
    <3> QED
      BY <2>3, <2>8, <3>1, <3>2, <3>3, <3>4, <3>5 DEF ChildrenGo
  <2>12. Goes(t, j, j + 1, f, f)
    BY <2>7, <2>8, <2>9, <2>10, <2>11 DEF Goes
  <2> QED
    BY <2>12 DEF Went
<1>3. CASE Todo(t) # <<>>
  <2>1. PICK j, pc, l, s, entry, f, g :
             /\ j = Depth(t) - 1 /\ pc = "closing" /\ l = Tail(Todo(t)) /\ s = Head(Todo(t))
             /\ entry = "close"
             /\ f = Frame(Here(t), pc, l) /\ g = Frame(s, entry, <<>>)
    OBVIOUS
  <2>2. CallFrom(t, pc, l, s, entry) /\ UNCHANGED scope
    BY <1>3, <2>1 DEF CloseChild
  <2>3. /\ s \in Scopes /\ Under(s, Here(t)) /\ l \in Seq(Scopes)
        /\ In(s, Todo(t)) /\ \A c : In(c, Todo(t)) <=> In(c, l) \/ c = s
    BY <1>1, <1>3, <2>1, VisitNext
  <2>4. /\ f.pc = "closing" /\ f.scope = Here(t) /\ f.todo = l
        /\ g.scope = s /\ g.pc = "close"
    BY <2>1 DEF Frame
  <2>5. Follows(f, g)
    BY <2>3, <2>4 DEF Follows, ClosePcs
  <2>6. ClosesOn(Last(Calls(t)), j + 2, j, f, g)
    BY <1>1, <2>3, <2>4 DEF ClosesOn, Todo
  <2>7. /\ j = Depth(t) - 1 /\ f = Frame(Here(t), pc, l) /\ g = Frame(s, entry, <<>>)
        /\ pc \in {"children", "closing"} /\ entry \in {"cancel", "close"}
    BY <2>1
  <2>8. /\ ThreadsStay /\ Moves(t, j, j + 2, f, g) /\ CallsGo(t, j, j + 2, f, g)
    BY <1>1, <2>2, <2>3, <2>5, <2>6, <2>7, CloseCallFrom
  <2>9. Goes(t, j, j + 2, f, g)
    BY <1>1, <2>2, <2>4, <2>8, Plain, NoneSet
  <2> QED
    BY <2>9 DEF Went
<1> QED
  BY <1>2, <1>3

(* close waits for its tasks and takes their records.                      *)
LEMMA QuiesceGoes ==
  ASSUME IndInv, Todos, NEW t \in Scopes, Quiesce(t)
  PROVE  Went(t)
<1>1. /\ Calls(t) # <<>> /\ Last(Calls(t)).pc = "quiesce" /\ Here(t) \in Scopes
      /\ UNCHANGED item /\ ItemsStay /\ stalled' = stalled \cup Unfinished(Here(t))
      /\ Last(Calls(t)).pc \in ClosePcs
  BY TopTyped, NoItems DEF Quiesce, At, IndInv, ClosePcs
<1>2. PICK j, pc, l, s, x, f : /\ j = Depth(t) - 1 /\ pc = "resource" /\ l = <<>> /\ s = Here(t)
                               /\ x = "tasks" /\ f = Frame(Here(t), pc, l)
  OBVIOUS
<1>3. Goto(t, pc, l) /\ scope' = [scope EXCEPT ![s].tasks = {}] /\ s \in Scopes
  BY <1>1, <1>2 DEF Quiesce
<1>4. Only(s, x) /\ scope'[s].tasks = {}
  BY <1>2, <1>3, FieldsSet
<1>5. f.pc = "resource" /\ f.scope = s
  BY <1>2 DEF Frame
<1>6. \A c \in scope[s].tasks : c \in stalled' \/ thread[c].mode = "done"
  BY <1>1, <1>2 DEF Unfinished
<1>7. ClosesOn(Last(Calls(t)), j + 1, j, f, f)
  BY <1>1, <1>2, <1>5, <1>6 DEF ClosesOn, Here
<1>8. j = Depth(t) - 1 /\ f = Frame(Here(t), pc, l) /\ pc \in ClosePcs
  BY <1>2 DEF ClosePcs
<1>9. /\ ThreadsStay /\ Moves(t, j, j + 1, f, f) /\ CallsGo(t, j, j + 1, f, f)
      /\ Depth(t) = j + 1
  BY <1>1, <1>3, <1>7, <1>8, CloseGoto
<1>10. Grows /\ Arrivals(t)
  BY <1>2, <1>4, <1>9, GrowsOnly
<1>11. ThreadsGo(t, j + 1, f) /\ ChildrenGo(t, j, j + 1, f) /\ ItemsGo(t, j, j + 1)
  BY <1>1, <1>2, <1>4, <1>9, ThreadsOnly, ChildrenOnly, ItemsOnly
<1>12. FlagsGo(t, j, j + 1, f)
  BY <1>2, <1>4, <1>5, FlagsOnly
<1>13. TasksGo(t, j, j + 1, f)
  <2>1. \A n \in Scopes \ {s} : scope'[n].tasks = scope[n].tasks
    BY <1>2, <1>4 DEF Only, Fields
  <2> QED
    BY <1>1, <1>6, <2>1 DEF TasksGo
<1>14. Goes(t, j, j + 1, f, f)
  BY <1>9, <1>10, <1>11, <1>12, <1>13 DEF Goes
<1> QED
  BY <1>14 DEF Went

(* An item is released.                                                    *)
LEMMA ReleasedStays ==
  ASSUME IndInv, NEW i \in Items, item' = Released(i)
  PROVE  ItemsStay /\ item'[i].status # "held"
         /\ \A a \in Items : item'[a].status = "released" /\ item[a].status = "held" => a = i
<1>1. item \in Seq(ItemRec(Len(scope), size.kinds)) /\ Items = 1..Len(item)
  BY DEF IndInv, Typed, Shapes, Items
<1>2. item[i] \in ItemRec(Len(scope), size.kinds)
  BY ItemTyped DEF IndInv
<1>3. CASE item[i].status = "held"
  <2> DEFINE r == [item[i] EXCEPT !.status = "released"]
  <2>3. /\ r.kind = item[i].kind /\ r.scope = item[i].scope /\ r.by = item[i].by
        /\ r.status = "released"
    BY <1>2 DEF ItemRec
  <2>4. item' = [item EXCEPT ![i] = r]
    BY <1>3 DEF Released
  <2> HIDE DEF r
  <2>5. Len(item') = Len(item) /\ \A a \in Items : item'[a] = IF a = i THEN r ELSE item[a]
    BY <1>1, <2>4
  <2> QED
    BY <1>3, <2>3, <2>5 DEF ItemsStay
<1>4. CASE item[i].status # "held"
  BY <1>4 DEF Released, ItemsStay
<1> QED
  BY <1>3, <1>4

(* A step that leaves all calls as they are.                               *)
LEMMA StaysThere ==
  ASSUME IndInv, NEW t \in Scopes, UNCHANGED thread, NEW j, j = Depth(t), NEW f, NEW g,
         Calls(t) # <<>>
  PROVE  /\ ThreadsStay /\ Moves(t, j, j, f, g) /\ CallsGo(t, j, j, f, g)
         /\ j \in Nat /\ j # 0 /\ Depth(t) # j + 1
<1>1. ThreadsStay /\ OthersStay(t) /\ Calls(t)' = Calls(t)
  BY DEF ThreadsStay, OthersStay, Calls
<1>2. Moves(t, j, j, f, g) /\ j \in Nat /\ j # 0
  BY <1>1, Stayed, DepthTyped DEF IndInv
<1>3. Depth(t) # j + 1
  BY <1>2
<1> QED
  BY <1>1, <1>2, <1>3 DEF CallsGo

(* ResourceRegistry::close.                                                *)
LEMMA DrainResourceGoes ==
  ASSUME IndInv, Todos, NEW t \in Scopes, DrainResource(t)
  PROVE  Went(t)
<1>1. /\ Calls(t) # <<>> /\ Last(Calls(t)).pc = "resource" /\ Here(t) \in Scopes
      /\ UNCHANGED stalled /\ Last(Calls(t)).pc \in ClosePcs
  BY TopTyped DEF DrainResource, At, IndInv, ClosePcs
<1>2. CASE scope[Here(t)].resource = <<>>
  <2>1. PICK j, pc, l, f : /\ j = Depth(t) - 1 /\ pc = "finalizer" /\ l = <<>>
                           /\ f = Frame(Here(t), pc, l)
    OBVIOUS
  <2>2. Goto(t, pc, l) /\ UNCHANGED <<scope, item>>
    BY <1>2, <2>1 DEF DrainResource
  <2>3. f.pc = "finalizer"
    BY <2>1 DEF Frame
  <2>4. ClosesOn(Last(Calls(t)), j + 1, j, f, f)
    BY <1>1, <1>2, <2>3 DEF ClosesOn, Here
  <2>5. j = Depth(t) - 1 /\ f = Frame(Here(t), pc, l) /\ pc \in ClosePcs
    BY <2>1 DEF ClosePcs
  <2>6. /\ ThreadsStay /\ Moves(t, j, j + 1, f, f) /\ CallsGo(t, j, j + 1, f, f)
    BY <1>1, <2>2, <2>4, <2>5, CloseGoto
  <2>7. Goes(t, j, j + 1, f, f)
    BY <1>1, <2>2, <2>3, <2>6, Plain, NoneSet, NoItems
  <2> QED
    BY <2>7 DEF Went
<1>3. CASE scope[Here(t)].resource # <<>>
  <2>1. PICK j, s, x, l, f : /\ j = Depth(t) /\ s = Here(t) /\ x = "resource"
                             /\ l = scope[s].resource /\ f = 0
    OBVIOUS
  <2>2. /\ scope' = [scope EXCEPT ![s].resource = Front(l)] /\ item' = Released(Last(l))
        /\ UNCHANGED thread /\ s \in Scopes /\ l # <<>>
    BY <1>1, <1>3, <2>1 DEF DrainResource
  <2>3. Only(s, x) /\ scope'[s].resource = Front(l)
    BY <2>1, <2>2, FieldsSet
  <2>4. l \in Seq(Items)
    BY <2>1, <2>2, ListsTyped DEF IndInv
  <2>5. Last(l) \in Items
    BY <2>2, <2>4, FrontOfSeq
  <2>6. ItemsStay /\ item'[Last(l)].status # "held"
    BY <2>2, <2>5, ReleasedStays
  <2>7. /\ ThreadsStay /\ Moves(t, j, j, f, f) /\ CallsGo(t, j, j, f, f)
        /\ Depth(t) # j + 1
    BY <1>1, <2>1, <2>2, StaysThere
  <2>8. Grows /\ Arrivals(t)
    BY <2>1, <2>3, <2>7, GrowsOnly
  <2>9. ThreadsGo(t, j, f) /\ TasksGo(t, j, j, f) /\ ChildrenGo(t, j, j, f)
    BY <1>1, <2>1, <2>3, <2>7, ThreadsOnly, TasksOnly, ChildrenOnly
  <2>10. FlagsGo(t, j, j, f)
    BY <2>1, <2>3, <2>7, FlagsOnly
  <2>11. ItemsGo(t, j, j)
    <3>1. \A n \in Scopes : scope'[n].finalizer = scope[n].finalizer
      BY <2>1, <2>3 DEF Only, Fields
    <3>2. \A n \in Scopes \ {s} : scope'[n].resource = scope[n].resource
      BY <2>1, <2>3 DEF Only, Fields
    <3>3. ListGoes(s, "resource", scope[s].resource, scope'[s].resource)
      BY <2>1, <2>2, <2>3, <2>6 DEF ListGoes
    <3>4. \A n \in Scopes :
             /\ ListGoes(n, "resource", scope[n].resource, scope'[n].resource)
             /\ ListGoes(n, "finalizer", scope[n].finalizer, scope'[n].finalizer)
      BY <3>1, <3>2, <3>3 DEF ListGoes
    <3>5. Items' = Items
      BY <2>6 DEF Items, ItemsStay
    <3> QED
      BY <2>6, <3>4, <3>5 DEF ItemsGo, ItemsStay
  <2>12. Goes(t, j, j, f, f)
    BY <2>7, <2>8, <2>9, <2>10, <2>11 DEF Goes
  <2> QED
    BY <2>12 DEF Went
<1> QED
  BY <1>2, <1>3

(* The finalizer loop.                                                     *)
LEMMA DrainFinalizerGoes ==
  ASSUME IndInv, Todos, NEW t \in Scopes, DrainFinalizer(t)
  PROVE  Went(t)
<1>1. /\ Calls(t) # <<>> /\ Last(Calls(t)).pc = "finalizer" /\ Here(t) \in Scopes
      /\ UNCHANGED stalled /\ Last(Calls(t)).pc \in ClosePcs
  BY TopTyped DEF DrainFinalizer, At, IndInv, ClosePcs
<1>2. CASE scope[Here(t)].finalizer = <<>>
  <2>1. PICK j, pc, l, s, v, x, f : /\ j = Depth(t) - 1 /\ pc = "detach" /\ l = <<>>
                           /\ s = Here(t) /\ v = TRUE /\ x = "drained"
                           /\ f = Frame(Here(t), pc, l)
    OBVIOUS
  <2>2. /\ Goto(t, pc, l) /\ UNCHANGED item
        /\ scope' = [scope EXCEPT ![s] = [scope[s] EXCEPT ![x] = v]]
    BY <1>2, <2>1 DEF DrainFinalizer
  <2>3. f.pc = "detach" /\ f.scope = s
    BY <2>1 DEF Frame
  <2>4. ClosesOn(Last(Calls(t)), j + 1, j, f, f)
    BY <1>1, <1>2, <2>3 DEF ClosesOn, Here
  <2>5. j = Depth(t) - 1 /\ f = Frame(Here(t), pc, l) /\ pc \in ClosePcs
    BY <2>1 DEF ClosePcs
  <2>6. /\ ThreadsStay /\ Moves(t, j, j + 1, f, f) /\ CallsGo(t, j, j + 1, f, f)
        /\ Depth(t) = j + 1 /\ j \in Nat
    BY <1>1, <2>2, <2>4, <2>5, CloseGoto
  <2>7. x \in Fields /\ s \in Scopes /\ x \in {"guarded", "owned", "closed", "drained", "cancelled"}
    BY <1>1, <2>1 DEF Fields
  <2>8. Only(s, x) /\ scope'[s][x] = v
    BY <2>2, <2>7, FieldSet DEF IndInv
  <2>9. /\ \A n \in Scopes \ {s} : scope'[n].drained = scope[n].drained
        /\ \A n \in Scopes : scope'[n].closed = scope[n].closed
        /\ \A n \in Scopes : scope'[n].owned = scope[n].owned
        /\ \A n \in Scopes : scope'[n].guarded = scope[n].guarded
        /\ scope'[s].drained
    BY <2>1, <2>8 DEF Only, Fields
  <2>10. FlagsGo(t, j, j + 1, f)
    <3>1. j + 1 > j /\ Depth(t) = j + 1 /\ f.pc # "children" /\ f.pc = "detach"
          /\ f.scope = s
      BY <2>3, <2>6
    <3>2. ASSUME NEW n \in Scopes
          PROVE  /\ scope[n].drained => scope'[n].drained
                 /\ scope'[n].drained /\ ~scope[n].drained => n = s
      BY <2>9
    <3> QED
      BY <2>9, <3>1, <3>2, Zenon DEF FlagsGo
  <2>11. ItemsStay
    BY <2>2, NoItems
  <2>12. Goes(t, j, j + 1, f, f)
    BY <1>1, <2>6, <2>7, <2>8, <2>10, <2>11, Flagged
  <2> QED
    BY <2>12 DEF Went
<1>3. CASE scope[Here(t)].finalizer # <<>>
  <2>1. PICK j, s, x, l, f : /\ j = Depth(t) /\ s = Here(t) /\ x = "finalizer"
                             /\ l = scope[s].finalizer /\ f = 0
    OBVIOUS
  <2>2. /\ scope' = [scope EXCEPT ![s].finalizer = Front(l)] /\ item' = Released(Last(l))
        /\ UNCHANGED thread /\ s \in Scopes /\ l # <<>>
    BY <1>1, <1>3, <2>1 DEF DrainFinalizer
  <2>3. Only(s, x) /\ scope'[s].finalizer = Front(l)
    BY <2>1, <2>2, FieldsSet
  <2>4. l \in Seq(Items)
    BY <2>1, <2>2, ListsTyped DEF IndInv
  <2>5. Last(l) \in Items
    BY <2>2, <2>4, FrontOfSeq
  <2>6. ItemsStay /\ item'[Last(l)].status # "held"
    BY <2>2, <2>5, ReleasedStays
  <2>7. /\ ThreadsStay /\ Moves(t, j, j, f, f) /\ CallsGo(t, j, j, f, f)
        /\ Depth(t) # j + 1
    BY <1>1, <2>1, <2>2, StaysThere
  <2>8. Grows /\ Arrivals(t)
    BY <2>1, <2>3, <2>7, GrowsOnly
  <2>9. ThreadsGo(t, j, f) /\ TasksGo(t, j, j, f) /\ ChildrenGo(t, j, j, f)
    BY <1>1, <2>1, <2>3, <2>7, ThreadsOnly, TasksOnly, ChildrenOnly
  <2>10. FlagsGo(t, j, j, f)
    BY <2>1, <2>3, <2>7, FlagsOnly
  <2>11. ItemsGo(t, j, j)
    <3>1. \A n \in Scopes : scope'[n].resource = scope[n].resource
      BY <2>1, <2>3 DEF Only, Fields
    <3>2. \A n \in Scopes \ {s} : scope'[n].finalizer = scope[n].finalizer
      BY <2>1, <2>3 DEF Only, Fields
    <3>3. ListGoes(s, "finalizer", scope[s].finalizer, scope'[s].finalizer)
      BY <2>1, <2>2, <2>3, <2>6 DEF ListGoes
    <3>4. \A n \in Scopes :
             /\ ListGoes(n, "resource", scope[n].resource, scope'[n].resource)
             /\ ListGoes(n, "finalizer", scope[n].finalizer, scope'[n].finalizer)
      BY <3>1, <3>2, <3>3 DEF ListGoes
    <3>5. Items' = Items
      BY <2>6 DEF Items, ItemsStay
    <3> QED
      BY <2>6, <3>4, <3>5 DEF ItemsGo, ItemsStay
  <2>12. Goes(t, j, j, f, f)
    BY <2>7, <2>8, <2>9, <2>10, <2>11 DEF Goes
  <2> QED
    BY <2>12 DEF Went
<1> QED
  BY <1>2, <1>3

(* What a list holds from which one is removed.                            *)
LEMMA InWithout ==
  ASSUME NEW S, NEW l \in Seq(S), NEW e, NEW c
  PROVE  /\ In(c, Without(l, e)) => In(c, l)
         /\ In(c, l) /\ c # e => In(c, Without(l, e))
<1>1. CASE \E i \in 1..Len(l) : l[i] = e
  <2> DEFINE k == CHOOSE i \in 1..Len(l) : l[i] = e
  <2>1. k \in 1..Len(l) /\ Len(l) \in Nat /\ l[k] = e
    BY <1>1, LenProperties
  <2>2. Without(l, e) = RemoveAt(l, k)
    BY <1>1 DEF Without
  <2> HIDE DEF k
  <2> DEFINE a == SubSeq(l, 1, k - 1)
             b == SubSeq(l, k + 1, Len(l))
             w == a \o b
  <2>3. /\ a \in Seq(S) /\ Len(a) = k - 1 /\ \A i \in 1..k - 1 : a[i] = l[i]
    BY <2>1, SubSeqProperties
  <2>4. /\ b \in Seq(S) /\ Len(b) = Len(l) - k /\ \A i \in 1..Len(l) - k : b[i] = l[k + i]
    BY <2>1, SubSeqProperties
  <2>5. Without(l, e) = w
    BY <2>2 DEF RemoveAt
  <2> HIDE DEF a, b
  <2>6. /\ Len(w) = Len(a) + Len(b)
        /\ \A i \in 1..Len(w) : w[i] = IF i <= Len(a) THEN a[i] ELSE b[i - Len(a)]
    <3>1. a \in Seq(S) /\ b \in Seq(S)
      BY <2>3, <2>4
    <3>2. /\ Len(a \o b) = Len(a) + Len(b)
          /\ \A i \in 1..Len(a) + Len(b) :
                (a \o b)[i] = IF i <= Len(a) THEN a[i] ELSE b[i - Len(a)]
      BY <3>1, ConcatProperties
    <3> QED
      BY <3>2
  <2> HIDE DEF w
  <2>7. In(c, w) => In(c, l)
    <3> SUFFICES ASSUME NEW i \in 1..Len(w)
                 PROVE  In(w[i], l)
      BY DEF In
    <3>1. CASE i <= k - 1
      <4>1. w[i] = l[i] /\ i \in 1..Len(l)
        BY <2>1, <2>3, <2>6, <3>1
      <4> QED
        BY <4>1 DEF In
    <3>2. CASE i > k - 1
      <4>1. i - (k - 1) \in 1..Len(l) - k /\ i + 1 \in 1..Len(l) /\ k + (i - (k - 1)) = i + 1
        BY <2>1, <2>3, <2>4, <2>6, <3>2
      <4>2. w[i] = l[i + 1]
        BY <2>1, <2>3, <2>4, <2>6, <3>2, <4>1
      <4> QED
        BY <4>1, <4>2 DEF In
    <3> QED
      BY <2>1, <2>3, <2>4, <2>6, <3>1, <3>2
  <2>8. In(c, l) /\ c # e => In(c, w)
    <3> SUFFICES ASSUME NEW i \in 1..Len(l), l[i] # e
                 PROVE  In(l[i], w)
      BY DEF In
    <3>1. CASE i < k
      <4>1. i \in 1..Len(w) /\ w[i] = l[i]
        BY <2>1, <2>3, <2>4, <2>6, <3>1
      <4> QED
        BY <4>1 DEF In
    <3>2. CASE i > k
      <4>1. /\ i - 1 \in 1..Len(w) /\ i - 1 > k - 1 /\ (i - 1) - (k - 1) \in 1..Len(l) - k
            /\ k + ((i - 1) - (k - 1)) = i
        BY <2>1, <2>3, <2>4, <2>6, <3>2
      <4>2. w[i - 1] = b[(i - 1) - (k - 1)]
        BY <2>1, <2>3, <2>6, <4>1
      <4>3. w[i - 1] = l[i]
        BY <2>4, <4>1, <4>2
      <4> QED
        BY <4>1, <4>3 DEF In
    <3> QED
      BY <2>1, <3>1, <3>2
  <2> QED
    BY <2>5, <2>7, <2>8
<1>2. CASE ~ \E i \in 1..Len(l) : l[i] = e
  BY <1>2 DEF Without
<1> QED
  BY <1>1, <1>2

(* close removes the scope from its parent's list.                         *)
LEMMA DetachGoes ==
  ASSUME IndInv, Todos, Closers, NEW t \in Scopes, Detach(t)
  PROVE  Went(t)
<1>1. /\ Calls(t) # <<>> /\ Last(Calls(t)).pc = "detach" /\ Here(t) \in Scopes
      /\ UNCHANGED <<item, stalled>> /\ ItemsStay /\ Return(t)
  BY TopTyped, NoItems DEF Detach, At, IndInv
<1>2. PICK j, h, s, x, l, f : /\ j = Depth(t) - 1 /\ h = Here(t) /\ s = scope[Here(t)].parent
                              /\ x = "children" /\ l = scope[s].children /\ f = 0
  OBVIOUS
<1>3. s \in Scopes /\ l \in Seq(Scopes)
  BY <1>1, <1>2, ListsTyped DEF IndInv
<1>4. scope' = [scope EXCEPT ![s].children = Without(l, h)]
  BY <1>2 DEF Detach
<1>5. Only(s, x) /\ scope'[s].children = Without(l, h)
  BY <1>2, <1>3, <1>4, FieldsSet
<1>6. j = Depth(t) - 1
  BY <1>2
<1>7. /\ ThreadsStay /\ Moves(t, j, j, f, f) /\ j \in Nat /\ Depth(t) = j + 1
      /\ Top(t) = Last(Calls(t))
  BY <1>1, <1>6, ReturnMoves
<1>8. CallsGo(t, j, j, f, f)
  BY <1>1, <1>7 DEF CallsGo, Returns
<1>9. Grows /\ Arrivals(t) /\ Scopes' = Scopes
  BY <1>2, <1>5, <1>7, GrowsOnly
<1>10. ThreadsGo(t, j, f) /\ TasksGo(t, j, j, f) /\ ItemsGo(t, j, j)
  BY <1>1, <1>2, <1>5, <1>7, ThreadsOnly, TasksOnly, ItemsOnly
<1>11. FlagsGo(t, j, j, f)
  BY <1>2, <1>5, <1>7, FlagsOnly
<1>12. scope[h].closed
  <2>1. Depth(t) \in 1..Len(Calls(t)) /\ Top(t) = Calls(t)[Depth(t)]
    BY <1>1, DepthTyped DEF IndInv, Top
  <2>2. Calls(t)[Depth(t)].pc \in Past /\ Calls(t)[Depth(t)].scope = h
    BY <1>1, <1>2, <1>7, <2>1 DEF Past, Here
  <2> QED
    BY <2>1, <2>2 DEF Closers
<1>13. ChildrenGo(t, j, j, f)
  <2>1. \A n \in Scopes : scope'[n].parent = scope[n].parent
    BY <1>2, <1>5 DEF Only, Fields
  <2>2. \A n \in Scopes \ {s} : scope'[n].children = scope[n].children
    BY <1>2, <1>5 DEF Only, Fields
  <2>3. \A n \in Scopes : \A a \in 1..Len(scope[n].children) :
          scope[n].children[a] \in Scopes \ {Root} /\ scope[scope[n].children[a]].parent = n
    BY DEF Todos, Under
  <2> DEFINE w == scope'[s].children
  <2>4. \A c : In(c, w) => In(c, l)
    BY <1>3, <1>5, InWithout
  <2>5. \A c : In(c, l) => In(c, w) \/ c = h
    BY <1>3, <1>5, InWithout
  <2>6. \A a \in 1..Len(w) : w[a] \in Scopes \ {Root} /\ scope[w[a]].parent = s
    <3> SUFFICES ASSUME NEW a \in 1..Len(w)
                 PROVE  w[a] \in Scopes \ {Root} /\ scope[w[a]].parent = s
      OBVIOUS
    <3>1. In(w[a], l)
      <4>1. In(w[a], w)
        BY DEF In
      <4> QED
        BY <2>4, <4>1
    <3>2. PICK k \in 1..Len(l) : l[k] = w[a]
      BY <3>1 DEF In
    <3>3. l[k] \in Scopes \ {Root} /\ scope[l[k]].parent = s
      BY <1>2, <1>3, <2>3
    <3> HIDE DEF w
    <3> QED
      BY <3>2, <3>3
  <2>7. ASSUME NEW n \in Scopes
        PROVE  \A a \in 1..Len(scope'[n].children) :
                 /\ scope'[n].children[a] \in Scopes' \ {Root}
                 /\ scope'[scope'[n].children[a]].parent = n
    <3>1. CASE n = s
      BY <1>9, <2>1, <2>6, <3>1
    <3>2. CASE n # s
      BY <1>9, <2>1, <2>2, <2>3, <3>2
    <3> QED
      BY <3>1, <3>2
  <2>8. ASSUME NEW n \in Scopes, NEW c \in Scopes, In(c, scope[n].children)
        PROVE  In(c, scope'[n].children) \/ scope[c].closed
    BY <1>2, <1>12, <2>2, <2>5, <2>8
  <2> QED
    BY <2>7, <2>8 DEF ChildrenGo
<1>14. Goes(t, j, j, f, f)
  BY <1>7, <1>8, <1>9, <1>10, <1>11, <1>13 DEF Goes
<1> QED
  BY <1>14 DEF Went

(* The thread of a task after its body changes its own mode only.          *)
LEMMA ModeSet ==
  ASSUME IndInv, NEW t \in Scopes, NEW mode, thread' = [thread EXCEPT ![t].mode = mode]
  PROVE  /\ Len(thread') = Len(thread)
         /\ \A u \in Scopes : thread'[u].home = thread[u].home /\ Calls(u)' = Calls(u)
         /\ \A u \in Scopes \ {t} : thread'[u].mode = thread[u].mode
         /\ thread'[t].mode = mode
<1>1. thread \in Seq(ThreadRec(Len(scope), Len(item))) /\ Scopes = 1..Len(thread)
  BY DEF IndInv, Typed, Shapes, Scopes
<1>2. thread[t] \in ThreadRec(Len(scope), Len(item))
  BY ThreadTyped DEF IndInv
<1> DEFINE r == [thread[t] EXCEPT !.mode = mode]
<1>3. r.mode = mode /\ r.home = thread[t].home /\ r.calls = thread[t].calls
  BY <1>2 DEF ThreadRec
<1> HIDE DEF r
<1>4. Len(thread') = Len(thread) /\ \A u \in Scopes : thread'[u] = IF u = t THEN r ELSE thread[u]
  BY <1>1 DEF r
<1>5. \A u \in Scopes \ {t} : thread'[u] = thread[u]
  BY <1>4
<1>6. thread'[t] = r
  BY <1>4
<1> QED
  BY <1>3, <1>4, <1>5, <1>6 DEF Calls

(* A thread after its body and its close changes its mode.                 *)
LEMMA EndGoes ==
  ASSUME IndInv, Todos, NEW t \in Scopes, Calls(t) = <<>>,
         thread[t].mode \in {"closing", "finishing"},
         NEW mode \in {"finishing", "done"}, thread' = [thread EXCEPT ![t].mode = mode],
         UNCHANGED <<scope, item, stalled>>
  PROVE  Went(t)
<1>1. /\ Len(thread') = Len(thread)
      /\ \A u \in Scopes : thread'[u].home = thread[u].home /\ Calls(u)' = Calls(u)
      /\ \A u \in Scopes \ {t} : thread'[u].mode = thread[u].mode
      /\ thread'[t].mode = mode
  BY ModeSet
<1>2. PICK j, f, x : j = Depth(t) /\ f = 0 /\ x = "cancelled"
  OBVIOUS
<1>3. Depth(t) = 0 /\ j = 0
  BY <1>2, DepthTyped DEF IndInv
<1>4. Moves(t, j, j, f, f)
  BY <1>1, <1>2, Stayed DEF OthersStay
<1>5. CallsGo(t, j, j, f, f)
  BY <1>3 DEF CallsGo
<1>6. Only(t, x) /\ ItemsStay
  BY NoneSet, NoItems
<1>7. Grows /\ Arrivals(t)
  <2>1. Len(scope) \in Nat /\ Scopes' = Scopes
    BY DEF IndInv, Typed, Scopes
  <2> QED
    BY <1>1, <2>1 DEF Grows, Arrivals
<1>8. TasksGo(t, j, j, f) /\ ChildrenGo(t, j, j, f) /\ ItemsGo(t, j, j)
  BY <1>2, <1>6, TasksOnly, ChildrenOnly, ItemsOnly
<1>9. FlagsGo(t, j, j, f)
  BY <1>2, <1>3, <1>6, FlagsOnly
<1>10. ThreadsGo(t, j, f)
  <2>1. thread[t].mode # "none" /\ thread'[t].mode # "none"
    BY <1>1
  <2> QED
    BY <1>1, <1>3, <2>1 DEF ThreadsGo
<1>11. Goes(t, j, j, f, f)
  BY <1>4, <1>5, <1>7, <1>8, <1>9, <1>10 DEF Goes
<1> QED
  BY <1>11 DEF Went

(* The permit of a task is dropped.                                        *)
LEMMA DropPermitGoes ==
  ASSUME IndInv, Todos, NEW t \in Scopes, DropPermit(t)
  PROVE  Went(t)
BY EndGoes DEF DropPermit

(* A task is marked finished.                                              *)
LEMMA MarkFinishedGoes ==
  ASSUME IndInv, Todos, NEW t \in Scopes, MarkFinished(t)
  PROVE  Went(t)
<1>1. thread[t].mode = "finishing" => Calls(t) = <<>>
  BY DEF IndInv, Stacks
<1> QED
  BY <1>1, EndGoes DEF MarkFinished

(* A body ends, and its thread closes its own scope.                       *)
LEMMA EndBodyGoes ==
  ASSUME IndInv, Tree, Todos, NEW t \in Scopes, EndBody(t)
  PROVE  Went(t)
<1>1. PICK v, x, mode, f : /\ v = FALSE /\ x = "guarded" /\ mode = "closing"
                           /\ f = Frame(t, "close", <<>>)
  OBVIOUS
<1>2. /\ Running(t) /\ Opened(t) = {} /\ UNCHANGED <<item, stalled>> /\ ItemsStay
      /\ scope' = [scope EXCEPT ![t] = [scope[t] EXCEPT ![x] = v]]
      /\ thread' = [thread EXCEPT ![t].mode = mode, ![t].calls = <<f>>]
  BY <1>1, NoItems DEF EndBody
<1>3. x \in Fields
  BY <1>1 DEF Fields
<1>4. Only(t, x) /\ scope'[t][x] = v
  BY <1>2, <1>3, FieldSet DEF IndInv
<1>5. /\ \A n \in Scopes : scope'[n].opener = scope[n].opener
      /\ \A n \in Scopes : scope'[n].closed = scope[n].closed
      /\ \A n \in Scopes : scope'[n].drained = scope[n].drained
      /\ \A n \in Scopes : scope'[n].owned = scope[n].owned
      /\ \A n \in Scopes \ {t} : scope'[n].guarded = scope[n].guarded
      /\ ~scope'[t].guarded
  BY <1>1, <1>4 DEF Only, Fields
<1>6. /\ Len(thread') = Len(thread)
      /\ \A u \in Scopes : thread'[u].home = thread[u].home
      /\ \A u \in Scopes \ {t} : thread'[u].mode = thread[u].mode /\ Calls(u)' = Calls(u)
      /\ thread'[t].mode = mode /\ Calls(t)' = <<f>>
  <2>1. thread \in Seq(ThreadRec(Len(scope), Len(item))) /\ Scopes = 1..Len(thread)
    BY DEF IndInv, Typed, Shapes, Scopes
  <2>2. thread[t] \in ThreadRec(Len(scope), Len(item))
    BY ThreadTyped DEF IndInv
  <2> DEFINE r == [thread[t] EXCEPT !.mode = mode, !.calls = <<f>>]
  <2>3. r.mode = mode /\ r.home = thread[t].home /\ r.calls = <<f>>
    BY <2>2 DEF ThreadRec
  <2>4. thread' = [thread EXCEPT ![t] = r]
    BY <1>2
  <2> HIDE DEF r
  <2>5. Len(thread') = Len(thread) /\ \A u \in Scopes : thread'[u] = IF u = t THEN r ELSE thread[u]
    BY <2>1, <2>4
  <2>6. \A u \in Scopes \ {t} : thread'[u] = thread[u]
    BY <2>5
  <2>7. thread'[t] = r
    BY <2>5
  <2> QED
    BY <2>3, <2>5, <2>6, <2>7 DEF Calls
<1>7. Calls(t)' = Append(<<>>, f) /\ OthersStay(t) /\ Calls(t) = <<>> /\ thread[t].mode = "body"
  BY <1>2, <1>6 DEF OthersStay, Running
<1>8. Moves(t, 0, 1, f, f) /\ Depth(t) = 0
  BY <1>7, Started
<1>9. f.pc = "close" /\ f.scope = t /\ f.todo = <<>>
  BY <1>1 DEF Frame
<1>10. scope[t].opener = t
  BY <1>7 DEF Tree
<1>11. Bottom(t, f)'
  <2>1. f.pc \notin AddPcs \cup ChildPcs \cup SpawnPcs /\ f.pc \in ClosePcs
    BY <1>9 DEF AddPcs, ChildPcs, SpawnPcs, ClosePcs
  <2> QED
    BY <1>1, <1>5, <1>6, <1>9, <1>10, <2>1 DEF Bottom
<1>12. CallsGo(t, 0, 1, f, f)
  BY <1>8, <1>9, <1>11 DEF CallsGo, Enters
<1>13. \A n \in Scopes : scope[n].opener = t /\ thread[n].mode = "none" => ~scope[n].guarded
  <2>1. thread[Root].mode # "none"
    BY DEF Tree, Ran
  <2> QED
    BY <1>2, <2>1 DEF Opened
<1>14. ThreadsGo(t, 1, f)
  <2>1. thread'[t].mode = "closing" /\ thread[t].mode = "body"
    BY <1>1, <1>6, <1>7
  <2>2. /\ \A u \in Scopes : thread[u].mode = "none" <=> thread'[u].mode = "none"
    BY <1>6, <2>1
  <2> QED
    BY <1>5, <1>6, <1>8, <1>13, <2>1, <2>2, Zenon DEF ThreadsGo
<1>15. FlagsGo(t, 0, 1, f)
  <2>1. Depth(t) # 0 + 1
    BY <1>8
  <2>2. ASSUME NEW n \in Scopes, scope[n].guarded, ~scope'[n].guarded
        PROVE  Depth(t) = 0 /\ f.scope = n /\ f.pc = "close" /\ scope[n].opener = t
    BY <1>5, <1>8, <1>9, <1>10, <2>2
  <2>3. \A n \in Scopes : scope'[n].guarded => scope[n].guarded
    BY <1>5, Zenon
  <2>4. 1 = 1 /\ 0 = 0
    OBVIOUS
  <2> QED
    BY <1>5, <2>1, <2>2, <2>3, Zenon DEF FlagsGo
<1>16. Grows /\ Arrivals(t)
  <2>1. Len(scope) \in Nat /\ Len(scope') = Len(scope) /\ Scopes' = Scopes
    BY <1>4 DEF IndInv, Typed, Only, Scopes
  <2>2. \A n \in Scopes : scope'[n].parent = scope[n].parent /\ scope'[n].opener = scope[n].opener
    BY <1>1, <1>4 DEF Only, Fields
  <2> QED
    BY <1>6, <2>1, <2>2 DEF Grows, Arrivals
<1>17. TasksGo(t, 0, 1, f) /\ ChildrenGo(t, 0, 1, f) /\ ItemsGo(t, 0, 1)
  BY <1>1, <1>2, <1>4, TasksOnly, ChildrenOnly, ItemsOnly
<1>18. Goes(t, 0, 1, f, f)
  BY <1>8, <1>12, <1>14, <1>15, <1>16, <1>17 DEF Goes
<1> QED
  BY <1>18 DEF Went

(* Only cancel and close call anything: other calls are alone.             *)
LEMMA Alone ==
  ASSUME IndInv, Chains, Bottoms, NEW t \in Scopes, Calls(t) # <<>>,
         Last(Calls(t)).pc \notin CancelPcs \cup ClosePcs
  PROVE  /\ Depth(t) = 1 /\ Bottom(t, Last(Calls(t))) /\ Last(Calls(t)) = Calls(t)[1]
         /\ thread[t].mode = "body"
<1> DEFINE S == CallRec(Len(scope), Len(item))
<1>1. Calls(t) \in Seq(S)
  BY ThreadTyped DEF IndInv
<1> HIDE DEF S
<1>2. /\ Depth(t) \in Nat \ {0} /\ Last(Calls(t)) = Calls(t)[Depth(t)]
      /\ Len(Calls(t)) = Depth(t)
  BY <1>1, FrontOfSeq DEF Depth
<1>3. ASSUME Depth(t) # 1 PROVE FALSE
  <2>1. Depth(t) - 1 \in 1..Len(Calls(t)) - 1 /\ (Depth(t) - 1) + 1 = Depth(t)
    BY <1>2, <1>3
  <2>2. Calls(t)[Depth(t) - 1].pc \in Resting
    BY <2>1 DEF IndInv, Stacks, Rested
  <2>3. Follows(Calls(t)[Depth(t) - 1], Calls(t)[(Depth(t) - 1) + 1])
    BY <2>1 DEF Chains
  <2> QED
    BY <1>2, <2>1, <2>2, <2>3 DEF Follows, Resting
<1> QED
  BY <1>2, <1>3 DEF Bottoms, Bottom

(* The item that is registered, and the list it goes to.                   *)
NewItem(t, kind) ==
    [kind |-> kind, scope |-> Here(t), by |-> t, status |-> "held", asked |-> 0,
     calm |-> ~IsCancelled(Here(t))]

(* register and defer: the push.                                           *)
LEMMA PushGoes ==
  ASSUME IndInv, Chains, Bottoms, Todos, NEW t \in Scopes, NEW kind \in size.kinds, Push(t, kind)
  PROVE  Went(t)
<1>1. PICK j, h, n, x, y, l, f, r :
         /\ j = Depth(t) - 1 /\ h = Here(t) /\ n = Len(item) + 1 /\ f = 0
         /\ x = (IF kind = "resource" THEN "resource" ELSE "finalizer")
         /\ y = (IF kind = "resource" THEN "finalizer" ELSE "resource")
         /\ l = scope[h][x] /\ r = NewItem(t, kind)
  OBVIOUS
<1>2. /\ Calls(t) # <<>> /\ Last(Calls(t)).pc \in AddPcs /\ h \in Scopes
      /\ UNCHANGED stalled /\ Return(t)
      /\ item' = Append(item, r)
  BY <1>1, TopTyped DEF Push, At, IndInv, AddPcs, NewItem
<1>3. scope' = [scope EXCEPT ![h] = [scope[h] EXCEPT ![x] = Append(l, n)]]
  BY <1>1 DEF Push
<1>4. x \in Fields /\ y \in Fields /\ x # y /\ x \notin {"parent", "opener", "children", "tasks",
                            "guarded", "owned", "closed", "drained"}
  BY <1>1 DEF Fields
<1>5. Only(h, x) /\ scope'[h][x] = Append(l, n)
  BY <1>2, <1>3, <1>4, FieldSet DEF IndInv
<1>6. /\ r.kind = kind /\ r.scope = h /\ r.by = t
  BY <1>1 DEF NewItem
<1>7. /\ Len(item) \in Nat /\ Items = 1..Len(item) /\ Len(item') = Len(item) + 1
      /\ \A i \in Items : item'[i] = item[i]
      /\ item'[n] = r /\ n \notin Items /\ \A i \in Items' : i \in Items \/ i = n
  <2> DEFINE R == ItemRec(Len(scope), size.kinds) \cup {r}
  <2>1. item \in Seq(R) /\ r \in R
    <3>1. item \in Seq(ItemRec(Len(scope), size.kinds))
      BY DEF IndInv, Typed, Shapes
    <3> QED
      BY <3>1, SeqMonotonic
  <2> HIDE DEF R
  <2>2. /\ Len(item') = Len(item) + 1 /\ \A i \in 1..Len(item) : item'[i] = item[i]
        /\ item'[Len(item) + 1] = r /\ Len(item) \in Nat
    BY <1>2, <2>1, AppendToSeq, LenProperties
  <2> QED
    BY <1>1, <2>2 DEF Items
<1>8. Last(Calls(t)).pc \notin CancelPcs \cup ClosePcs
  BY <1>2 DEF AddPcs, CancelPcs, ClosePcs
<1>9. Depth(t) = 1 /\ Bottom(t, Last(Calls(t))) /\ thread[t].mode = "body"
  BY <1>2, <1>8, Alone
<1>10. h = thread[t].home
  BY <1>1, <1>2, <1>9 DEF Bottom, Here
<1>11. j = Depth(t) - 1
  BY <1>1
<1>12. /\ ThreadsStay /\ Moves(t, j, j, f, f) /\ j \in Nat /\ Depth(t) = j + 1
       /\ Top(t) = Last(Calls(t))
  BY <1>2, <1>11, ReturnMoves
<1>13. CallsGo(t, j, j, f, f)
  <2>1. Last(Calls(t)).pc \notin Past \cup {"close"}
    BY <1>2 DEF AddPcs, Past
  <2> QED
    BY <1>12, <2>1 DEF CallsGo, Returns
<1>14. Grows /\ Arrivals(t)
  BY <1>4, <1>5, <1>12, GrowsOnly
<1>15. ThreadsGo(t, j, f) /\ TasksGo(t, j, j, f) /\ ChildrenGo(t, j, j, f)
  BY <1>2, <1>4, <1>5, <1>12, ThreadsOnly, TasksOnly, ChildrenOnly
<1>16. FlagsGo(t, j, j, f)
  BY <1>4, <1>5, <1>12, FlagsOnly
<1>17. ItemsGo(t, j, j)
  <2>1. l \in Seq(Items)
    BY <1>1, <1>2, ListsTyped DEF IndInv
  <2>2. /\ \A s \in Scopes : scope'[s][y] = scope[s][y]
        /\ \A s \in Scopes \ {h} : scope'[s][x] = scope[s][x]
    BY <1>4, <1>5 DEF Only
  <2>3. n = Len(item) + 1
    BY <1>1
  <2>4. ASSUME NEW s \in Scopes
        PROVE  /\ ListGoes(s, "resource", scope[s].resource, scope'[s].resource)
               /\ ListGoes(s, "finalizer", scope[s].finalizer, scope'[s].finalizer)
    <3>1. CASE kind = "resource"
      <4>1. x = "resource" /\ y = "finalizer" /\ l = scope[h].resource
        BY <1>1, <3>1
      <4>2. scope'[s].finalizer = scope[s].finalizer
        BY <2>2, <4>1
      <4>3. CASE s = h
        BY <1>5, <1>6, <1>7, <2>3, <3>1, <4>1, <4>2, <4>3 DEF ListGoes
      <4>4. CASE s # h
        <5>1. scope'[s].resource = scope[s].resource
          BY <2>2, <4>1, <4>4
        <5> QED
          BY <4>2, <5>1 DEF ListGoes
      <4> QED
        BY <4>3, <4>4
    <3>2. CASE kind # "resource"
      <4>1. x = "finalizer" /\ y = "resource" /\ l = scope[h].finalizer
        BY <1>1, <3>2
      <4>2. scope'[s].resource = scope[s].resource
        BY <2>2, <4>1
      <4>3. CASE s = h
        BY <1>5, <1>6, <1>7, <2>3, <3>2, <4>1, <4>2, <4>3 DEF ListGoes
      <4>4. CASE s # h
        <5>1. scope'[s].finalizer = scope[s].finalizer
          BY <2>2, <4>1, <4>4
        <5> QED
          BY <4>2, <5>1 DEF ListGoes
      <4> QED
        BY <4>3, <4>4
    <3> QED
      BY <3>1, <3>2
  <2>5. In(n, scope'[h][x])
    BY <1>5, <2>1, InAppend
  <2>6. In(n, ListOf(n)')
    <3>1. item'[n].scope = h /\ item'[n].kind = kind
      BY <1>6, <1>7
    <3>2. CASE kind = "resource"
      BY <1>1, <2>5, <3>1, <3>2 DEF ListOf
    <3>3. CASE kind # "resource"
      BY <1>1, <2>5, <3>1, <3>3 DEF ListOf
    <3> QED
      BY <3>2, <3>3
  <2>7. ASSUME NEW i \in Items' \ Items
        PROVE  /\ item'[i].by = t /\ item'[i].scope = thread[t].home
               /\ In(i, ListOf(i)')
    <3>1. i = n
      BY <1>7
    <3> QED
      BY <1>6, <1>7, <1>10, <2>6, <3>1
  <2> QED
    BY <1>7, <1>9, <1>12, <2>4, <2>7 DEF ItemsGo
<1>18. Goes(t, j, j, f, f)
  BY <1>12, <1>13, <1>14, <1>15, <1>16, <1>17 DEF Goes
<1> QED
  BY <1>18 DEF Went

(* A scope that is added: the others stay, its parent lists it.            *)
LEMMA ScopeAdded ==
  ASSUME IndInv, NEW h \in Scopes, NEW opener, NEW owned, AddScope(h, opener, owned),
         NEW n, n = Len(scope) + 1
  PROVE  /\ Len(scope') = n /\ n \in Nat \ {0, Root} /\ n \notin Scopes
         /\ Scopes' = Scopes \cup {n}
         /\ \A s \in Scopes : \A y \in Fields :
              s # h \/ y # "children" => scope'[s][y] = scope[s][y]
         /\ scope'[h].children = Append(scope[h].children, n)
         /\ scope'[n] = NewScope(h, opener, owned)
<1> DEFINE l == Append(scope[h].children, n)
           new == NewScope(h, opener, owned)
           r == [scope[h] EXCEPT !.children = l]
           s2 == [scope EXCEPT ![h] = r]
           R == ScopeRec(Len(scope), Len(item)) \cup {r, new}
<1>1. /\ Len(scope) \in Nat \ {0} /\ Scopes = 1..Len(scope)
      /\ scope \in Seq(ScopeRec(Len(scope), Len(item)))
  BY DEF IndInv, Typed, Shapes, Scopes
<1>2. DOMAIN scope[h] = Fields
  BY <1>1, FieldsOf
<1>3. scope' = Append(s2, new)
  BY DEF AddScope
<1>4. \A y \in Fields : r[y] = IF y = "children" THEN l ELSE scope[h][y]
  BY <1>2
<1>5. r.children = l
  BY <1>4 DEF Fields
<1> HIDE DEF r, new, l
<1>6. /\ scope \in Seq(R) /\ r \in R /\ new \in R
  BY <1>1, SeqMonotonic
<1> HIDE DEF R
<1>7. /\ s2 \in Seq(R) /\ Len(s2) = Len(scope)
      /\ \A s \in Scopes : s2[s] = IF s = h THEN r ELSE scope[s]
  BY <1>1, <1>6, ExceptSeq
<1> HIDE DEF s2
<1>8. /\ Len(scope') = n /\ \A s \in Scopes : scope'[s] = s2[s]
      /\ scope'[n] = new
  BY <1>1, <1>3, <1>6, <1>7, AppendToSeq
<1>9. /\ n \in Nat \ {0, Root} /\ n \notin Scopes /\ 1..n = Scopes \cup {n}
  BY <1>1 DEF Root
<1>10. Scopes' = Scopes \cup {n}
  BY <1>8, <1>9 DEF Scopes
<1>11. scope'[h] = r /\ \A s \in Scopes \ {h} : scope'[s] = scope[s]
  BY <1>7, <1>8
<1>12. scope'[h].children = Append(scope[h].children, n)
  BY <1>5, <1>11 DEF l
<1>13. ASSUME NEW s \in Scopes, NEW y \in Fields, s # h \/ y # "children"
       PROVE  scope'[s][y] = scope[s][y]
  <2>1. CASE s = h
    BY <1>4, <1>11, <1>13, <2>1
  <2>2. CASE s # h
    BY <1>11, <2>2
  <2> QED
    BY <2>1, <2>2
<1> QED
  BY <1>8, <1>9, <1>10, <1>12, <1>13 DEF new

(* Its thread.                                                             *)
Joins(t, calls, th) == thread' = Append([thread EXCEPT ![t].calls = calls], th)

(* What the threads are afterwards.                                        *)
LEMMA ThreadJoins ==
  ASSUME IndInv, NEW t \in Scopes, NEW calls, NEW th, NEW n, n = Len(scope) + 1,
         Joins(t, calls, th)
  PROVE  /\ \A u \in Scopes : thread'[u].mode = thread[u].mode /\ thread'[u].home = thread[u].home
         /\ OthersStay(t) /\ Calls(t)' = calls /\ thread'[n] = th
<1> DEFINE r == [thread[t] EXCEPT !.calls = calls]
           t2 == [thread EXCEPT ![t] = r]
           R == ThreadRec(Len(scope), Len(item)) \cup {r, th}
<1>1. /\ thread \in Seq(ThreadRec(Len(scope), Len(item))) /\ Scopes = 1..Len(thread)
      /\ Len(scope) = Len(thread) /\ Len(thread) \in Nat
  BY DEF IndInv, Typed, Shapes, Scopes
<1>2. thread[t] \in ThreadRec(Len(scope), Len(item))
  BY ThreadTyped DEF IndInv
<1>3. r.mode = thread[t].mode /\ r.home = thread[t].home /\ r.calls = calls
  BY <1>2 DEF ThreadRec
<1>4. thread' = Append(t2, th)
  BY DEF Joins
<1> HIDE DEF r
<1>5. thread \in Seq(R) /\ r \in R /\ th \in R
  BY <1>1, SeqMonotonic
<1> HIDE DEF R
<1>6. /\ t2 \in Seq(R) /\ Len(t2) = Len(thread)
      /\ \A u \in Scopes : t2[u] = IF u = t THEN r ELSE thread[u]
  BY <1>1, <1>5, ExceptSeq
<1> HIDE DEF t2
<1>7. (\A u \in Scopes : thread'[u] = t2[u]) /\ thread'[n] = th
  <2>1. /\ \A u \in 1..Len(t2) : Append(t2, th)[u] = t2[u]
        /\ Append(t2, th)[Len(t2) + 1] = th
    BY <1>5, <1>6, AppendToSeq
  <2>2. Scopes = 1..Len(t2) /\ n = Len(t2) + 1
    BY <1>1, <1>6
  <2> QED
    BY <1>4, <2>1, <2>2
<1>8. thread'[t] = r /\ \A u \in Scopes \ {t} : thread'[u] = thread[u]
  BY <1>6, <1>7
<1>9. \A u \in Scopes : thread'[u].mode = thread[u].mode /\ thread'[u].home = thread[u].home
  BY <1>3, <1>8
<1> QED
  BY <1>3, <1>7, <1>8, <1>9 DEF OthersStay, Calls

(* A scope that a thread whose body runs inserts where it may.             *)
LEMMA Joined ==
  ASSUME IndInv, Todos, NEW t \in Scopes, thread[t].mode = "body",
         NEW h \in Scopes, HomeOrGuard(t, h),
         NEW opener, NEW owned \in BOOLEAN, AddScope(h, opener, owned),
         owned => ~scope[h].closed,
         NEW calls, NEW th, Joins(t, calls, th), NEW n, n = Len(scope) + 1,
         th.calls = <<>>,
         \/ th.mode = "starting" /\ opener = n /\ th.home = h /\ ~owned
         \/ th.mode = "none" /\ opener = t,
         UNCHANGED <<item, stalled>>,
         NEW j, NEW e, NEW f,
         Depth(t) = j + 1 /\ e > j => f.pc \notin {"children", "detach"}
  PROVE  /\ Grows /\ ThreadsGo(t, e, f) /\ FlagsGo(t, j, e, f)
         /\ TasksGo(t, j, e, f) /\ ChildrenGo(t, j, e, f) /\ Arrivals(t) /\ ItemsGo(t, j, e)
         /\ OthersStay(t) /\ Calls(t)' = calls
         /\ Under(n, h)'
<1>1. PICK l : l = scope[h].children
  OBVIOUS
<1>2. /\ Len(scope') = n /\ n \in Nat \ {0, Root} /\ n \notin Scopes
      /\ Scopes' = Scopes \cup {n}
      /\ \A s \in Scopes : \A y \in Fields :
           s # h \/ y # "children" => scope'[s][y] = scope[s][y]
      /\ scope'[h].children = Append(l, n)
      /\ scope'[n] = NewScope(h, opener, owned)
  BY <1>1, ScopeAdded
<1>3. /\ \A u \in Scopes : thread'[u].mode = thread[u].mode /\ thread'[u].home = thread[u].home
      /\ OthersStay(t) /\ Calls(t)' = calls /\ thread'[n] = th
  BY <1>1, ThreadJoins
<1>4. /\ \A s \in Scopes : scope'[s].parent = scope[s].parent
      /\ \A s \in Scopes : scope'[s].opener = scope[s].opener
      /\ \A s \in Scopes : scope'[s].guarded = scope[s].guarded
      /\ \A s \in Scopes : scope'[s].closed = scope[s].closed
      /\ \A s \in Scopes : scope'[s].drained = scope[s].drained
      /\ \A s \in Scopes : scope'[s].owned = scope[s].owned
      /\ \A s \in Scopes : scope'[s].tasks = scope[s].tasks
      /\ \A s \in Scopes : scope'[s].resource = scope[s].resource
      /\ \A s \in Scopes : scope'[s].finalizer = scope[s].finalizer
      /\ \A s \in Scopes \ {h} : scope'[s].children = scope[s].children
  BY <1>2 DEF Fields
<1>5. /\ scope'[n].parent = h /\ scope'[n].opener = opener /\ scope'[n].guarded
      /\ scope'[n].owned = owned /\ ~scope'[n].closed /\ ~scope'[n].drained
      /\ scope'[n].children = <<>> /\ scope'[n].resource = <<>> /\ scope'[n].finalizer = <<>>
  BY <1>2 DEF NewScope
<1>6. l \in Seq(Scopes)
  BY <1>1, ListsTyped DEF IndInv
<1>7. \A x : In(x, scope'[h].children) <=> In(x, l) \/ x = n
  BY <1>2, <1>6, InAppend
<1>8. Grows
  <2>1. Len(scope) \in Nat /\ Len(scope') \in Nat /\ Len(scope) <= Len(scope')
    BY <1>2 DEF IndInv, Typed
  <2> QED
    BY <1>3, <1>4, <2>1 DEF Grows
<1>9. ThreadsGo(t, e, f)
  BY <1>3 DEF ThreadsGo
<1>10. FlagsGo(t, j, e, f)
  BY <1>4, Zenon DEF FlagsGo
<1>11. TasksGo(t, j, e, f)
  BY <1>4 DEF TasksGo
<1>12. ItemsGo(t, j, e)
  <2>1. Items' = Items /\ Len(item') = Len(item)
    BY DEF Items
  <2> QED
    BY <1>4, <2>1 DEF ItemsGo, ListGoes
<1>13. \A s \in Scopes : \A a \in 1..Len(scope[s].children) :
         scope[s].children[a] \in Scopes \ {Root} /\ scope[scope[s].children[a]].parent = s
  BY DEF Todos, Under
<1>14. ChildrenGo(t, j, e, f)
  <2>1. ASSUME NEW s \in Scopes, NEW a \in 1..Len(scope'[s].children)
        PROVE  /\ scope'[s].children[a] \in Scopes' \ {Root}
               /\ scope'[scope'[s].children[a]].parent = s
    <3>1. CASE s # h
      <4>1. PICK w : w = scope[s].children
        OBVIOUS
      <4>2. scope'[s].children = w /\ a \in 1..Len(w)
        BY <1>4, <2>1, <3>1, <4>1
      <4>3. w[a] \in Scopes \ {Root} /\ scope[w[a]].parent = s
        BY <1>13, <4>1, <4>2
      <4> QED
        BY <1>2, <1>4, <4>2, <4>3
    <3>2. CASE s = h
      <4>1. PICK x : x = scope'[h].children[a]
        OBVIOUS
      <4>2. In(x, scope'[h].children)
        BY <2>1, <3>2, <4>1 DEF In
      <4>3. CASE x = n
        BY <1>2, <1>5, <3>2, <4>1, <4>3
      <4>4. CASE In(x, l)
        <5>1. PICK k \in 1..Len(l) : l[k] = x
          BY <4>4 DEF In
        <5>2. x \in Scopes \ {Root} /\ scope[x].parent = h
          BY <1>1, <1>13, <5>1
        <5>3. scope'[x].parent = h
          BY <1>4, <5>2
        <5> QED
          BY <1>2, <3>2, <4>1, <5>2, <5>3
      <4> QED
        BY <1>7, <4>2, <4>3, <4>4
    <3> QED
      BY <3>1, <3>2
  <2>2. ASSUME NEW s \in Scopes, NEW c \in Scopes, In(c, scope[s].children)
        PROVE  In(c, scope'[s].children)
    <3>1. CASE s # h
      BY <1>4, <2>2, <3>1
    <3>2. CASE s = h
      BY <1>1, <1>7, <2>2, <3>2
    <3> QED
      BY <3>1, <3>2
  <2> QED
    BY <2>1, <2>2 DEF ChildrenGo
<1>15. Arrives(t, n)
  <2>1. HomeOrGuard(t, h)
    OBVIOUS
  <2>2. Calls(n)' = <<>> /\ thread'[n].mode = th.mode /\ thread'[n].home = th.home
    BY <1>3 DEF Calls
  <2>3. In(n, scope'[h].children)
    BY <1>7
  <2>4. \/ thread'[n].mode = "starting" /\ scope'[n].opener = n
             /\ thread'[n].home = scope'[n].parent /\ ~scope'[n].owned
        \/ thread'[n].mode = "none" /\ scope'[n].opener = t
    BY <1>1, <1>5, <2>2
  <2>5. scope'[n].owned => ~scope[scope'[n].parent].closed
    BY <1>5
  <2> QED
    BY <1>5, <2>1, <2>2, <2>3, <2>4, <2>5, Zenon DEF Arrives
<1>16. Arrivals(t)
  <2>1. \A m \in Scopes' \ Scopes : m = n
    BY <1>2
  <2> QED
    BY <1>3, <1>15, <2>1 DEF Arrivals
<1>17. Under(n, h)'
  BY <1>2, <1>5 DEF Under, Root
<1> QED
  BY <1>3, <1>8, <1>9, <1>10, <1>11, <1>12, <1>14, <1>16, <1>17

(* child: the insertion.                                                   *)
LEMMA InsertChildGoes ==
  ASSUME IndInv, Chains, Bottoms, Todos, NEW t \in Scopes, InsertChild(t)
  PROVE  Went(t)
<1>1. /\ Calls(t) # <<>> /\ Last(Calls(t)).pc = "insert" /\ Here(t) \in Scopes
      /\ UNCHANGED <<item, stalled>>
  BY TopTyped DEF InsertChild, At, IndInv
<1>2. PICK j, h, f, owned, calls :
        /\ j = Depth(t) - 1 /\ h = Here(t) /\ f = 0 /\ owned = ~scope[h].closed
        /\ calls = Front(Calls(t))
  OBVIOUS
<1>3. /\ AddScope(h, t, owned) /\ h \in Scopes
      /\ Joins(t, calls, NoThread)
  BY <1>1, <1>2 DEF InsertChild, Calls, Joins
<1>4. owned \in BOOLEAN /\ (owned => ~scope[h].closed)
  BY <1>2
<1>5. Last(Calls(t)).pc \notin CancelPcs \cup ClosePcs /\ Last(Calls(t)).pc \in ChildPcs
  BY <1>1 DEF CancelPcs, ClosePcs, ChildPcs
<1>6. Bottom(t, Last(Calls(t))) /\ thread[t].mode = "body"
  BY <1>1, <1>5, Alone
<1>7. HomeOrGuard(t, h)
  BY <1>2, <1>5, <1>6 DEF Bottom, Here
<1>8. NoThread.calls = <<>> /\ NoThread.mode = "none"
  BY DEF NoThread
<1>9. PICK opener, th, n : opener = t /\ th = NoThread /\ n = Len(scope) + 1
  OBVIOUS
<1>10. /\ AddScope(h, opener, owned)
       /\ Joins(t, calls, th)
       /\ th.calls = <<>> /\ th.mode = "none"
  BY <1>3, <1>8, <1>9
<1>11. j \in Int
  BY <1>1, <1>2, DepthTyped DEF IndInv
<1>12. /\ Grows /\ ThreadsGo(t, j, f) /\ FlagsGo(t, j, j, f)
       /\ TasksGo(t, j, j, f) /\ ChildrenGo(t, j, j, f) /\ Arrivals(t) /\ ItemsGo(t, j, j)
       /\ OthersStay(t) /\ Calls(t)' = calls
  <2>1. Depth(t) = j + 1 /\ j > j => f.pc \notin {"children", "detach"}
    BY <1>11
  <2> QED
    BY <1>1, <1>3, <1>4, <1>6, <1>7, <1>9, <1>10, <2>1, Joined
<1>13. Moves(t, j, j, f, f) /\ Depth(t) = j + 1 /\ Top(t) = Last(Calls(t))
  <2>1. Calls(t)' = Front(Calls(t)) /\ j = Depth(t) - 1
    BY <1>2, <1>12
  <2> QED
    BY <1>1, <1>12, <2>1, Returned
<1>14. CallsGo(t, j, j, f, f)
  <2>1. Last(Calls(t)).pc \notin Past \cup {"close"}
    BY <1>1 DEF Past
  <2> QED
    BY <1>11, <1>13, <2>1 DEF CallsGo, Returns
<1>15. Goes(t, j, j, f, f)
  BY <1>12, <1>13, <1>14 DEF Goes
<1> QED
  BY <1>15 DEF Went

(* spawn: the insertion of the child.                                      *)
LEMMA SpawnInsertGoes ==
  ASSUME IndInv, Chains, Bottoms, Todos, NEW t \in Scopes, SpawnInsert(t)
  PROVE  Went(t)
<1>1. /\ Calls(t) # <<>> /\ Last(Calls(t)).pc \in SpawnPcs /\ Here(t) \in Scopes
      /\ UNCHANGED <<item, stalled>>
  BY TopTyped DEF SpawnInsert, At, IndInv, SpawnPcs
<1>2. PICK j, n, opener, h, f, owned, calls, th, pc :
        /\ j = Depth(t) - 1 /\ n = Len(scope) + 1 /\ opener = n /\ h = Here(t) /\ owned = FALSE
        /\ pc = "spawn start" /\ f = Frame(h, pc, <<n>>)
        /\ calls = Append(Front(Calls(t)), f) /\ th = NewThread(h)
  OBVIOUS
<1>3. /\ AddScope(h, opener, owned) /\ h \in Scopes
      /\ Joins(t, calls, th)
  <2>1. AddScope(h, opener, owned) /\ h \in Scopes
    BY <1>1, <1>2 DEF SpawnInsert
  <2>2. thread' = Append([thread EXCEPT ![t].calls =
                            Append(Front(@), Frame(Here(t), "spawn start",
                                                 <<Len(scope) + 1>>))],
                         NewThread(Here(t)))
    BY DEF SpawnInsert
  <2>3. calls = Append(Front(thread[t].calls), Frame(Here(t), "spawn start", <<Len(scope) + 1>>))
    BY <1>2 DEF Calls
  <2> QED
    BY <1>2, <2>1, <2>2, <2>3 DEF Joins
<1>4. owned \in BOOLEAN /\ (owned => ~scope[h].closed) /\ ~owned
  BY <1>2
<1>5. Last(Calls(t)).pc \notin CancelPcs \cup ClosePcs
  BY <1>1 DEF CancelPcs, ClosePcs, SpawnPcs
<1>6. Bottom(t, Last(Calls(t))) /\ thread[t].mode = "body"
  BY <1>1, <1>5, Alone
<1>7. HomeOrGuard(t, h)
  BY <1>1, <1>2, <1>6 DEF Bottom, Here
<1>8. th.calls = <<>> /\ th.mode = "starting" /\ th.home = h /\ n = Len(scope) + 1
      /\ opener = n
  BY <1>2 DEF NewThread
<1>9. f.pc = pc /\ f.scope = h /\ f.todo = <<n>>
  BY <1>2 DEF Frame
<1>10. f.pc \notin {"children", "detach"} /\ f.pc \notin {"descend", "closing", "spawn record"}
       /\ pc \in SpawnPcs
  BY <1>2, <1>9 DEF SpawnPcs
<1>11. PICK e : e = j + 1
  OBVIOUS
<1>12. /\ Grows /\ ThreadsGo(t, e, f) /\ FlagsGo(t, j, e, f)
       /\ TasksGo(t, j, e, f) /\ ChildrenGo(t, j, e, f) /\ Arrivals(t) /\ ItemsGo(t, j, e)
       /\ OthersStay(t) /\ Calls(t)' = calls /\ Under(n, h)'
  <2>1. \/ th.mode = "starting" /\ opener = n /\ th.home = h /\ ~owned
        \/ th.mode = "none" /\ opener = t
    BY <1>4, <1>8
  <2>2. Depth(t) = j + 1 /\ e > j => f.pc \notin {"children", "detach"}
    BY <1>10
  <2>3. th.calls = <<>> /\ n = Len(scope) + 1
    BY <1>8
  <2> QED
    BY <1>1, <1>3, <1>4, <1>6, <1>7, <2>1, <2>2, <2>3, Joined
<1>13. Moves(t, j, j + 1, f, f) /\ Depth(t) = j + 1 /\ Top(t) = Last(Calls(t))
  <2>1. Calls(t)' = Append(Front(Calls(t)), f) /\ j = Depth(t) - 1
    BY <1>2, <1>12
  <2> QED
    BY <1>1, <1>12, <2>1, Jumped
<1>14. CallsGo(t, j, e, f, f)
  <2>1. Under(n, h)'
    BY <1>2, <1>12
  <2>2. Visits(f)'
    <3>1. f.todo[1] = n
      BY <1>9
    <3> QED
      BY <1>9, <1>10, <2>1, <3>1 DEF Visits
  <2>3. f.scope = Top(t).scope
    BY <1>2, <1>9, <1>13 DEF Here
  <2>4. j \in Nat /\ e # j + 2 /\ e # j /\ Depth(t) # 0
    BY <1>11, <1>13 DEF Moves
  <2>5. Proceeds(t, e, j, f, f)
    BY <1>1, <1>9, <1>10, <1>13, <2>2, <2>3, <2>4 DEF Proceeds
  <2> QED
    BY <1>13, <2>4, <2>5 DEF CallsGo
<1>15. Goes(t, j, e, f, f)
  BY <1>11, <1>12, <1>13, <1>14 DEF Goes
<1> QED
  BY <1>15 DEF Went

(* A step that assigns a field of a scope and one of another.              *)
TwoSet(s, c, x, y, v, w) ==
    \E s2 : /\ s2 = [scope EXCEPT ![s] = [scope[s] EXCEPT ![x] = v]]
            /\ scope' = [s2 EXCEPT ![c] = [s2[c] EXCEPT ![y] = w]]

(* What the scopes are afterwards.                                         *)
LEMMA TwoFieldsSet ==
  ASSUME IndInv, NEW s \in Scopes, NEW c \in Scopes, s # c,
         NEW x \in Fields, NEW y \in Fields, NEW v, NEW w, TwoSet(s, c, x, y, v, w)
  PROVE  /\ Len(scope') = Len(scope) /\ scope'[s][x] = v /\ scope'[c][y] = w
         /\ \A n \in Scopes : \A z \in Fields :
              (n # s \/ z # x) /\ (n # c \/ z # y) => scope'[n][z] = scope[n][z]
<1>0. PICK s2 : /\ s2 = [scope EXCEPT ![s] = [scope[s] EXCEPT ![x] = v]]
                /\ scope' = [s2 EXCEPT ![c] = [s2[c] EXCEPT ![y] = w]]
  BY DEF TwoSet
<1>1. scope \in Seq(ScopeRec(Len(scope), Len(item))) /\ Scopes = 1..Len(scope)
  BY DEF IndInv, Typed, Shapes, Scopes
<1>2. DOMAIN scope[s] = Fields /\ DOMAIN scope[c] = Fields
  BY <1>1, FieldsOf
<1> DEFINE r == [scope[s] EXCEPT ![x] = v]
           q == [scope[c] EXCEPT ![y] = w]
<1>3. \A z \in Fields : r[z] = IF z = x THEN v ELSE scope[s][z]
  BY <1>2
<1>4. \A z \in Fields : q[z] = IF z = y THEN w ELSE scope[c][z]
  BY <1>2
<1>5. s2 = [scope EXCEPT ![s] = r]
  BY <1>0
<1>6. Len(s2) = Len(scope) /\ \A n \in Scopes : s2[n] = IF n = s THEN r ELSE scope[n]
  BY <1>1, <1>5
<1>7. s2 \in [1..Len(scope) -> {r} \cup ScopeRec(Len(scope), Len(item))]
  BY <1>1, <1>5
<1>8. s2[c] = scope[c]
  BY <1>6
<1>9. scope' = [s2 EXCEPT ![c] = q]
  BY <1>0, <1>8
<1> HIDE DEF r, q
<1>10. /\ \A n \in Scopes \ {c} : scope'[n] = s2[n]
       /\ scope'[c] = q
  BY <1>1, <1>7, <1>9
<1>11. Len(scope') = Len(scope)
  <2>1. DOMAIN scope' = 1..Len(scope) /\ Len(scope) \in Nat
    BY <1>1, <1>7, <1>9
  <2> QED
    BY <2>1
<1>12. scope'[s] = r /\ \A n \in Scopes \ {s, c} : scope'[n] = scope[n]
  BY <1>6, <1>10
<1>13. ASSUME NEW n \in Scopes, NEW z \in Fields, n # s \/ z # x, n # c \/ z # y
       PROVE  scope'[n][z] = scope[n][z]
  <2>1. CASE n = s
    BY <1>3, <1>12, <1>13, <2>1
  <2>2. CASE n = c
    BY <1>4, <1>10, <1>13, <2>2
  <2>3. CASE n \notin {s, c}
    BY <1>12, <2>3
  <2> QED
    BY <2>1, <2>2, <2>3
<1>14. scope'[s][x] = v /\ scope'[c][y] = w
  BY <1>3, <1>4, <1>10, <1>12
<1> QED
  BY <1>11, <1>13, <1>14

(* spawn: the record of the task.                                          *)
LEMMA SpawnRecordGoes ==
  ASSUME IndInv, Tree, Todos, NEW t \in Scopes, SpawnRecord(t)
  PROVE  Went(t)
<1>1. /\ Calls(t) # <<>> /\ Last(Calls(t)).pc = "spawn record" /\ Here(t) \in Scopes
      /\ UNCHANGED <<item, stalled>> /\ ItemsStay /\ Return(t)
      /\ At(t, "spawn record")
  BY TopTyped, NoItems DEF SpawnRecord, At, IndInv
<1>2. PICK j, h, c, x, y, v, w, f, s2 :
        /\ j = Depth(t) - 1 /\ h = Here(t) /\ c = Todo(t)[1] /\ x = "tasks" /\ y = "owned"
        /\ v = scope[h].tasks \cup ToSet(Todo(t)) /\ w = ~scope[h].closed /\ f = 0
        /\ s2 = [scope EXCEPT ![h] = [scope[h] EXCEPT ![x] = v]]
  OBVIOUS
<1>3. Len(Todo(t)) = 1 /\ c \in Scopes \ {Root} /\ Head(Todo(t)) = c
  <2>1. Len(Todo(t)) = 1 /\ Todo(t)[1] \in Scopes \ {Root}
    BY <1>1, Zenon DEF IndInv, Starts
  <2>2. Head(Todo(t)) = Todo(t)[1]
    OBVIOUS
  <2> QED
    BY <1>2, <2>1, <2>2
<1>4. Under(c, h) /\ thread[c].mode \in Ran
  <2>1. Depth(t) \in 1..Len(Calls(t)) /\ Last(Calls(t)) = Calls(t)[Depth(t)]
    BY <1>1, DepthTyped DEF IndInv, Depth, Last
  <2>2. Visits(Last(Calls(t)))
    BY <2>1 DEF Todos
  <2> QED
    BY <1>1, <1>2, <2>2 DEF Visits, Here, Todo
<1>5. h # c
  <2>1. scope[c].parent < c
    BY <1>3, TreeOf
  <2>2. scope[c].parent = h /\ c \in Nat
    BY <1>3, <1>4 DEF Under, Scopes
  <2> QED
    BY <2>1, <2>2
<1>6. c \in v
  <2>1. c \in ToSet(Todo(t))
    BY <1>2, <1>3 DEF ToSet
  <2> QED
    BY <1>2, <2>1
<1>7. x \in Fields /\ y \in Fields /\ h \in Scopes
  BY <1>1, <1>2 DEF Fields
<1>8. scope' = [s2 EXCEPT ![c] = [s2[c] EXCEPT ![y] = w]]
  <2>1. scope' = [scope EXCEPT ![Here(t)].tasks = @ \cup ToSet(Todo(t)),
                               ![Head(Todo(t))].owned = ~scope[Here(t)].closed]
    BY DEF SpawnRecord
  <2> QED
    BY <1>2, <1>3, <2>1
<1>9. /\ Len(scope') = Len(scope) /\ scope'[h][x] = v /\ scope'[c][y] = w
      /\ \A n \in Scopes : \A z \in Fields :
           (n # h \/ z # x) /\ (n # c \/ z # y) => scope'[n][z] = scope[n][z]
  <2>1. TwoSet(h, c, x, y, v, w)
    <3>1. s2 = [scope EXCEPT ![h] = [scope[h] EXCEPT ![x] = v]]
      BY <1>2
    <3> QED
      BY <1>8, <3>1 DEF TwoSet
  <2>2. c \in Scopes /\ h \in Scopes
    BY <1>3, <1>7
  <2> QED
    BY <1>5, <1>7, <2>1, <2>2, TwoFieldsSet
<1>10. /\ scope'[h].tasks = v /\ scope[h].tasks \subseteq v /\ scope'[c].owned = w
       /\ \A n \in Scopes \ {h} : scope'[n].tasks = scope[n].tasks
       /\ \A n \in Scopes \ {c} : scope'[n].owned = scope[n].owned
  BY <1>2, <1>9 DEF Fields
<1>11. /\ \A n \in Scopes : scope'[n].parent = scope[n].parent
       /\ \A n \in Scopes : scope'[n].opener = scope[n].opener
       /\ \A n \in Scopes : scope'[n].guarded = scope[n].guarded
       /\ \A n \in Scopes : scope'[n].closed = scope[n].closed
       /\ \A n \in Scopes : scope'[n].drained = scope[n].drained
       /\ \A n \in Scopes : scope'[n].children = scope[n].children
       /\ \A n \in Scopes : scope'[n].resource = scope[n].resource
       /\ \A n \in Scopes : scope'[n].finalizer = scope[n].finalizer
  BY <1>2, <1>9 DEF Fields
<1>12. j = Depth(t) - 1
  BY <1>2
<1>13. /\ ThreadsStay /\ Moves(t, j, j, f, f) /\ j \in Nat /\ Depth(t) = j + 1
       /\ Top(t) = Last(Calls(t))
  BY <1>1, <1>12, ReturnMoves
<1>14. CallsGo(t, j, j, f, f)
  <2>1. Last(Calls(t)).pc \notin Past \cup {"close"}
    BY <1>1 DEF Past
  <2> QED
    BY <1>13, <2>1 DEF CallsGo, Returns
<1>15. Scopes' = Scopes /\ Len(scope) \in Nat
  BY <1>9 DEF Scopes, IndInv, Typed
<1>16. Grows /\ Arrivals(t)
  BY <1>9, <1>11, <1>13, <1>15 DEF Grows, Arrivals, ThreadsStay
<1>17. ThreadsGo(t, j, f)
  BY <1>13, ThreadsOnly
<1>18. TasksGo(t, j, j, f)
  <2>1. \A n \in Scopes : scope[n].tasks \subseteq scope'[n].tasks
    BY <1>10
  <2> QED
    BY <1>1, <2>1 DEF TasksGo
<1>19. ChildrenGo(t, j, j, f)
  <2>1. \A n \in Scopes : \A a \in 1..Len(scope[n].children) :
          scope[n].children[a] \in Scopes \ {Root} /\ scope[scope[n].children[a]].parent = n
    BY DEF Todos, Under
  <2>2. \A n \in Scopes : \A a \in 1..Len(scope'[n].children) :
          /\ scope'[n].children[a] \in Scopes' \ {Root}
          /\ scope'[scope'[n].children[a]].parent = n
    <3> SUFFICES ASSUME NEW n \in Scopes, NEW a \in 1..Len(scope'[n].children)
                 PROVE  /\ scope'[n].children[a] \in Scopes' \ {Root}
                        /\ scope'[scope'[n].children[a]].parent = n
      OBVIOUS
    <3>1. scope'[n].children = scope[n].children
      BY <1>11
    <3>2. /\ scope[n].children[a] \in Scopes \ {Root}
          /\ scope[scope[n].children[a]].parent = n
      BY <2>1, <3>1
    <3> QED
      BY <1>11, <1>15, <3>1, <3>2
  <2>3. \A n, c2 \in Scopes : In(c2, scope[n].children) => In(c2, scope'[n].children)
    BY <1>11
  <2> QED
    BY <2>2, <2>3 DEF ChildrenGo
<1>20. ItemsGo(t, j, j)
  <2>1. Items' = Items
    BY <1>1 DEF Items
  <2> QED
    BY <1>1, <1>11, <2>1 DEF ItemsGo, ItemsStay, ListGoes
<1>21. FlagsGo(t, j, j, f)
  <2>1. ~(j > j)
    BY <1>13
  <2>2. ASSUME NEW n \in Scopes, scope'[n].owned, ~scope[n].owned
        PROVE  /\ thread[n].mode \in Ran /\ n # Root
               /\ n \in scope'[scope[n].parent].tasks
               /\ ~scope[scope[n].parent].closed
    <3>1. n = c
      BY <1>10, <2>2
    <3>2. scope[n].parent = h /\ w
      BY <1>4, <1>10, <2>2, <3>1 DEF Under
    <3>3. ~scope[h].closed
      BY <1>2, <3>2
    <3> QED
      BY <1>3, <1>4, <1>6, <1>10, <3>1, <3>2, <3>3
  <2>3. ASSUME NEW n \in Scopes, thread[n].mode = "none", scope'[n].owned
        PROVE  scope[n].owned
    <3>1. n # c
      BY <1>4, <2>3 DEF Ran
    <3> QED
      BY <1>10, <2>3, <3>1
  <2> QED
    BY <1>11, <2>1, <2>2, <2>3, Zenon DEF FlagsGo
<1>22. Goes(t, j, j, f, f)
  BY <1>13, <1>14, <1>16, <1>17, <1>18, <1>19, <1>20, <1>21 DEF Goes
<1> QED
  BY <1>22 DEF Went

(* A spawn hands its thread over.                                          *)
LEMMA ThreadsHanded ==
  ASSUME IndInv, NEW t \in Scopes, NEW c \in Scopes, c # t, NEW calls, NEW mode,
         Handover(t, c, calls, mode)
  PROVE  /\ Len(thread') = Len(thread)
         /\ \A u \in Scopes : thread'[u].home = thread[u].home
         /\ \A u \in Scopes \ {c} : thread'[u].mode = thread[u].mode
         /\ thread'[c].mode = mode
         /\ OthersStay(t) /\ Calls(t)' = calls
<1> DEFINE R == ThreadRec(Len(scope), Len(item))
           r == [mode |-> thread[t].mode, home |-> thread[t].home, calls |-> calls]
           q == [mode |-> mode, home |-> thread[c].home, calls |-> thread[c].calls]
           t2 == [thread EXCEPT ![t] = r]
<1>1. thread \in Seq(R) /\ Scopes = 1..Len(thread) /\ thread[t] \in R /\ thread[c] \in R
  BY ThreadTyped DEF IndInv, Typed, Shapes, Scopes
<1>2. r.mode = thread[t].mode /\ r.home = thread[t].home /\ r.calls = calls
  OBVIOUS
<1>3. q.mode = mode /\ q.home = thread[c].home /\ q.calls = thread[c].calls
  OBVIOUS
<1>4. [thread[t] EXCEPT !.calls = calls] = r
  BY <1>1, CallsOfThread
<1>5. [thread[c] EXCEPT !.mode = mode] = q
  BY <1>1, ModeOfThread
<1>6. thread' = [t2 EXCEPT ![c] = q]
  <2>1. t2[c] = thread[c]
    BY <1>1
  <2>2. t2 = [thread EXCEPT ![t].calls = calls]
    BY <1>4
  <2>3. thread' = [t2 EXCEPT ![c].mode = mode]
    BY <2>2 DEF Handover
  <2> QED
    BY <1>5, <2>1, <2>3
<1> HIDE DEF r, q
<1>7. /\ t2 \in [1..Len(thread) -> R \cup {r}]
      /\ \A u \in Scopes : t2[u] = IF u = t THEN r ELSE thread[u]
  BY <1>1
<1> HIDE DEF t2, R
<1>8. /\ \A u \in Scopes : thread'[u] = IF u = c THEN q ELSE t2[u]
      /\ DOMAIN thread' = 1..Len(thread)
  BY <1>1, <1>6, <1>7
<1>9. /\ thread'[c] = q /\ thread'[t] = r
      /\ \A u \in Scopes \ {c, t} : thread'[u] = thread[u]
  BY <1>7, <1>8
<1>10. Len(thread') = Len(thread)
  <2>1. Len(thread) \in Nat
    BY <1>1, LenProperties
  <2> QED
    BY <1>8, <2>1
<1>11. \A u \in Scopes : thread'[u].home = thread[u].home
  BY <1>2, <1>3, <1>9
<1>12. \A u \in Scopes \ {c} : thread'[u].mode = thread[u].mode
  BY <1>2, <1>9
<1>13. \A u \in Scopes \ {t} : thread'[u].calls = thread[u].calls
  BY <1>3, <1>9
<1> QED
  BY <1>2, <1>3, <1>9, <1>10, <1>11, <1>12, <1>13 DEF OthersStay, Calls

(* What the protocol says of a spawn that is about to start its thread.    *)
LEMMA StartingScope ==
  ASSUME IndInv, Tree, Todos, NEW t \in Scopes, At(t, StartPc), NEW c, c = Todo(t)[1]
  PROVE  /\ Calls(t) # <<>> /\ Last(Calls(t)).pc = StartPc /\ Here(t) \in Scopes
         /\ c \in Scopes \ {Root} /\ c # t /\ Head(Todo(t)) = c
         /\ Under(c, Here(t)) /\ thread[c].mode = "starting" /\ Here(t) # c
<1>1. Calls(t) # <<>> /\ Last(Calls(t)).pc = StartPc /\ Here(t) \in Scopes /\ c # t
      /\ Head(Todo(t)) = c
  BY StartingThread DEF At
<1>2. c \in Scopes \ {Root} /\ thread[c].mode = "starting"
  BY Zenon DEF IndInv, Starts, StartPc
<1>3. Under(c, Here(t))
  <2>1. Depth(t) \in 1..Len(Calls(t)) /\ Last(Calls(t)) = Calls(t)[Depth(t)]
    BY <1>1, DepthTyped DEF IndInv, Depth, Last
  <2>2. Visits(Last(Calls(t)))
    BY <2>1 DEF Todos
  <2>3. Last(Calls(t)).pc \in {"spawn start", "spawn record"}
    BY <1>1 DEF StartPc
  <2> QED
    BY <2>2, <2>3 DEF Visits, Here, Todo
<1>4. Here(t) # c
  <2>1. scope[c].parent < c
    BY <1>2, TreeOf
  <2>2. scope[c].parent = Here(t) /\ c \in Nat
    BY <1>2, <1>3 DEF Under, Scopes
  <2> QED
    BY <2>1, <2>2
<1> QED
  BY <1>1, <1>2, <1>3, <1>4

(* The thread starts.                                                      *)
LEMMA StartedGoes ==
  ASSUME IndInv, Tree, Todos, NEW t \in Scopes, At(t, StartPc), NEW c, c = Todo(t)[1],
         Handover(t, c, Append(Front(Calls(t)), Recording(t, c)), StartedMode),
         UNCHANGED <<scope, item, stalled>>
  PROVE  Went(t)
<1>1. PICK j, e, f, calls, mode :
        /\ j = Depth(t) - 1 /\ e = j + 1 /\ f = Recording(t, c)
        /\ calls = Append(Front(Calls(t)), f) /\ mode = StartedMode
  OBVIOUS
<1>2. /\ Calls(t) # <<>> /\ Last(Calls(t)).pc = StartPc /\ Here(t) \in Scopes
      /\ c \in Scopes \ {Root} /\ c # t /\ Under(c, Here(t)) /\ thread[c].mode = "starting"
  BY StartingScope
<1>3. Handover(t, c, calls, mode)
  BY <1>1
<1>4. /\ \A u \in Scopes : thread'[u].home = thread[u].home
      /\ \A u \in Scopes \ {c} : thread'[u].mode = thread[u].mode
      /\ thread'[c].mode = mode
      /\ OthersStay(t) /\ Calls(t)' = calls
  BY <1>2, <1>3, ThreadsHanded
<1>5. mode = "body" /\ mode # "none" /\ mode \in Ran
  BY <1>1 DEF StartedMode, Ran
<1>6. Moves(t, j, j + 1, f, f) /\ Depth(t) = j + 1 /\ Top(t) = Last(Calls(t))
  <2>1. Calls(t)' = Append(Front(Calls(t)), f) /\ j = Depth(t) - 1
    BY <1>1, <1>4
  <2> QED
    BY <1>2, <1>4, <2>1, Jumped
<1>7. f.scope = Here(t) /\ f.pc = "spawn record" /\ f.todo = <<c>>
  BY <1>1 DEF Recording, Frame
<1>8. PICK x : x = "cancelled"
  OBVIOUS
<1>9. Only(t, x) /\ ItemsStay
  BY NoneSet, NoItems
<1>10. Scopes' = Scopes
  BY DEF Scopes
<1>11. Grows /\ Arrivals(t)
  <2>1. Len(scope) \in Nat
    BY DEF IndInv, Typed
  <2> QED
    BY <1>4, <1>10, <2>1 DEF Grows, Arrivals
<1>12. ThreadsGo(t, e, f)
  <2>1. thread[c].mode # "none" /\ thread'[c].mode # "none" /\ thread'[c].mode \in {"body", "failed"}
    BY <1>2, <1>4, <1>5
  <2> QED
    BY <1>2, <1>4, <2>1 DEF ThreadsGo
<1>13. f.pc \notin {"children", "detach"} /\ f.pc \notin {"descend", "closing"} /\ f.pc \in SpawnPcs
       /\ StartPc \in SpawnPcs
  BY <1>7, Zenon DEF SpawnPcs, StartPc
<1>14. FlagsGo(t, j, e, f)
  BY <1>8, <1>9, <1>13, FlagsOnly
<1>15. TasksGo(t, j, e, f) /\ ChildrenGo(t, j, e, f) /\ ItemsGo(t, j, e)
  BY <1>8, <1>9, TasksOnly, ChildrenOnly, ItemsOnly
<1>16. Visits(f)'
  <2>4. f.todo = <<c>>
    BY <1>7
  <2>1. f.todo[1] = c
    BY <2>4
  <2>2. Under(c, f.scope)'
    BY <1>2, <1>7, <1>10 DEF Under
  <2>3. thread'[c].mode \in Ran
    BY <1>4, <1>5
  <2> QED
    BY <1>13, <2>1, <2>2, <2>3 DEF Visits
<1>17. CallsGo(t, j, e, f, f)
  <2>1. j \in Nat /\ e # j + 2 /\ e # j /\ Depth(t) # 0
    BY <1>1, <1>6 DEF Moves
  <2>2. f.scope = Top(t).scope
    BY <1>6, <1>7 DEF Here
  <2>3. Proceeds(t, e, j, f, f)
    BY <1>2, <1>6, <1>13, <1>16, <2>1, <2>2 DEF Proceeds
  <2> QED
    BY <1>6, <2>1, <2>3 DEF CallsGo
<1>18. Goes(t, j, e, f, f)
  BY <1>1, <1>6, <1>11, <1>12, <1>14, <1>15, <1>17 DEF Goes
<1> QED
  BY <1>18 DEF Went

(* It does not: its scope leaves the tree.                                 *)
Unlinks(h, c) ==
    scope' = [scope EXCEPT ![h].children = Without(@, c), ![c].guarded = FALSE]

(* Builder::spawn has failed: the child is unlinked and its guard gone.    *)
LEMMA FailedGoes ==
  ASSUME IndInv, Tree, Todos, NEW t \in Scopes, At(t, StartPc), NEW c, c = Todo(t)[1],
         Handover(t, c, Front(Calls(t)), FailedMode),
         Unlinks(Here(t), c),
         UNCHANGED <<item, stalled>>
  PROVE  Went(t)
<1>1. PICK j, f, h, l, x, y, v, w, calls, mode, s2 :
        /\ j = Depth(t) - 1 /\ f = 0 /\ h = Here(t) /\ l = scope[h].children
        /\ x = "children" /\ y = "guarded" /\ v = Without(l, c) /\ w = FALSE
        /\ calls = Front(Calls(t)) /\ mode = FailedMode
        /\ s2 = [scope EXCEPT ![h] = [scope[h] EXCEPT ![x] = v]]
  OBVIOUS
<1>2. /\ Calls(t) # <<>> /\ Last(Calls(t)).pc = StartPc /\ h \in Scopes
      /\ c \in Scopes \ {Root} /\ c # t /\ Under(c, h) /\ thread[c].mode = "starting"
      /\ h # c /\ ItemsStay
  BY <1>1, StartingScope, NoItems
<1>3. Handover(t, c, calls, mode)
  BY <1>1
<1>4. /\ \A u \in Scopes : thread'[u].home = thread[u].home
      /\ \A u \in Scopes \ {c} : thread'[u].mode = thread[u].mode
      /\ thread'[c].mode = mode
      /\ OthersStay(t) /\ Calls(t)' = calls
  BY <1>2, <1>3, ThreadsHanded
<1>5. mode = "failed" /\ mode # "none"
  BY <1>1 DEF FailedMode
<1>6. Moves(t, j, j, f, f) /\ Depth(t) = j + 1 /\ Top(t) = Last(Calls(t)) /\ j \in Nat
  <2>1. Calls(t)' = Front(Calls(t)) /\ j = Depth(t) - 1
    BY <1>1, <1>4
  <2>2. Moves(t, j, j, f, f) /\ Depth(t) = j + 1 /\ Top(t) = Last(Calls(t))
    BY <1>2, <1>4, <2>1, Returned
  <2> QED
    BY <2>2 DEF Moves
<1>7. x \in Fields /\ y \in Fields /\ c \in Scopes
  BY <1>1, <1>2 DEF Fields
<1>8. TwoSet(h, c, x, y, v, w)
  <2>1. scope' = [s2 EXCEPT ![c] = [s2[c] EXCEPT ![y] = w]]
    BY <1>1 DEF Unlinks
  <2>2. s2 = [scope EXCEPT ![h] = [scope[h] EXCEPT ![x] = v]]
    BY <1>1
  <2> QED
    BY <2>1, <2>2 DEF TwoSet
<1>9. /\ Len(scope') = Len(scope) /\ scope'[h][x] = v /\ scope'[c][y] = w
      /\ \A n \in Scopes : \A z \in Fields :
           (n # h \/ z # x) /\ (n # c \/ z # y) => scope'[n][z] = scope[n][z]
  <2>1. h \in Scopes /\ h # c
    BY <1>2
  <2> QED
    BY <1>7, <1>8, <2>1, TwoFieldsSet
<1>10. /\ scope'[h].children = v /\ ~scope'[c].guarded
       /\ \A n \in Scopes \ {h} : scope'[n].children = scope[n].children
       /\ \A n \in Scopes \ {c} : scope'[n].guarded = scope[n].guarded
  BY <1>1, <1>9 DEF Fields
<1>11. /\ \A n \in Scopes : scope'[n].parent = scope[n].parent
       /\ \A n \in Scopes : scope'[n].opener = scope[n].opener
       /\ \A n \in Scopes : scope'[n].owned = scope[n].owned
       /\ \A n \in Scopes : scope'[n].closed = scope[n].closed
       /\ \A n \in Scopes : scope'[n].drained = scope[n].drained
       /\ \A n \in Scopes : scope'[n].tasks = scope[n].tasks
       /\ \A n \in Scopes : scope'[n].resource = scope[n].resource
       /\ \A n \in Scopes : scope'[n].finalizer = scope[n].finalizer
  BY <1>1, <1>9 DEF Fields
<1>12. Scopes' = Scopes /\ Len(scope) \in Nat
  BY <1>9 DEF Scopes, IndInv, Typed
<1>13. Grows /\ Arrivals(t)
  <2>1. Len(scope') \in Nat /\ Len(scope) <= Len(scope')
    BY <1>9, <1>12
  <2>2. Grows
    BY <1>4, <1>11, <2>1 DEF Grows
  <2> QED
    BY <1>12, <2>2 DEF Arrivals
<1>14. ThreadsGo(t, j, f)
  <2>1. thread[c].mode # "none" /\ thread'[c].mode # "none" /\ thread'[c].mode \in {"body", "failed"}
    BY <1>2, <1>4, <1>5
  <2> QED
    BY <1>2, <1>4, <2>1 DEF ThreadsGo
<1>15. CallsGo(t, j, j, f, f)
  <2>1. StartPc \notin Past \cup {"close"}
    BY Zenon DEF Past, StartPc
  <2>2. Top(t).pc \notin Past \cup {"close"}
    BY <1>2, <1>6, <2>1
  <2> QED
    BY <1>6, <2>2 DEF CallsGo, Returns
<1>16. TasksGo(t, j, j, f)
  BY <1>11 DEF TasksGo
<1>17. ItemsGo(t, j, j)
  <2>1. Items' = Items
    BY DEF Items
  <2> QED
    BY <1>2, <1>11, <2>1 DEF ItemsGo, ItemsStay, ListGoes
<1>18. FlagsGo(t, j, j, f)
  <2>1. ~(j > j)
    BY <1>6
  <2>2. \A n \in Scopes : scope'[n].guarded => scope[n].guarded
    BY <1>10, Zenon
  <2>3. \A n \in Scopes : scope[n].guarded /\ ~scope'[n].guarded => thread'[n].mode = "failed"
    <3>1. thread'[c].mode = "failed"
      BY <1>4, <1>5
    <3> QED
      BY <1>10, <3>1, Zenon
  <2> QED
    <3> SUFFICES ASSUME NEW s \in Scopes
                 PROVE  /\ scope'[s].guarded => scope[s].guarded
                        /\ scope[s].guarded /\ ~scope'[s].guarded => thread'[s].mode = "failed"
                        /\ scope'[s].closed = scope[s].closed
                        /\ scope'[s].drained = scope[s].drained
                        /\ scope'[s].owned = scope[s].owned
      BY <2>1, Zenon DEF FlagsGo
    <3> QED
      BY <1>11, <2>2, <2>3, Zenon
<1>19. ChildrenGo(t, j, j, f)
  <2>1. l \in Seq(Scopes) /\ scope'[h].children = Without(l, c)
    BY <1>1, <1>2, <1>10, ListsTyped DEF IndInv
  <2>2. \A n \in Scopes : \A a \in 1..Len(scope[n].children) :
          scope[n].children[a] \in Scopes \ {Root} /\ scope[scope[n].children[a]].parent = n
    BY DEF Todos, Under
  <2>3. \A d : /\ In(d, Without(l, c)) => In(d, l)
               /\ In(d, l) /\ d # c => In(d, Without(l, c))
    BY <2>1, InWithout
  <2>4. ASSUME NEW n \in Scopes, NEW a \in 1..Len(scope'[n].children)
        PROVE  /\ scope'[n].children[a] \in Scopes' \ {Root}
               /\ scope'[scope'[n].children[a]].parent = n
    <3>1. PICK d : d = scope'[n].children[a]
      OBVIOUS
    <3>2. In(d, scope[n].children)
      <4>1. CASE n = h
        <5>1. In(d, scope'[h].children)
          BY <2>4, <3>1, <4>1 DEF In
        <5> QED
          BY <1>1, <2>1, <2>3, <4>1, <5>1
      <4>2. CASE n # h
        <5>1. scope'[n].children = scope[n].children
          BY <1>10, <4>2
        <5> QED
          BY <2>4, <3>1, <5>1 DEF In
      <4> QED
        BY <4>1, <4>2
    <3>3. PICK k \in 1..Len(scope[n].children) : scope[n].children[k] = d
      BY <3>2 DEF In
    <3>4. d \in Scopes \ {Root} /\ scope[d].parent = n
      BY <2>2, <3>3
    <3> QED
      BY <1>11, <1>12, <3>1, <3>4
  <2>5. ASSUME NEW n \in Scopes, NEW d \in Scopes, thread[d].mode = "none", In(d, scope[n].children)
        PROVE  In(d, scope'[n].children)
    <3>1. d # c
      BY <1>2, <2>5
    <3>2. CASE n = h
      BY <1>1, <2>1, <2>3, <2>5, <3>1, <3>2
    <3>3. CASE n # h
      BY <1>10, <2>5, <3>3
    <3> QED
      BY <3>2, <3>3
  <2> QED
    BY <2>4, <2>5 DEF ChildrenGo
<1>20. Goes(t, j, j, f, f)
  BY <1>6, <1>13, <1>14, <1>15, <1>16, <1>17, <1>18, <1>19 DEF Goes
<1> QED
  BY <1>20 DEF Went

(* spawn: Builder::spawn, which may fail.                                  *)
LEMMA SpawnStartGoes ==
  ASSUME IndInv, Tree, Todos, NEW t \in Scopes, SpawnStart(t)
  PROVE  Went(t)
<1>1. At(t, StartPc)
  BY DEF SpawnStart, StartPc
<1>2. PICK c : c = Todo(t)[1]
  OBVIOUS
<1>3. Head(Todo(t)) = c
  BY <1>2, StartingThread, <1>1
<1>4. \/ /\ thread' = [thread EXCEPT ![t].calls = Append(Front(Calls(t)), Recording(t, c)),
                                     ![c].mode = StartedMode]
         /\ UNCHANGED <<scope, item, stalled>>
      \/ /\ thread' = [thread EXCEPT ![t].calls = Front(Calls(t)), ![c].mode = FailedMode]
         /\ scope' = [scope EXCEPT ![Here(t)].children = Without(@, c), ![c].guarded = FALSE]
         /\ UNCHANGED <<item, stalled>>
  BY <1>3 DEF SpawnStart, Recording, StartedMode, FailedMode
<1>5. \/ /\ Handover(t, c, Append(Front(Calls(t)), Recording(t, c)), StartedMode)
         /\ UNCHANGED <<scope, item, stalled>>
      \/ /\ Handover(t, c, Front(Calls(t)), FailedMode)
         /\ Unlinks(Here(t), c)
         /\ UNCHANGED <<item, stalled>>
  BY <1>4 DEF Handover, Unlinks
<1> QED
  BY <1>1, <1>2, <1>5, StartedGoes, FailedGoes

(* One step per action.                                                    *)
LEMMA TurnGoes ==
  ASSUME IndInv, Protocol, NEW t \in Scopes, Body(t) \/ Step(t)
  PROVE  Went(t)
<1>0. Tree /\ Chains /\ Bottoms /\ Todos /\ Closers
  BY DEF Protocol
<1>2. CASE Body(t)
  <2>2. CASE \E kind \in size.kinds : BeginAdd(t, kind)
    BY <1>0, <2>2, BeginAddGoes
  <2>3. ASSUME NEW s \in Usable(t) \cup {t}, BeginChild(t, s) PROVE Went(t)
    BY <1>0, <2>3, BeginChildGoes
  <2>4. ASSUME NEW s \in Usable(t) \cup {t}, BeginSpawn(t, s) PROVE Went(t)
    BY <1>0, <2>4, BeginSpawnGoes
  <2>5. ASSUME NEW s \in Usable(t) \cup {t}, BeginCancel(t, s) PROVE Went(t)
    BY <1>0, <2>5, BeginCancelGoes
  <2>6. ASSUME NEW s \in Usable(t) \cup {t}, CloseGuard(t, s) PROVE Went(t)
    BY <1>0, <2>6, CloseGuardGoes
  <2>7. CASE \E i \in Items : UserClose(t, i)
    BY <1>0, <2>7, UserCloseGoes
  <2>8. CASE EndBody(t)
    BY <1>0, <2>8, EndBodyGoes
  <2> QED
    BY <1>2, <2>2, <2>3, <2>4, <2>5, <2>6, <2>7, <2>8 DEF Body
<1>3. CASE Adding(t)
  <2>1. CASE \E kind \in size.kinds : Push(t, kind)
    BY <1>0, <2>1, PushGoes
  <2>2. CASE InsertChild(t)
    BY <1>0, <2>2, InsertChildGoes
  <2>3. CASE SpawnChild(t)
    BY <1>0, <2>3, SpawnChildGoes
  <2>4. CASE SpawnInsert(t)
    BY <1>0, <2>4, SpawnInsertGoes
  <2>5. CASE SpawnStart(t)
    BY <1>0, <2>5, SpawnStartGoes
  <2>6. CASE SpawnRecord(t)
    BY <1>0, <2>6, SpawnRecordGoes
  <2> QED
    BY <1>3, <2>1, <2>2, <2>3, <2>4, <2>5, <2>6 DEF Adding
<1>4. CASE Cancelling(t)
  <2>1. CASE CancelOnce(t)
    BY <1>0, <2>1, CancelOnceGoes
  <2>2. CASE AskSnapshot(t)
    BY <1>0, <2>2, AskSnapshotGoes
  <2>3. CASE AskOne(t)
    BY <1>0, <2>3, AskOneGoes
  <2>4. CASE CancelSnapshot(t)
    BY <1>0, <2>4, CancelSnapshotGoes
  <2>5. CASE CancelChild(t)
    BY <1>0, <2>5, CancelChildGoes
  <2> QED
    BY <1>4, <2>1, <2>2, <2>3, <2>4, <2>5 DEF Cancelling
<1>5. CASE Closing(t)
  <2>1. CASE CloseSwap(t)
    BY <1>0, <2>1, CloseSwapGoes
  <2>2. CASE CloseSnapshot(t)
    BY <1>0, <2>2, CloseSnapshotGoes
  <2>3. CASE CloseChild(t)
    BY <1>0, <2>3, CloseChildGoes
  <2>4. CASE Quiesce(t)
    BY <1>0, <2>4, QuiesceGoes
  <2>5. CASE DrainResource(t)
    BY <1>0, <2>5, DrainResourceGoes
  <2>6. CASE DrainFinalizer(t)
    BY <1>0, <2>6, DrainFinalizerGoes
  <2>7. CASE Detach(t)
    BY <1>0, <2>7, DetachGoes
  <2> QED
    BY <1>5, <2>1, <2>2, <2>3, <2>4, <2>5, <2>6, <2>7 DEF Closing
<1>6. CASE DropPermit(t)
  BY <1>0, <1>6, DropPermitGoes
<1>7. CASE MarkFinished(t)
  BY <1>0, <1>7, MarkFinishedGoes
<1> QED
  BY <1>2, <1>3, <1>4, <1>5, <1>6, <1>7 DEF Step

(* The root scope, which nobody has closed or called anything on.          *)
LEMMA ProtocolInit == Init => Protocol
<1> SUFFICES ASSUME Init PROVE Protocol
  OBVIOUS
<1>1. /\ scope = <<NewScope(Root, Root, TRUE)>> /\ item = <<>>
      /\ thread = <<[mode |-> "body", home |-> Root, calls |-> <<>>]>>
  BY DEF Init
<1>2. /\ scope[1] = NewScope(Root, Root, TRUE) /\ Len(scope) = 1
      /\ thread[1] = [mode |-> "body", home |-> Root, calls |-> <<>>]
      /\ Len(item) = 0
  BY <1>1
<1>3. Scopes = {Root} /\ Items = {}
  BY <1>2 DEF Scopes, Items, Root
<1>4. /\ scope[Root].parent = Root /\ scope[Root].opener = Root /\ scope[Root].guarded
      /\ ~scope[Root].closed /\ ~scope[Root].drained
      /\ scope[Root].children = <<>> /\ scope[Root].resource = <<>>
      /\ scope[Root].finalizer = <<>>
  BY <1>2 DEF NewScope, Root
<1>5. thread[Root].mode = "body" /\ thread[Root].home = Root /\ Calls(Root) = <<>>
  BY <1>2 DEF Root, Calls
<1>6. Len(<<>>) = 0
  BY EmptySeq
<1>7. \A u \in Scopes : Calls(u) = <<>> /\ Len(Calls(u)) = 0 /\ 1..Len(Calls(u)) = {}
                       /\ 1..Len(Calls(u)) - 1 = {}
  BY <1>3, <1>5, <1>6
<1>8. /\ 1..Len(scope[Root].children) = {} /\ 1..Len(scope[Root].resource) = {}
      /\ 1..Len(scope[Root].finalizer) = {}
  BY <1>4, <1>6
<1>9. Tree
  BY <1>3, <1>4, <1>5 DEF Tree, Ran
<1>10. Chains /\ Ascending
  BY <1>7 DEF Chains, Ascending
<1>11. Bottoms /\ OneCloser /\ RootAlone
  BY <1>7 DEF Bottoms, OneCloser, RootAlone
<1>12. Todos
  BY <1>3, <1>7, <1>8 DEF Todos
<1>13. Closers
  BY <1>3, <1>4, <1>7 DEF Closers
<1>14. Guards
  BY <1>3, <1>4, <1>5 DEF Guards
<1>15. TasksKept /\ Known /\ ClosedFirst /\ MainKept
  BY <1>3 DEF TasksKept, Known, ClosedFirst, MainKept, ChildOnly
<1>16. Lists
  BY <1>3, <1>8 DEF Lists, Rising
<1>17. Listed /\ Emptied
  BY <1>3 DEF Listed, Emptied
<1> QED
  BY <1>9, <1>10, <1>11, <1>12, <1>13, <1>14, <1>15, <1>16, <1>17 DEF Protocol

(* A step of no thread, that sets at most a token, returns from nothing.   *)
LEMMA QuietGoes ==
  ASSUME IndInv, Protocol, UNCHANGED <<thread, item, stalled>>,
         NEW s, Only(s, "cancelled")
  PROVE  Went(Root)
<1>1. Todos
  BY DEF Protocol
<1>2. Root \in Scopes
  BY DEF IndInv, Typed, Scopes, Root
<1>3. PICK t, j, f : t = Root /\ j = Depth(t) /\ f = 0
  OBVIOUS
<1>4. t \in Scopes /\ Depth(t) \in Nat /\ j = Depth(t)
  BY <1>2, <1>3, DepthTyped DEF IndInv
<1>5. OthersStay(t) /\ Calls(t)' = Calls(t) /\ ThreadsStay
  BY DEF OthersStay, Calls, ThreadsStay
<1>6. Moves(t, j, j, f, f)
  BY <1>4, <1>5, Stayed
<1>7. Depth(t) # j + 1 /\ ~(Depth(t) = 0 /\ j = 1)
  BY <1>4
<1>8. CallsGo(t, j, j, f, f)
  BY <1>7 DEF CallsGo
<1>9. Goes(t, j, j, f, f)
  BY <1>1, <1>4, <1>5, <1>6, <1>7, <1>8, Plain, NoItems
<1> QED
  BY <1>3, <1>9 DEF Went

(* Stuttering is a step that returns from nothing.                         *)
LEMMA StutterGoes == IndInv /\ Protocol /\ UNCHANGED vars => Went(Root)
<1> SUFFICES ASSUME IndInv, Protocol, UNCHANGED vars PROVE Went(Root)
  OBVIOUS
<1>1. UNCHANGED <<scope, thread, item, stalled>>
  BY DEF vars
<1>2. PICK s : s = Root
  OBVIOUS
<1>3. Only(s, "cancelled")
  BY <1>1, NoneSet
<1> QED
  BY <1>1, <1>3, QuietGoes

(* A token cancelled alone sets a flag the protocol says nothing of.       *)
LEMMA TokenSet ==
  ASSUME IndInv, NEW s \in Scopes, CancelToken(s)
  PROVE  /\ UNCHANGED <<thread, item, stalled>> /\ Only(s, "cancelled")
         /\ scope'[s].cancelled /\ silent' = silent \cup {s}
<1>1. PICK v : v = TRUE
  OBVIOUS
<1>2. scope' = [scope EXCEPT ![s] = [scope[s] EXCEPT !["cancelled"] = v]]
  BY <1>1 DEF CancelToken
<1>3. Only(s, "cancelled") /\ scope'[s]["cancelled"] = v
  BY <1>2, FieldSet DEF Fields, IndInv
<1> QED
  BY <1>1, <1>3 DEF CancelToken

(* Nor does a cancelled token return from anything.                        *)
LEMMA TokenGoes ==
  ASSUME IndInv, Protocol, NEW s \in Scopes, CancelToken(s)
  PROVE  Went(Root)
BY TokenSet, QuietGoes

(* So every step goes as a thread may.                                     *)
LEMMA NextGoes == IndInv /\ Protocol /\ Next => \E t : Went(t)
<1> SUFFICES ASSUME IndInv, Protocol, Next PROVE \E t : Went(t)
  OBVIOUS
<1>1. PICK t \in Scopes : Turn(t) \/ CancelToken(t)
  BY DEF Next
<1> QED
  BY <1>1, TurnGoes, TokenGoes DEF Turn

(* The protocol, in every execution of every program.                      *)
LEMMA ProtocolKeeps == IndInv /\ Protocol /\ [Next]_vars => IndInv' /\ Protocol'
<1> SUFFICES ASSUME IndInv, Protocol, [Next]_vars PROVE IndInv' /\ Protocol'
  OBVIOUS
<1>1. IndInv'
  BY NextKeeps, UnchangedKeeps
<1>2. PICK t : Went(t)
  BY NextGoes, StutterGoes
<1>3. PICK j, e, f, g : Goes(t, j, e, f, g)
  BY <1>2 DEF Went
<1> QED
  BY <1>1, <1>3, ProtocolKept

(* The protocol of the closes, in every execution of every program: who    *)
(* closes and drains a scope, what its parent knows of it, and which items *)
(* its lists hold (close, child, spawn, register and defer).               *)
THEOREM ProtocolHolds == Spec => [](IndInv /\ Protocol)
BY ProtocolKeeps, InitIndInv, ProtocolInit, PTL DEF Spec
=============================================================================
