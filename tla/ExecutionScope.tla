--------------------------- MODULE ExecutionScope ---------------------------
(***************************************************************************)
(* Structured concurrency in crates/hell-runtime/src/scope.rs: a tree of   *)
(* execution scopes that own tasks, resources and finalizers, its two      *)
(* recursive operations, cancel and close, and the threads that run them   *)
(* against each other.                                                     *)
(*                                                                         *)
(* Every thread has a stack of calls; one step is one critical section or  *)
(* one atomic access of the code.  In particular register, defer, child    *)
(* and spawn first load `closed` and only later take the lock they insert  *)
(* under.  Scopes, threads and items are numbered in the order of their    *)
(* creation (NEXT_SCOPE_ID, the BTreeMap of children is sorted by it);     *)
(* thread n is the task that was spawned with scope n as its own scope,    *)
(* thread 1 the one that created the root scope.                           *)
(*                                                                         *)
(* Abstracted: the wording and merging of errors (a release that fails     *)
(* does not stop the drain), what a body does besides calling its scopes,  *)
(* and time: a quiescence wait may run out whenever a task is unfinished.  *)
(***************************************************************************)
EXTENDS Naturals, Sequences, FiniteSets
LOCAL INSTANCE SequencesExt
LOCAL INSTANCE FiniteSetsExt

CONSTANT
    Sizes   \* the programs considered, each with its bounds:
            \* kinds, the kinds of items registered; tasks, max_live_tasks of
            \* the shared budget; cancels, what is cancelled besides being
            \* closed, scopes or their tokens alone; scopes and items, how
            \* many are ever made

AllKinds == {"resource", "finalizer"}
AllCancels == {"scope", "token"}
ASSUME SizesAssumption ==
    \A z \in Sizes :
        /\ DOMAIN z = {"kinds", "tasks", "cancels", "scopes", "items"}
        /\ z.kinds \subseteq AllKinds /\ z.cancels \subseteq AllCancels
        /\ z.tasks \in Nat /\ z.scopes \in Nat \ {0} /\ z.items \in Nat

VARIABLES
    size,     \* the program run, never changed
    scope,    \* ExecutionScopeInner by number
    thread,   \* the thread of scope n, when it is a task's own scope
    item,     \* registered resources and finalizers
    permits,  \* live_tasks of the budget
    stalled,  \* tasks some close gave up on (STALLED_TASKS)
    silent    \* for the properties: scopes whose token alone was cancelled

vars == <<size, scope, thread, item, permits, stalled, silent>>

-----------------------------------------------------------------------------
Root == 1
Scopes == 1..Len(scope)
Items == 1..Len(item)

(* A call of one of the scope's operations: the scope it is on, where it   *)
(* stands, and the scopes or items it still has to visit.                  *)
Frame(s, pc, todo) == [scope |-> s, pc |-> pc, todo |-> todo]

AddPcs == {"push resource", "push finalizer"}
ChildPcs == {"insert"}
SpawnPcs == {"spawn child", "spawn insert", "spawn start", "spawn record"}
CancelPcs == {"cancel", "ask", "asking", "descend"}
ClosePcs == {"close", "children", "closing", "quiesce", "resource",
             "finalizer", "detach"}

(* opener is the thread whose guard will close the scope, guarded until    *)
(* that guard is consumed.  owned records, for the properties, that the    *)
(* child or spawn that made the scope was over before its parent closed.   *)
NewScope(up, opener, owned) ==
    [parent |-> up, opener |-> opener, guarded |-> TRUE, owned |-> owned,
     cancelled |-> FALSE, closed |-> FALSE, drained |-> FALSE,
     children |-> <<>>, tasks |-> {},
     resource |-> <<>>, finalizer |-> <<>>]

NoThread == [mode |-> "none", home |-> Root, calls |-> <<>>]
NewThread(home) == [mode |-> "starting", home |-> home, calls |-> <<>>]

(* BTreeMap::remove of a child's number.                                   *)
Without(list, c) ==
    IF \E i \in 1..Len(list) : list[i] = c
    THEN RemoveAt(list, CHOOSE i \in 1..Len(list) : list[i] = c)
    ELSE list

Init ==
    /\ size \in Sizes
    /\ scope = << NewScope(Root, Root, TRUE) >>
    /\ thread = << [mode |-> "body", home |-> Root, calls |-> <<>>] >>
    /\ item = <<>>
    /\ permits = 0
    /\ stalled = {}
    /\ silent = {}

-----------------------------------------------------------------------------
(* Steps of the call stack of thread t.                                    *)
Calls(t) == thread[t].calls
At(t, pc) == Calls(t) # <<>> /\ Last(Calls(t)).pc = pc
Here(t) == Last(Calls(t)).scope
Todo(t) == Last(Calls(t)).todo

SetCalls(t, calls) == thread' = [thread EXCEPT ![t].calls = calls]
Call(t, s, pc) == SetCalls(t, Append(Calls(t), Frame(s, pc, <<>>)))
Return(t) == SetCalls(t, Front(Calls(t)))
Goto(t, pc, todo) ==
    SetCalls(t, Append(Front(Calls(t)), Frame(Here(t), pc, todo)))
CallFrom(t, pc, todo, s, entry) ==
    SetCalls(t, Append(Append(Front(Calls(t)), Frame(Here(t), pc, todo)),
                       Frame(s, entry, <<>>)))

(* ResourceRegistry::close and the finalizer loop hold their mutex while   *)
(* they run: nobody else reads or extends the list meanwhile.              *)
Locked(s, kind) ==
    \E u \in Scopes : \E i \in 1..Len(Calls(u)) :
        Calls(u)[i].scope = s /\ Calls(u)[i].pc = kind

(* A thread registers in its home, the scope its evaluator was forked with *)
(* (fork_with_scope: the scope that spawned the task, not the one made for *)
(* it); it opens children of, spawns into and cancels that scope and the   *)
(* child scopes whose guard it holds.                                      *)
Running(t) == thread[t].mode = "body" /\ Calls(t) = <<>>
Opened(t) == {s \in Scopes \ {Root} : scope[s].opener = t /\ scope[s].guarded
                                        /\ thread[s].mode = "none"}
Usable(t) == {thread[t].home} \cup Opened(t)

-----------------------------------------------------------------------------
(* The bounds count the calls that have not inserted yet, so that none of  *)
(* them is ever held up by a bound.                                        *)
Pending(pcs) ==
    Cardinality({u \in Scopes : Calls(u) # <<>> /\ Last(Calls(u)).pc \in pcs})
RoomForItem == Len(item) + Pending(AddPcs) < size.items
RoomForScope ==
    Len(scope) + Pending({"insert", "spawn child", "spawn insert"}) < size.scopes

(* register and defer: the load of `closed`, then the push.                *)
BeginAdd(t, kind) ==
    /\ Running(t)
    /\ RoomForItem
    /\ ~scope[thread[t].home].closed
    /\ Call(t, thread[t].home,
            IF kind = "resource" THEN "push resource" ELSE "push finalizer")
    /\ UNCHANGED <<scope, item, permits, stalled>>

(* calm records, for the properties, that the item came before any         *)
(* cancellation of its scope or of a scope above.                          *)
Above(s) ==
    LET up[n \in Scopes] == IF n = Root THEN {Root} ELSE {n} \cup up[scope[n].parent]
    IN up[s]
IsCancelled(s) == \E a \in Above(s) : scope[a].cancelled

Push(t, kind) ==
    /\ At(t, IF kind = "resource" THEN "push resource" ELSE "push finalizer")
    /\ ~Locked(Here(t), kind)
    /\ item' = Append(item, [kind |-> kind, scope |-> Here(t), by |-> t,
                             status |-> "held", asked |-> 0,
                             calm |-> ~IsCancelled(Here(t))])
    /\ scope' = IF kind = "resource"
                THEN [scope EXCEPT ![Here(t)].resource = Append(@, Len(item) + 1)]
                ELSE [scope EXCEPT ![Here(t)].finalizer = Append(@, Len(item) + 1)]
    /\ Return(t)
    /\ UNCHANGED <<permits, stalled>>

(* The program closes a handle itself; the registry finds it closed.       *)
UserClose(t, i) ==
    /\ Running(t)
    /\ item[i].kind = "resource" /\ item[i].status = "held"
    /\ item[i].scope = thread[t].home
    /\ item' = [item EXCEPT ![i].status = "closed"]
    /\ UNCHANGED <<scope, thread, permits, stalled>>

-----------------------------------------------------------------------------
(* child: the load of `closed`, then the new scope and its insertion.      *)
BeginChild(t, s) ==
    /\ Running(t)
    /\ s \in Usable(t)
    /\ RoomForScope
    /\ ~scope[s].closed
    /\ Call(t, s, "insert")
    /\ UNCHANGED <<scope, item, permits, stalled>>

(* Mutant: the parent does not learn of its child.                         *)
AddScopeUnlinked(up, opener, owned) ==
    scope' = Append(scope, NewScope(up, opener, owned))

AddScope(up, opener, owned) ==
    scope' = Append([scope EXCEPT ![up].children = Append(@, Len(scope) + 1)],
                    NewScope(up, opener, owned))

InsertChild(t) ==
    /\ At(t, "insert")
    /\ AddScope(Here(t), t, ~scope[Here(t)].closed)
    /\ thread' = Append([thread EXCEPT ![t].calls = Front(@)], NoThread)
    /\ UNCHANGED <<item, permits, stalled>>

(* spawn: load of `closed` and the task permit, then child with a load of  *)
(* its own and the insertion, then the thread, then the record.            *)
(* Mutant: the limit is not checked.                                       *)
BeginSpawnUnlimited(t, s) ==
    /\ Running(t)
    /\ s \in Usable(t)
    /\ RoomForScope
    /\ ~scope[s].closed
    /\ permits' = permits + 1
    /\ Call(t, s, "spawn child")
    /\ UNCHANGED <<scope, item, stalled>>

BeginSpawn(t, s) ==
    /\ Running(t)
    /\ s \in Usable(t)
    /\ RoomForScope
    /\ ~scope[s].closed
    /\ permits < size.tasks
    /\ permits' = permits + 1
    /\ Call(t, s, "spawn child")
    /\ UNCHANGED <<scope, item, stalled>>

(* Mutant: the refused spawn forgets its permit.                           *)
SpawnChildKeepsPermit(t) ==
    /\ At(t, "spawn child")
    /\ IF scope[Here(t)].closed
       THEN Return(t)
       ELSE Goto(t, "spawn insert", <<>>)
    /\ UNCHANGED <<scope, item, permits, stalled>>

SpawnChild(t) ==
    /\ At(t, "spawn child")
    /\ IF scope[Here(t)].closed
       THEN permits' = permits - 1 /\ Return(t)
       ELSE Goto(t, "spawn insert", <<>>) /\ UNCHANGED permits
    /\ UNCHANGED <<scope, item, stalled>>

SpawnInsert(t) ==
    /\ At(t, "spawn insert")
    /\ AddScope(Here(t), Len(scope) + 1, FALSE)
    /\ thread' = Append([thread EXCEPT ![t].calls =
                           Append(Front(@), Frame(Here(t), "spawn start",
                                                <<Len(scope) + 1>>))],
                        NewThread(Here(t)))
    /\ UNCHANGED <<item, permits, stalled>>

(* Builder::spawn, which may fail: the closure is dropped, and with it the *)
(* permit and the last strong reference of the child scope.                *)
SpawnStart(t) ==
    /\ At(t, "spawn start")
    /\ LET c == Head(Todo(t))
           calls == Front(Calls(t))
       IN \/ /\ thread' = [thread EXCEPT
                  ![t].calls = Append(calls, Frame(Here(t), "spawn record", <<c>>)),
                  ![c].mode = "body"]
             /\ UNCHANGED <<scope, permits>>
          \/ /\ thread' = [thread EXCEPT ![t].calls = calls, ![c].mode = "failed"]
             /\ scope' = [scope EXCEPT ![Here(t)].children = Without(@, c),
                                       ![c].guarded = FALSE]
             /\ permits' = permits - 1
    /\ UNCHANGED <<item, stalled>>

SpawnRecord(t) ==
    /\ At(t, "spawn record")
    /\ scope' = [scope EXCEPT ![Here(t)].tasks = @ \cup ToSet(Todo(t)),
                              ![Head(Todo(t))].owned = ~scope[Here(t)].closed]
    /\ Return(t)
    /\ UNCHANGED <<item, permits, stalled>>

-----------------------------------------------------------------------------
(* cancel: a deadline met by a safepoint, or the holder of a guard.        *)
BeginCancel(t, s) ==
    /\ "scope" \in size.cancels
    /\ Running(t)
    /\ s \in Usable(t) \cup {t}
    /\ ~scope[s].cancelled
    /\ Call(t, s, "cancel")
    /\ UNCHANGED <<scope, item, permits, stalled>>

(* Only the first canceller goes on; the token itself is seen at once by   *)
(* every descendant, whose tokens look at their parents.                   *)
(* Mutant: every canceller goes on.                                        *)
CancelAgain(t) ==
    /\ At(t, "cancel")
    /\ scope' = [scope EXCEPT ![Here(t)].cancelled = TRUE]
    /\ Goto(t, "ask", <<>>)
    /\ UNCHANGED <<item, permits, stalled>>

CancelOnce(t) ==
    /\ At(t, "cancel")
    /\ IF scope[Here(t)].cancelled
       THEN Return(t) /\ UNCHANGED scope
       ELSE /\ scope' = [scope EXCEPT ![Here(t)].cancelled = TRUE]
            /\ Goto(t, "ask", <<>>)
    /\ UNCHANGED <<item, permits, stalled>>

(* request_cancel copies the registry under its lock and calls the copies. *)
AskSnapshot(t) ==
    /\ At(t, "ask")
    /\ ~Locked(Here(t), "resource")
    /\ Goto(t, "asking", Reverse(scope[Here(t)].resource))
    /\ UNCHANGED <<scope, item, permits, stalled>>

AskOne(t) ==
    /\ At(t, "asking") /\ Todo(t) # <<>>
    /\ item' = [item EXCEPT ![Head(Todo(t))].asked = @ + 1]
    /\ Goto(t, "asking", Tail(Todo(t)))
    /\ UNCHANGED <<scope, permits, stalled>>

CancelSnapshot(t) ==
    /\ At(t, "asking") /\ Todo(t) = <<>>
    /\ Goto(t, "descend", scope[Here(t)].children)
    /\ UNCHANGED <<scope, item, permits, stalled>>

CancelChild(t) ==
    /\ At(t, "descend")
    /\ IF Todo(t) = <<>>
       THEN Return(t)
       ELSE CallFrom(t, "descend", Tail(Todo(t)), Head(Todo(t)), "cancel")
    /\ UNCHANGED <<scope, item, permits, stalled>>

-----------------------------------------------------------------------------
(* The token of a scope is cancelled without the scope: a clone was given  *)
(* away, to the workers of a pool (concurrency.rs:521 and 600) or to the   *)
(* callback of a request (native_http.rs:317-322), and whoever has it may  *)
(* cancel it at any time.  Nobody is asked, and a later cancel of the      *)
(* scope finds the reason set and returns at once.                         *)
CancelToken(s) ==
    /\ "token" \in size.cancels
    /\ ~scope[s].cancelled
    /\ scope' = [scope EXCEPT ![s].cancelled = TRUE]
    /\ silent' = silent \cup {s}
    /\ UNCHANGED <<thread, item, permits, stalled>>

-----------------------------------------------------------------------------
(* A guard closes its scope, by ScopeGuard::close or when it is dropped.   *)
CloseGuard(t, s) ==
    /\ Running(t)
    /\ s \in Opened(t)
    /\ scope' = [scope EXCEPT ![s].guarded = FALSE]
    /\ Call(t, s, "close")
    /\ UNCHANGED <<item, permits, stalled>>

(* A body returns, fails or panics; the thread then closes its own scope.  *)
EndBody(t) ==
    /\ Running(t)
    /\ Opened(t) = {}
    /\ thread' = [thread EXCEPT ![t].mode = "closing",
                                ![t].calls = << Frame(t, "close", <<>>) >>]
    /\ scope' = [scope EXCEPT ![t].guarded = FALSE]
    /\ UNCHANGED <<item, permits, stalled>>

(* The swap of `closed`: whoever comes second returns at once, whether or  *)
(* not the first is done.                                                  *)
CloseSwap(t) ==
    /\ At(t, "close")
    /\ IF scope[Here(t)].closed
       THEN Return(t) /\ UNCHANGED scope
       ELSE /\ scope' = [scope EXCEPT ![Here(t)].closed = TRUE]
            /\ CallFrom(t, "children", <<>>, Here(t), "cancel")
    /\ UNCHANGED <<item, permits, stalled>>

CloseSnapshot(t) ==
    /\ At(t, "children")
    /\ Goto(t, "closing", Reverse(scope[Here(t)].children))
    /\ UNCHANGED <<scope, item, permits, stalled>>

CloseChild(t) ==
    /\ At(t, "closing")
    /\ IF Todo(t) = <<>>
       THEN /\ scope' = [scope EXCEPT ![Here(t)].children = <<>>]
            /\ Goto(t, "quiesce", <<>>)
       ELSE /\ CallFrom(t, "closing", Tail(Todo(t)), Head(Todo(t)), "close")
            /\ UNCHANGED scope
    /\ UNCHANGED <<item, permits, stalled>>

(* wait_until twice, then finalize, which takes the records: the finished  *)
(* tasks are joined, the others reported as stalled and left running.      *)
Unfinished(s) == {c \in scope[s].tasks : thread[c].mode # "done"}

(* Mutants: the tasks are not waited for; they are waited for without end. *)
QuiesceAtOnce(t) ==
    /\ At(t, "quiesce")
    /\ scope' = [scope EXCEPT ![Here(t)].tasks = {}]
    /\ Goto(t, "resource", <<>>)
    /\ UNCHANGED <<item, permits, stalled>>

QuiesceForEver(t) ==
    /\ At(t, "quiesce")
    /\ Unfinished(Here(t)) = {}
    /\ scope' = [scope EXCEPT ![Here(t)].tasks = {}]
    /\ Goto(t, "resource", <<>>)
    /\ UNCHANGED <<item, permits, stalled>>

Quiesce(t) ==
    /\ At(t, "quiesce")
    /\ stalled' = stalled \cup Unfinished(Here(t))
    /\ scope' = [scope EXCEPT ![Here(t)].tasks = {}]
    /\ Goto(t, "resource", <<>>)
    /\ UNCHANGED <<item, permits>>

(* The two drains, newest first; an item already closed is skipped.        *)
Released(i) ==
    IF item[i].status = "held" THEN [item EXCEPT ![i].status = "released"]
                               ELSE item

(* Mutant: the oldest item first.                                          *)
DrainResourceFifo(t) ==
    /\ At(t, "resource")
    /\ LET list == scope[Here(t)].resource
       IN IF list = <<>>
          THEN Goto(t, "finalizer", <<>>) /\ UNCHANGED <<scope, item>>
          ELSE /\ scope' = [scope EXCEPT ![Here(t)].resource = Tail(@)]
               /\ item' = Released(Head(list))
               /\ UNCHANGED thread
    /\ UNCHANGED <<permits, stalled>>

DrainResource(t) ==
    /\ At(t, "resource")
    /\ LET list == scope[Here(t)].resource
       IN IF list = <<>>
          THEN Goto(t, "finalizer", <<>>) /\ UNCHANGED <<scope, item>>
          ELSE /\ scope' = [scope EXCEPT ![Here(t)].resource = Front(@)]
               /\ item' = Released(Last(list))
               /\ UNCHANGED thread
    /\ UNCHANGED <<permits, stalled>>

DrainFinalizer(t) ==
    /\ At(t, "finalizer")
    /\ LET list == scope[Here(t)].finalizer
       IN IF list = <<>>
          THEN /\ scope' = [scope EXCEPT ![Here(t)].drained = TRUE]
               /\ Goto(t, "detach", <<>>)
               /\ UNCHANGED item
          ELSE /\ scope' = [scope EXCEPT ![Here(t)].finalizer = Front(@)]
               /\ item' = Released(Last(list))
               /\ UNCHANGED thread
    /\ UNCHANGED <<permits, stalled>>

Detach(t) ==
    /\ At(t, "detach")
    /\ LET up == scope[Here(t)].parent
       IN scope' = [scope EXCEPT ![up].children = Without(@, Here(t))]
    /\ Return(t)
    /\ UNCHANGED <<item, permits, stalled>>

(* The thread of a task, after its own close: the permit is dropped, then  *)
(* the task is marked finished, then its result is sent.                   *)
DropPermit(t) ==
    /\ t # Root
    /\ thread[t].mode = "closing" /\ Calls(t) = <<>>
    /\ permits' = permits - 1
    /\ thread' = [thread EXCEPT ![t].mode = "finishing"]
    /\ UNCHANGED <<scope, item, stalled>>

MarkFinished(t) ==
    /\ \/ thread[t].mode = "finishing"
       \/ t = Root /\ thread[t].mode = "closing" /\ Calls(t) = <<>>
    /\ thread' = [thread EXCEPT ![t].mode = "done"]
    /\ UNCHANGED <<scope, item, permits, stalled>>

-----------------------------------------------------------------------------
Body(t) ==
    \/ \E kind \in size.kinds : BeginAdd(t, kind)
    \/ \E s \in Usable(t) \cup {t} :
         \/ BeginChild(t, s) \/ BeginSpawn(t, s)
         \/ BeginCancel(t, s) \/ CloseGuard(t, s)
    \/ \E i \in Items : UserClose(t, i)
    \/ EndBody(t)

Adding(t) ==
    \/ \E kind \in size.kinds : Push(t, kind)
    \/ InsertChild(t)
    \/ SpawnChild(t) \/ SpawnInsert(t) \/ SpawnStart(t) \/ SpawnRecord(t)
Cancelling(t) ==
    CancelOnce(t) \/ AskSnapshot(t) \/ AskOne(t) \/ CancelSnapshot(t) \/ CancelChild(t)
Closing(t) ==
    \/ CloseSwap(t) \/ CloseSnapshot(t) \/ CloseChild(t) \/ Quiesce(t)
    \/ DrainResource(t) \/ DrainFinalizer(t) \/ Detach(t)

Step(t) ==
    Adding(t) \/ Cancelling(t) \/ Closing(t) \/ DropPermit(t) \/ MarkFinished(t)

Turn(t) == UNCHANGED silent /\ (Body(t) \/ Step(t))

Next == UNCHANGED size /\ \E n \in Scopes : Turn(n) \/ CancelToken(n)

Threads == 1..Max({z.scopes : z \in Sizes})

Spec == Init /\ [][Next]_vars

(* Every call a thread makes on its scopes goes on: the mutexes are held   *)
(* for finite work, the quiescence waits have deadlines.  Bodies may run   *)
(* for ever.                                                               *)
FairSpec ==
    Spec /\ \A t \in Threads :
                WF_vars(UNCHANGED <<size, silent>> /\ t \in Scopes /\ Step(t))

-----------------------------------------------------------------------------
Pcs == AddPcs \cup ChildPcs \cup SpawnPcs \cup CancelPcs \cup ClosePcs
Modes == {"none", "starting", "failed", "body", "closing", "finishing", "done"}

TypeOK ==
    /\ Len(scope) \in 1..size.scopes /\ Len(thread) = Len(scope)
    /\ Len(item) \in 0..size.items
    /\ permits \in 0..size.tasks
    /\ stalled \subseteq Scopes /\ silent \subseteq Scopes
    /\ \A s \in Scopes :
         /\ scope[s].parent \in Scopes /\ scope[s].opener \in Scopes
         /\ \A flag \in {"guarded", "owned", "cancelled", "closed", "drained"} :
              scope[s][flag] \in BOOLEAN
         /\ ToSet(scope[s].children) \subseteq Scopes
         /\ scope[s].tasks \subseteq Scopes
         /\ ToSet(scope[s].resource \o scope[s].finalizer) \subseteq Items
    /\ \A t \in Scopes :
         /\ thread[t].mode \in Modes /\ thread[t].home \in Scopes
         /\ \A i \in 1..Len(Calls(t)) :
              Calls(t)[i].scope \in Scopes /\ Calls(t)[i].pc \in Pcs
    /\ \A i \in Items :
         /\ item[i].kind \in size.kinds
         /\ item[i].scope \in Scopes /\ item[i].by \in Scopes
         /\ item[i].status \in {"held", "closed", "released"}
         /\ item[i].asked \in Nat /\ item[i].calm \in BOOLEAN

(* Every task permit is accounted for: it is held by a spawn that has not  *)
(* started its thread, or by a thread that has not finished, stalled or    *)
(* not.  No path of spawn, close or a failed start loses or repeats one.   *)
Spawning(t) ==
    \E pc \in {"spawn child", "spawn insert", "spawn start"} : At(t, pc)
PermitsAccounted ==
    permits = Cardinality({t \in Scopes : Spawning(t)})
            + Cardinality({t \in Scopes \ {Root} :
                             thread[t].mode \in {"body", "closing"}})

(* The scopes that see to the end of d: its parent, if the call that made  *)
(* d was over before the parent closed, and so on up.  A scope whose guard *)
(* some task closes ends with that task, since whoever comes second to its *)
(* close does not wait: it needs the same owner as that task.              *)
Owners(d) ==
    LET up[n \in Scopes] ==
          LET above == {scope[n].parent} \cup up[scope[n].parent]
          IN IF n = Root \/ ~scope[n].owned THEN {}
             ELSE IF scope[n].opener \in {n, Root} THEN above
             ELSE above \cap up[scope[n].opener]
    IN up[d]
Owned(d) == d = Root \/ Root \in Owners(d)

(* Structured concurrency: once a scope releases what it owns, every task  *)
(* below it has finished and every scope such a task opened has been       *)
(* drained, unless a task was reported as stalled.  The close that gets    *)
(* there may have found descendants being closed by their own threads, and *)
(* its tasks may still open and spawn while it waits for them.             *)
Releasing(s) ==
    scope[s].drained \/ Locked(s, "resource") \/ Locked(s, "finalizer")
Quiet(d) ==
    /\ scope[d].drained \/ thread[d].mode = "failed"
    /\ thread[d].mode \in {"none", "failed", "done"}
Structured ==
    stalled = {} =>
      \A d \in Scopes : \A s \in Owners(d) : Releasing(s) => Quiet(d)

(* Nothing is lost: when the root scope has been closed and no task was    *)
(* reported as stalled, whatever a task owned by its scopes registered, in *)
(* whatever order with the closes around it, has been released or closed   *)
(* by its user, and every such task gave its permit back.                  *)
NothingLost ==
    thread[Root].mode = "done" /\ stalled = {} =>
      /\ \A i \in Items : Owned(item[i].by) => item[i].status # "held"
      /\ (\A d \in Scopes : Owned(d)) => permits = 0

(* However many threads cancel a scope, its parents or its children, and   *)
(* close them, a resource is asked to cancel at most once.                 *)
AskedAtMostOnce == \A i \in Items : item[i].asked <= 1

(* When nobody is in the middle of a cancellation, every cancel has        *)
(* reached all resources, in the cancelled scope and in the scopes below   *)
(* it, that were registered before: none is skipped because a scope in     *)
(* between was cancelled by another cancel, or closed, or inserted         *)
(* meanwhile.  It stops at a scope whose token alone was cancelled first:  *)
(* nothing is claimed of what is in such a scope or below it.              *)
Cancelled(a, s) ==
    /\ a \in Above(s) /\ scope[a].cancelled
    /\ \A b \in silent \cap Above(s) : b < a
CancelReaches ==
    (\A t \in Scopes : \A i \in 1..Len(Calls(t)) : Calls(t)[i].pc \notin CancelPcs) =>
      \A i \in Items :
        /\ item[i].kind = "resource" /\ item[i].status = "held" /\ item[i].calm
        /\ \E a \in Scopes : Cancelled(a, item[i].scope)
        => item[i].asked > 0

(* Items are released from the inside out: in a scope the newest first and *)
(* resources before finalizers, and never before what a scope below still  *)
(* holds, unless a task was reported as stalled.                           *)
Later(i, j) ==
    /\ item[j].scope = item[i].scope
    /\ item[j].kind = item[i].kind => j > i
    /\ item[j].kind = "finalizer" => item[i].kind = "finalizer"
ReleaseInsideOut ==
    [][stalled' = {} =>
         \A i \in Items :
           item[i].status = "held" /\ item'[i].status = "released" =>
             \A j \in Items :
               /\ item'[j].status = "held"
               /\ item[j].by = Root \/ item[i].scope \in Owners(item[j].by)
               => ~ Later(i, j) /\ item[i].scope \notin Owners(item[j].scope)]_vars

(* Every call returns, however long the bodies of the tasks run: close is  *)
(* bounded ("cancellation_stall_is_bounded_and_reported").                 *)
CallsReturn ==
    \A t \in Threads :
        (t \in Scopes /\ Calls(t) # <<>>) ~> (t \in Scopes /\ Calls(t) = <<>>)

-----------------------------------------------------------------------------
(* "Closes all descendants, tasks, resources, and finalizers" (close): when *)
(* the root scope has been closed and nothing stalled, no task is running. *)
CloseStopsTasks ==
    thread[Root].mode = "done" /\ stalled = {} =>
      \A d \in Scopes : thread[d].mode # "body"

(* The tree stays well formed, a scope releases what its tasks own only    *)
(* when they are quiet, and none of it is lost (scope.rs:983-1075).        *)
ScopesSound == TypeOK /\ Structured /\ NothingLost

(* A cancel of a scope reaches all that was registered before it and is    *)
(* not behind a token cancelled alone, and each once (scope.rs:327-354,    *)
(* 942-957).                                                               *)
CancelSound == AskedAtMostOnce /\ CancelReaches
=============================================================================
