-------------------------- MODULE MCExecutionScope --------------------------
(***************************************************************************)
(* Instances of ExecutionScope for TLC.                                    *)
(***************************************************************************)
EXTENDS ExecutionScope

Size(kinds, tasks, cancels, scopes, items) ==
    [kinds |-> kinds, tasks |-> tasks, cancels |-> cancels,
     scopes |-> scopes, items |-> items]

(* Two tasks in four scopes, and every kind of item in three.              *)
TasksOnly == Size({}, 2, {}, 4, 0)
ItemsOnly == Size(AllKinds, 1, {}, 3, 2)

(* Cancels around one resource: of scopes, with a task in three of them;   *)
(* of tokens too, with a task in two, and without one in three, where one  *)
(* scope is between the scope that is cancelled and the resource.          *)
ScopeCancels == Size({"resource"}, 1, {"scope"}, 3, 1)
TokenCancels == Size({"resource"}, 1, AllCancels, 2, 1)
TokenBetween == Size({"resource"}, 0, AllCancels, 3, 1)

TasksAndItems == {TasksOnly, ItemsOnly}
Tasks == {TasksOnly}
Cancels == {ScopeCancels, TokenCancels, TokenBetween}
=============================================================================
