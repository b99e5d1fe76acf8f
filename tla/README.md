# hell-rs in TLA+

A verification development of hell-rs, a Rust implementation of the Hell
scripting language: TLA+ models of its concurrent runtime, its HTTP host, its
release publisher, the data types it implements and parts of its compiler; TLC
runs on small instances; and TLAPS proofs for every instance. Paths below are
relative to `src/crates/` unless they start with `spec/`.

Contents: [the system](#the-system) · [the modules](#the-modules) ·
[the runs](#the-runs) · [bounds](#bounds) · [fairness](#fairness) ·
[the proofs](#the-proofs) · [what the code does against its words](#what-the-code-does-against-its-words) ·
[observations](#observations) · [what is not modelled](#what-is-not-modelled) ·
[where to go on](#where-to-go-on)

To check a run: `tlc -config <run>.cfg <its module>`; to check a proof module:
`tlapm <module>.tla`. `PROJECT.json` lists the runs, the mutants (for
every property plausible bugs of the code it catches), the source lines of every
definition, the hazards and the theorems.

## The system

A script is lexed, laid out, parsed, inferred, elaborated, verified as a core
term, and evaluated lazily. `main` is an IO action; running it may fork
evaluators on threads, start child processes, open files and serve HTTP, all
inside a tree of execution scopes that cancel and release what was started in
them. Beside the executable there are a CI driver that stages attestations and
publishes releases, and a test kit that compares hell-rs with the reference
implementation.

| component | state it keeps | operations | hard behaviour | what makes it correct | model |
|---|---|---|---|---|---|
| call-by-need machine, `hell-runtime/src/lib.rs` | a mutex-guarded cell per thunk, a frame stack per evaluator, the global `WAIT_GRAPH` | `force`, `enter_thunk`, `register_wait`, `unwind_machine`, `Drop` of update guards | evaluators share thunks and wait for each other; cancellation, step limits and panics abandon a stack half way | a thunk is evaluated once and its outcome never rewritten; a claimed thunk has an owner that will settle it; black holes are real; forces return | `ThunkMachine`, `CallByNeed` |
| execution scopes, `scope.rs` | a tree of scopes: token, `closed`, children, tasks, resources, finalizers; task permits | `child`, `spawn`, `register`, `defer`, `cancel`, `close` | recursive cancel and close run against each other and against insertions that loaded `closed` earlier; waits that give up | nothing outlives its scope, everything is released from the inside out, permits come back, a cancel reaches what it should once | `ExecutionScope` |
| concurrent actions, `concurrency.rs` | a scope per call, the preparation gate, the job queue, the result channel | `concurrently`, `race`, `timeout`, pooled `forConcurrently`/`mapConcurrently` loops | a spawn refused half way, results against cancellation, deadlines, full queues, siblings that cancel each other | the cause is reported, results are complete, both sides start together or not at all, no thread is left | `Concurrency` |
| budgets and permits, `budget.rs`, `policy.rs` | atomic counters and their limits | `charge_*`, `acquire_*`, `BudgetPermit::drop` | a compare-exchange loop; permits dropped on error paths | a limit is never passed, a charge is never lost, a permit returns once | `Budget` |
| process supervision, `lib.rs`, `hell-host`, test kit | `ScopedProcessResource`, the child's slot, pipe readers | `run_child_process`, `request_cancel`, `close`, `run_supervised_command`, process-tree termination | the canceller takes the child away while the evaluator polls it; descendants keep pipes open; deadlines | the tree is gone and its permit back; readers are joined; a call is blamed for its cause; it returns | `ChildProcess` |
| file handles, `native_handle.rs` | a file and pending bytes, a mode, a permit | write, flush, close, `set_buffering`, copy to a child | two mutexes; close and cancel against writes; writes refused half way | what was accepted reaches the file once, in order; nothing after the close; the permit lives as long as the file | `FileHandle` |
| temporary files and directories, `native_temp.rs` | a guard with a path to remove | create, remove, retries | owner, canceller and closer clean up at once; removals fail | removed once, permit back, a failure told | `TempResource` |
| HTTP host, `hell-http-host` | accept loop, connection permits, request limit, active requests, ingress phase, cancellation callbacks | `serve_async`, `serve_connection`, `dispatch`, `pump_request_body`, `EngineBody`, `Cancellation` | shutdown against new connections; pump against application; deadlines; clients that leave or stall | permits return, no deadlock, a body is left to be read as a head and an end is told early only for the causes named, `serve` returns | `HttpHost`, `HostCancellation` |
| HTTP adapter, `native_http.rs` | `alive` of requests and streams, `ScopedHttpServer` | `run_server`, application call, body producers | the scope's cancel against requests in flight | a request is cancelled for a cause of its own; a client that leaves a response stops its thread only | `HttpHost` |
| release publisher, `hell-ci/src/release/{publish,remote_state,github}.rs` | none of its own: the remote store is the state | admission check, `classify`, draft, upload, `reconcile_assets`, publish, verify | lost and late answers, kills, reruns; people who move tags and edit drafts | success is exact, immutable and human releases are kept, reruns converge | `ReleasePublisher` |
| attestation staging, `publish.rs`, `manifest.rs` | files on disk | read by observation, write aside, link, roll back | others write, replace or move the files between any two steps; kills | what is accepted was read whole; both bundles or none | `AttestationStaging` |
| maps, sets and integers, `native_collections.rs`, `native_integer.rs` | values | tree operations; limb arithmetic, words, digits | rotations, borrows, borders of limbs and words | the mathematical map, set, integer, each in one representation | `OrderedCollections`, `BigInteger` |
| sorting, `native_list.rs`, `typeclasses.rs` | values | `sort`, `sortOn` in both topologies | an order that is none (NaN) | a sorted, stable permutation; at least a permutation | `ListSort` |
| times, `native_time.rs` | values | calendar, ticks, ISO text | leap seconds, clipping, proleptic years | the proleptic calendar, exact sums | `GuestTime` |
| layout and parser, `hell-syntax` | tokens, contexts, a work stack | `insert_layout`, `Parser` | implicit blocks closed late, precedence, recovery after errors | a written program is read as written; a wrong one is refused, and an error that ends before a boundary costs its own declaration only | `Layout`, `ExpressionParser`, `ProgramText` |
| type unifier, `hell-types` | metavariables, bindings, a zonk memo | `unify`, `prune`, `zonk`, kind and occurs checks | stale memo entries, long sequences | a most general unifier, no cycle, kinds respected | `TypeUnifier` |
| dependency sweep, `hell-compiler` | counts and a queue | `cyclic_nodes` | any order of removal | exactly the declarations on or behind a cycle remain | `DependencySweep` |
| differential batches, test kit | a shared counter, a shared first failure, slots | workers, report | workers fail and leave in any order; executables are exchanged | the report names the lowest failing case, whatever the interleaving | `DifferentialBatch` |
| the rest of the compiler, lexer, registry, lazy list natives, JSON, evidence tracing, CI driver, release planning, conformance ledger, corpora | values and files | sequential functions and commands | none that interleaves | agreement with the reference implementation | not modelled |

**How they interact.** An evaluator runs on one thread and belongs to one scope.
Forcing a thunk (machine) can run a native; running an IO action can call
`concurrently` and its relatives, which open a child scope, spawn task scopes with
an evaluator each (`fork_with_scope`) and collect results over channels; resources
(handles, temporaries, processes, servers) register with the scope, which asks
them to cancel and closes them, and hold permits of the budget. Evaluators meet in
shared thunks, in the tokens and registries of scopes, in the channels of a
concurrent action, in shared handles and in the counters of the budget. A server
runs each request as an evaluator on a blocking thread, whose token follows the
request's `Cancellation`. The publisher and the staging of attestations share
finished files only.

**Composition.** The modules are checked one by one against what the others promise:

- `Concurrency` sees a scope from outside: a token, a cancel that asks resources, a
  close that waits and may give up. What it assumes is what `ExecutionScope` checks:
  `CallsReturn` (close returns), `ScopesSound` (after it, tasks are done unless
  reported as stalled), `CancelSound` (a cancel asks each resource once, unless a
  token cancelled alone stands before it).
- `ChildProcess`, `TempResource` and `FileHandle` take from a scope that it may cancel
  from one thread and close from another, in any order, each at most once: again
  `CancelSound` and the drains of `ExecutionScope`.
- `HttpHost` takes a request's cancellation as one step; `HostCancellation` has the
  two steps it consists of and proves that callbacks run once.
- Every module sees a body, a guest or a callback as something that may run for ever
  unless cancelled; that a forced thunk notices its cancellation is `ForceReturns` of
  `ThunkMachine`, up to the loop found there.
- In `MCRelease` and `MCComponents` several modules are instantiated side by side: a
  behaviour follows one of them, the subject, and leaves the others in one initial
  state. They share nothing, so a product of their states would say nothing more.

## The modules

### ThunkMachine and CallByNeed

`CallByNeed` says what a thunk promises: suspended, then claimed or settled, then
settled for ever. `ThunkMachine` is the code. `state[t]` is `Thunk.state` under the
cell's mutex; `stack[e]` the `Vec<Frame>` of the evaluator, with the machines of
nested `force` calls stacked above a `"Native"` frame; `control[e]` the local
`Control` or the place inside `enter_thunk`; `waitGraph` the edges of `WAIT_GRAPH`.
A step is one critical section or one turn of the machine loop:

- `Abort`: `ensure_not_cancelled()?` and `charge_steps(1)?` at the top of the loop,
  which leave without unwinding; `DropFrames` then is the drop of the stack, guard
  by guard.
- `ProbeSettled`, `ProbeBlackHole`, `ProbeWaitCycle`, `ProbeWait`, `ProbeFull`,
  `Claim`: the arms of `enter_thunk`. `Wake` is the end of a 10 ms wait.
- `RunReturn`, `RunDemand`, `RunHost`: `Control::Evaluate`. What a suspension does
  is one of six codes: return a value, raise, alias another thunk, demand one,
  call `force` from a native, panic. A program maps thunks to codes; runs explore
  all programs.
- `ReturnValue`, `ReturnAlias`, `Raise`, `Unwind`: the resume of a frame,
  `ThunkUpdateGuard::store` (which overwrites whatever the cell holds), and
  `unwind_machine`.

### ExecutionScope

`scope[n]` is an `ExecutionScopeInner`; `thread[n]` the thread spawned with scope n
as its own, with a stack of calls. A step is one critical section or one atomic
access, so the window between the load of `closed` and the insertion in `register`,
`defer`, `child` and `spawn` is there, and so are the snapshots that `cancel` and
`close` take of children and registry. `cancel` is `CancelOnce`, `AskSnapshot`,
`AskOne`, `CancelSnapshot`, `CancelChild`; `close` is `CloseSwap`, `CloseSnapshot`,
`CloseChild`, `Quiesce`, `DrainResource`, `DrainFinalizer`, `Detach`. `spawn` is
`BeginSpawn`, `SpawnChild`, `SpawnInsert`, `SpawnStart`, `SpawnRecord`; the end of
a task is `EndBody`, the close of its scope, `DropPermit`, `MarkFinished`.
`CancelToken` is the cancel of a scope's token alone, by whoever was given a clone of
it: a worker of a pool, the callback of a request. `silent` has these scopes, for the
properties. A drain
holds the lock of its list (`Locked`). A release that fails does not stop a drain
and is not distinguished from one that succeeds.

### Concurrency

One call of `concurrently`, `race`, `timeout` (positive, zero, negative) or a
pooled loop, with its caller, its tasks and its surroundings. The caller enters,
spawns (each spawn may be refused), polls (`Check`, `Poll`, `Receive…`), awaits a
pool's threads and closes its scopes in the code's order. A side of a pair forces
its action, waits at `PairPreparationGate`, runs, sends, ends. A pool worker loops
through safepoint, token, job, token again, callback, send; the producer forces the
list and offers cells to a queue of twice the workers. The user's program decides
what an action, a callback or a list cell ends in, and may go on for ever. The
caller may be cancelled, and a deadline may pass, at any moment; `CancelDescends`
is the moment when a cancel of the caller's scope reaches the open scope below.

### ReleasePublisher

`releases` is what the repository holds for the planned tag; `tag`, `branch` and
`feature` the rest of the remote state. `pc` is the request the publisher sends
next, one action per request, from the admission check (`CheckBranch`, `CheckTag`)
through the first reads, `Decide` (`classify`), the deletion of stale drafts, the
creation of the draft, the passes of `reconcile_assets` (`BeginReconcile`,
`DeleteAsset`, `Upload`, `EndReconcile`), the reads before and after `Publish`, to
`Report`. A request that writes may be applied and answered, applied with its
answer lost, lost, or, in the instances that say so, applied late (`Land`), after
the client's 30 seconds. `Killed` ends an attempt anywhere; `Start` begins the
next one from nothing but what the repository shows. `People` move the branch,
make the tag, switch the immutability of releases off, write, edit, publish and
delete releases. An asset's content is a number: absent, foreign, the original, or
the one made by attempt n when attestations are made anew.

### AttestationStaging

`stage_attestations` reads the registry and the two bundles it names by
observation (`Resolve`, `Examine`, `Open`, `Inspect`, `ReadPiece`, `Recheck`,
`Accept`) and installs two files or none (`Note`, `LookForTargets`,
`SameDirectory`, `CreateTemporary`, `WriteTemporary`, `LinkTarget`,
`UnlinkTemporary`, `UndoLink`, `RollBack`). Between any two steps others write
in place, replace, remove or move a source, take or clear a target name, or
exchange the directory; inode numbers are used again and the clock may stand still
between two writes. `Rerun` is a kill or an end followed by a new run.

### HttpHost and HostCancellation

`server` is `serve_async` (`Turn`, `AcquirePermit`, `Accept`, `Stop`, `Cleanup`,
`CleanupDeadline`, `Leave`), `stop` the three tokens it reacts to, `used` and
`completed` its counters. `conn[c]` is the task of one client's connection with its
current request: the ingress `phase`, the pump and its channel, the guest's thread
(`app`), the response channel (`out`) and the guards. Each action is one poll of a
task or one step of a thread: `Dispatch`, `Respond…`, `Finish`, `NoticeLeft`,
`ConnectionDeadline`, `DropCall` and `EndTask` are the connection's; `PumpFrame`,
`PumpSend`, `PumpBroken`, `PumpFail`, `PumpEnd` the pump's; `AppStart`,
`NextChunk`, `Answer`, `Write`, `SendData`, `Acked`, `ProduceErr` the guest
thread's. `TakeMessage`, `EndOfBody`, `DropBody` and `CloseBody` are hyper's use of
`EngineBody`: hyper drops a body when it was polled to its end, and also when it has
taken as many bytes as were announced (`Written`), which `EngineBody` takes for a
disconnect. After that the connection is used again (`KeepAlive`) although the rest
of a request's body may still arrive (`RestArrived`, `RestRefused`) and the last
producer may still run (`lingers`, `LingererEnds`). hyper and tokio are external: what is modelled of them is how the
code is called by them.

`HostCancellation` is `Cancellation` alone, for any number of threads that cancel
and register: the swap of the flag before the mutex, the look at the flag under it,
the push after another look.

### The resources: Budget, FileHandle, TempResource, ChildProcess

`Budget` is one counter under any number of threads: load, compute, compare and
exchange (which may fail spuriously), with permits that are dropped. Its abstract
specification is `BudgetAtomic`: each step is one whole charge or one whole release.

`FileHandle` has the two mutexes of the code: a write reads the mode under one,
then takes the state's; `Close` may be the program's or a scope's; a write to the
system may be refused after a part was taken.

`TempResource` has three cleaners (owner, canceller, closer) that race for one
guard and retry a failed removal `cleanup.temp_delete_retries` times, once more
when the guard is dropped.

`ChildProcess` has the running thread (`runner`), two pipe readers, the writer of
the input, a leader and a descendant that may leave the process group, the
thread that cancels and the thread that closes the scope. `slot` says who has the
child. The test kit's `run_supervised_command`, which owns its child and has a
deadline, is the same module with another `host`.

### The data: OrderedCollections, BigInteger, GuestTime, ListSort

Each has the code's algorithm as operators, a state machine that performs one
operation after another on what it has so far, and an invariant that compares
every answer with a definition that knows nothing of the algorithm: items as sets,
integers as `Int`, the calendar as "the day after", a sort as a stable
permutation. Keys, limbs and ticks are small numbers, and the code's constants
(limb base, word width, ticks of a second, width of a count) are CONSTANTS, so
that their borders are near.

### The compiler: Layout, ExpressionParser, ProgramText, TypeUnifier, DependencySweep

`Layout` is `insert_layout`, one token after the other. `ExpressionParser` is
`Parser` with its explicit work stack: one action per kind of work item, errors by
`Recover`, declarations in `TopLevel`. A name, a literal and a type are one
token. `ProgramText` is the reference: it writes trees down by the grammar (its own
table of precedences, parentheses only where needed, seven layout styles) and gives
tokens their columns. `ParsesAsWritten` says three things. A file with a wrong
declaration is refused, wherever its error is. A file without one parses to what was
written, unless its blocks end apart: `EndsApart` finds, by lines and brackets alone,
the texts in which a block stands open for `insert_layout` when the parser has ended
it, at a real brace, or before a line that begins in its column or ends a block begun
since. And when the error of a declaration is met inside it and no boundary follows
inside it, all others are read and each wrong one is reported. Where the exceptions
apply the code does go wrong: TLC finds every one of the 85 texts of `FewFiles` that
end apart refused, and the [observations](#observations) have examples.

`TypeUnifier` has metavariables of kinds, `Unify` with its work list, occurs and
kind checks and path shortening, and `Zonk` with its memo; the arena of types is
structural equality. `DependencySweep` is `cyclic_nodes` for every dependency
between the declarations.

### DifferentialBatch

`differential_batch_with_invocations`: workers take indices from a shared counter
(`Take`), leave when their index is above the first failure (`Leave`), check the
executables' identity (`Guard`), run the case, lower the first failure (`Lower`),
store what came of it (`Store`); `Conclude` reads the slots. `ReplaceExecutable` is
somebody who exchanges an executable meanwhile. The model is of the unix build: there
an identity has the change time, so that a file that was put back is told from one
that was left alone. On other systems `require_unchanged` looks at paths only
(`lib.rs:9899-9902` of the test kit), `finish` compares digests, and a file that was
put back before them is not noticed; that is not modelled.

## The runs

Every property has mutants in `PROJECT.json`: the module with one definition
replaced by a plausible bug, under which TLC violates that property.

| run | instance | what it shows |
|---|---|---|
| `thunk_safety` | all programs of two thunks, two evaluators that force twice each, cancel and exhaustion anywhere, frame limit 2 | `Ownership`, `ImplementsCallByNeed`: a claim always has its one update frame, an outcome is written once. `ForcesAgree`: two forces of a thunk return the same value unless one was aborted. `BlackHoleIsReal`, `WaitGraphAcyclic`; `WellFormed`: types and the frame limit |
| `thunk_liveness` | programs of values, aliases and native calls without alias cycles | `ForceReturns`, through waits, nested forces, detected cycles and aborts |
| `scope_safety` | two tasks in 4 scopes; every kind of item in 3 scopes | `PermitsAccounted` on every path of spawn and close; `ScopesSound`: a scope releases only when what its tasks own is quiet, and nothing is lost; `ReleaseInsideOut` under concurrent closes and registrations |
| `scope_liveness` | 1 resource, bodies that also cancel scopes: 3 scopes with a task; tokens cancelled too: 2 scopes with a task, 3 without | `CancelSound`: a resource is asked at most once, and a cancel reaches what was registered before it, up to scopes whose token alone was cancelled; `CallsReturn` although bodies may run for ever |
| `concurrency` | every action, 1 or 2 workers, up to 4 worker-cells | `ResultsSound` (the cause is reported, one result per input), `NoHeadStart`, `Quiet` (what is left when the call returns) |
| `concurrency_liveness` | every action, 1 worker, up to 3 cells | `Stops`: a call with a reason to stop returns; `AllEnd`: its threads all end |
| `release` | publishing two assets, one an attestation, under five settings of faults, late requests and other people; staging under two changes and two runs | `SuccessIsExact`, `ReleasesSound` (nothing half published, nothing littered), `KeepsHumanAndImmutable`, `Converges`; `StagedSound` (read whole; a refused run takes back), `InstallsSafely` (both bundles, nothing of others) |
| `http` | seven servers: long bodies, streams and responses of a known length beside an unread body, streams that a shutdown meets, a connection used again, one used again while its last producer runs, two clients at the limit of tasks, two at the limit of connections | `Accounted` (every permit has one holder that gives it back), `CauseSound`, `WireSound`, `Returns`, `DisconnectReleases` |
| `components` | thirteen components one at a time, see [bounds](#bounds) | `BudgetExact`, `CalledOnce`, `HandleSound`, `TempAccounted`, `ProcessSound`, `RunReturns`, `KernelsExact` (collections, integers, times, sorting), `UnifierSound`, `CyclesFound`, `ParsesAsWritten`, `LowestFailureReported` |
| `thunk_false_black_hole`, `thunk_alias_loop`, `scope_orphan` | the smallest that shows it | a violation each, see [below](#what-the-code-does-against-its-words) |

`CHECK_DEADLOCK FALSE` everywhere: a program that has done its forces, a root scope
that has been closed, a call that has returned, a publisher that has used its
attempts and an operation that has answered are meant to stop. That nothing stops
before is what the liveness properties say.

## Bounds

- `MaxForces` (top-level forces of one evaluator): 2 is the least with which an
  evaluator can meet what its own earlier, aborted force left behind. Two
  evaluators and two thunks have all patterns of one claim against another: nested,
  crossed, aliased, stale edges. Longer wait cycles go through the same walk of
  `WaitsFor`, which is defined for any number. `MaxFrames` is
  `max_machine_frames`: 2 makes the limit bite between claim and push.
- Scopes: a root, a child, a task scope and a descendant one of them opens while
  the others close; with 3 there is still a chain of three, which the orderings of
  releases need. Two items make an order. A task limit of 1 or 2 is below and at
  the number of concurrent spawns. `cancels` says which cancels happen besides
  those of `close`, which are in every run: of scopes, of tokens alone, or none
  where they would triple the states. Tokens need no task to be cancelled, and three
  scopes without one have a token between the scope that is cancelled and the resource.
- `MaxWorkers` 2, `MaxCells` 4 (workers times cells): with two workers two cells,
  so one may fail while the other runs; with one worker four cells, which is more
  than its queue of two holds, so the producer blocks.
- Publisher: up to 4 attempts with 3 faults (each attempt may die at another
  place, and the last one goes through), late requests with one intrusion, two
  intrusions without. `MaxReleases` bounds the identifiers ever used. Staging: bodies of two pieces (one may be torn), two clock ticks,
  two changes, two runs.
- HTTP: bodies of 3 and 4 chunks against a channel of 2 and a limit of 3, so that a
  pump also waits on a full channel when the next chunk fails; in `Streams` the body
  of 3 is left unread beside a response that streams; responses of a known length
  have none or one chunk; one or two clients, since connections meet only in
  counters and in the server's end, of whom both may leave while they share the
  limit of tasks (`Pair`) and one may leave at the limit of connections (`Refused`);
  a connection has at most two requests.
- `components`: a counter of at most 3 charged by two threads in ones and twos up
  to 2 or to its width; three callbacks against two cancellers; a handle shared by
  two threads, four units, one refused write, a block of two; two creation retries
  and one deletion retry; five calls of a child with one chunk of output per
  stream, which fills a pipe; trees of five keys and lists of eleven nearly
  ascending ones (enough for every rotation and for the ascending prefix of
  `fromList`); two binary digits to a limb and five to a word, with numbers of up
  to five limbs about every border; days about the end of February in years of
  every kind; two ticks to a second, twenty bits to a count; four
  metavariables of three kinds and three requests; every dependency between three
  declarations; trees of two constructs, one in every place of the other, in
  every layout style, records in blocks around blocks, and a wrong declaration after
  each of two good ones, in error at its end, in its middle, or before a boundary; all
  lists of up to four items and longer ones with up to eleven runs, with and
  without an item that is no number; three cases on two workers.
- Quiescence waits, polls, timeouts and deadlines have no clock: they may end
  whenever the code could see them end.

## Fairness

- `ThunkMachine!FairSpec`: weak fairness of each evaluator's steps, since each is a
  thread; none for the start of a force, a cancel or the exhaustion of the budget.
  Strong fairness of `ProbeWaitCycle`: a waiter registers for 10 ms and is off the
  graph for microseconds between polls, so two evaluators that wait for each other
  are not for ever registered at disjoint times.
- `ExecutionScope!FairSpec`: weak fairness of every thread's `Step`, the steps of a
  call already begun: locks are held for finite work and the quiescence waits have
  deadlines (so a wait may always give up). Bodies have none.
- `Concurrency!Spec`: weak fairness of the caller's steps and of each task's own
  steps. What the user's program does (`UserStep`, more list cells) has none,
  except that an action, a callback and a list notice a cancellation
  (`EndRun(t, "cancelled")` and the like), which is what the machine's check in
  every turn gives.
- `ReleasePublisher`: weak fairness of `Publisher`: a started attempt sends its
  next request, and the job is run again while attempts are left. None for lost
  answers, kills, late requests and people.
- `HttpHost!FairSpec`: weak fairness of the accept loop, and of each connection's
  task, pump and thread: tokio polls a task whose waker or timer fired, and a
  blocking thread goes on when its channel does. None for clients (they may stall
  for ever, send nothing, read nothing) and none for what a guest chooses.
- `ChildProcess!ProcessFairness`: the runtime's own threads go on, a leader that is
  said to end writes, reads and ends; nobody has to crash, fork, detach or cancel.

## The proofs

Each proof module proves for every value of the constants; its theorems are in
`PROJECT.json`. The proofs use the safety part of the specifications only, no
fairness.

### The machine

`ThunkMachine_proofs`, for every finite set of thunks and evaluators, every program
and every limit:

- `TypeCorrect`: `Spec => []TypeOK`.
- `OwnershipHolds`: `Spec => []Ownership`. The inductive invariant is
  `TypeOK /\ Ownership` with its four parts: a frame's thunk is owned by the
  frame's evaluator, an owned thunk has a frame, frames are distinct, an idle
  evaluator has no frame. None of the parts is inductive alone: that
  popping a frame leaves no owner without one needs the distinctness, and that
  `store` overwrites only its own claim needs the first.
- `MachineWellFormed`: with them the frame limit, so `WellFormed`.
- `WriteOnceHolds`: no step rewrites an outcome, because every store goes through a
  frame whose thunk is `Evaluating`.
- `CallByNeedImplemented`: `Spec => CBN!Spec`. Each step is a step of one cell or a
  stutter, again from `Ownership`.

The same module is about the three graphs of the machine. `WaitsFor` and `Needs` are recursive functions from a number of steps to a set, so both are walks
(`IsWalk`); that a walk as long as the graph has nodes reaches a set closed under
the edges is proved once, by induction on sets of naturals and on cardinality.

- `NobodyWaitsForItself`: `WaitGraphAcyclic`. An edge is only added where the walk
  from the owner does not come back (`ProbeWait`), and then it closes no cycle.
- `BlackHolesAreReal`: `BlackHoleIsReal`. The invariant `AllJustified` says of
  every pending error, failed cell and result that it is the fault of the program:
  what an evaluator looks for is needed by what it owns, all the way down its
  stack, so a thunk found in its own evaluation needs itself. Of the cross-evaluator
  black hole the same is false: that is finding 1.
- `ForcesOfAThunkAgree`: `ForcesAgree`. What a force reports is what the chain of
  indirections of its thunk leads to (`Tracked`, `Reported`; `Leads` is stated by
  closed sets, not by recursion), and a chain, once it ends, ends there for ever.

### Scopes and concurrent actions

`ExecutionScope_proofs`: `PermitsAreAccounted` and `ScopesTyped` for any number of
scopes, threads and items. A permit is counted with its spawn until it is handed to
the thread that is started, so the invariant `IndInv` says whom a spawn starts
(`Starts`: a thread of its own, not running yet), that only `cancel` and `close`
call anything (`Stacks`), and that room promised is found (`Rooms`), beside the
counts themselves (`Permits`). `StackKeeps` shows once for all steps of cancel and
close that they move no count; `StepAround` says by how much the others do.

`ExecutionScope_protocol`: `ProtocolHolds`, the invariant from which the order of the
closes follows. `Protocol` says how a scope, its opener and its home fit together
(`Tree`); that stacks go down the tree (`Chains`, `Ascending`, `Bottoms`, `Todos`);
that one thread is past the swap of `closed` until the scope is drained (`OneCloser`,
`Closers`); that a consumed guard is followed by its close and a body ends without
guards (`Guards`); that a task recorded in time stays recorded until it is done or
stalled (`TasksKept`); that a child inserted in time stays listed, or in the snapshot
of whoever closes the parent, until it is closed (`Known`, `ClosedFirst`); that the
main thread's own children are drained before their parent releases (`RootAlone`,
`MainKept`); and that lists are in order and, once found empty, stay so for those who
were waited for (`Lists`, `Listed`, `Emptied`). `Goes` states what a step may do to
stacks, threads, scopes and items; every conjunct of `Protocol` survives any such step
(`ProtocolKept`), and each of the 27 actions is one (`NextGoes`), so the two halves are
proved apart.

`ExecutionScope_order`: `ScopesAreSound` (`ScopesSound`), `ReleasesInsideOut`
(`ReleaseInsideOut`) and `CancelsAreSound` (`CancelSound`). A closed scope whose opener has no calls is drained, or is being
closed by a thread whose close of the parent is still at this child, so that the parent
does not release (`DrainedOrDeferred`). `Structured` is that, by induction over the
order of creation, along which the recursive function in `Owners` is shown to exist
(`OwnersExist`, `OwnersAre`); `NothingLost` follows for the root, and
`ReleaseInsideOut` because only the two drains release anything.
For `CancelSound` the invariant `Cancellation` is proved beside `Protocol`. A cancel
has one call that asks (`OneAsker`), whose copy of the registry was not asked yet
(`Copies`, `Asked`), so nothing is asked twice. A resource that was not asked in a
cancelled scope that is not silent is in such a copy still to come (`Reached`), and
a child with such resources below is cancelled, or in the list of children of a call
that is still descending (`Reaching`), because it is listed by its parent until it is
drained (`Attended`). When no call is cancelling, none of these calls exists, and the
rest is induction down the tree (`CancelledDown`).

`Concurrency_proofs`, for every number of workers and cells: `NoHeadStartHolds`.
`NoHeadStart` speaks of what a side did and of where the other one is now; the
inductive invariant `PairInv` adds that the gate counts the sides that passed it
(`GateCounts`), that a side runs only behind an open gate (`Opened`), and that the
gate is aborted only when the right side neither runs nor will (`AbortedAlone`),
which needs the spawn loop (`Spawning`). Only pairs use the gate and the mode never
changes, so the invariant is `IsPair => PairInv`. `QuietHolds`: no thread is left
when a call returns. `QuietInv` knows which scopes are still to be closed and that
the threads of those that are closed have ended (`Shutting`), that threads which
were not spawned do nothing, and that the list of spawns is never left half done
(`SidesSpawned`). `ResultsAreSound`: `ResultsSound`. The invariant `Sound` follows
every unit of work, a side or a cell: it is in one place only, the job queue, one
worker, the channel or the caller's list (`Once`), and what has begun is told by
that place (`Counted`). `Blames` says why the answer is the cause: until the caller
has seen a failure nobody was cancelled by the call itself, or a pool's failure
stands in the channel before every cancellation it set off. Since a pool that was
not told to stop answers only when its producer is done and its queue is empty,
one result per cell follows from counting.

### What a program takes from its host

`Components_proofs`, its first part: five components that share no variable.


- `BudgetIsExact` and `BudgetIsAtomic` for any number of threads, any limits and
  any width. What is needed beside `BudgetExact` is that the permits counted are
  those held (`PermitsOfOne`) and that a thread tries an amount it was asked for
  (`AmountsAsked`): the value it read may be stale, the comparison makes it current
  at the exchange.
- `CallbacksCalledOnce` for any number of cancellers and registrars. The invariant
  says where a callback is (`Placed`: in the list, in the batch, called, or with
  its registrar, and in one of them only), that who is between lock and unlock
  holds the mutex (`Locked`), and that the flag, once set, has one winner who will
  still take the list while something may be in it (`Winner`).
- `HandlesLoseNothing` for any number of threads and units and any size of the
  buffer: `HandleSound` is inductive as it stands, and the work is in the lemmas on
  the units that leave a buffer in one write, in parts or again (`Handed`).
- `TempsAreAccounted` for any number of retries: `TempAccounted` needs that there is
  one keeper of the temporary at a time (`OneKeeper`) and when each of the cleaners
  can have begun (`CleanersWhen`).
- `ProcessesAreOwned` for any calls: `ProcessSound` needs where the parts of a call
  can be at each of its steps (`Whereabouts`, `Unspawned`), who has taken the child
  out of its slot (`Takers`), that an empty slot means a child that is dead or
  cannot be killed (`Reaped`), and what a stop, a read and an exit presuppose
  (`Asked`, `Read`, `Exited`).

### The HTTP server

`HttpHost_proofs`, for any number of clients and requests and any limits, from one
inductive invariant `HostInv == ConnectionInv /\ ServerInv /\ Counted`.
`ConnectionInv` is what each connection is by itself: its fields are typed and have
the shape that goes with its place (`Shaped`: a new request starts `Fresh`; a thread
or an answer that will produce is `Holding` a permit; where a request is `Placed`;
a `Producing` thread has somebody who takes what it sends unless it was cancelled;
the body is `OffTheWire` unless cancelled; no answer but a failure comes of a body
that was `CutOff`), and what is cancelled has a cause (`Caused`). `ServerInv` is the
accept loop, and `Counted` says that each counter is the number of those who hold a
permit, the `Lingerers` included (by the library's facts on cardinality). Most steps
change one connection; `Sound(c)` and `Undisturbed(c)` say what they owe it, and
the rest follows for all connections alike. `PermitsComeBack` is `Accounted`.
`BodiesStayApart` is `WireSound`: it does not say that a rest of a body is never
read as a head nor that a cut body is never taken for a whole one, but for which
causes alone this happens, and that no response is made of a cut body.
`CausesAreReal` is `CauseSound`, whose causes include a response of a known length
that was taken whole (`TakenWhole`).

### Releases

`Release_proofs`, the publisher, for any plan, any number of attempts, releases,
faults, late requests and acts of other people, under every setting:

- `PublisherKnows`: the invariant `PublisherInv == Base /\ FewShown /\ Placed`.
  `Base` holds wherever the publisher is: the releases it means to delete, by
  itself or by a late request, are apart from those it means to publish (`Aimed`),
  as long as nobody edits them the first are stale drafts and the second its own,
  and a published, immutable release with its notes is as it was seen. `Placed`
  goes with the place in `publish_with_client`: what was seen there (`SeenWell`),
  how few releases there can be when one is about to be created (`OwnFew`,
  `FewShown`), and how far the assets are in the two passes of `reconcile_assets`
  (`Passes`, `Reconciled`).
- `SuccessMeansPublished` is `SuccessIsExact`: that the draft was whole when it was
  looked at is not enough, its assets must have stayed right until the publish
  request landed (`Reconciled`) and afterwards (the release is then immutable).
- `PublicSeesWholeReleases` is `ReleasesSound`, with the two exceptions for late
  requests that the property names.
- `PublisherSparesOthers` is `KeepsHumanAndImmutable`, an action property, from what
  `Base` says of the aims of the publisher and of late requests.

The staging of attestations, for files of any size, any number of changes by others
and of runs, from `StagingInv == StagingTyped /\ ReadInv /\ PutInv`:

- `StagingIsSound` is `StagedSound`. While a file is held open it has the time that
  was noted and then the body that was noted and a prefix of it read, or a later
  time, or it was written twice at one time of the clock (`FileIsAsSeen`): so the
  comparison of the times at the end says which. A source that was not below
  RUNNER_TEMP when it was opened still is not, or was moved twice (`BelowOrMoved`).
  A refused run has taken back what it installed since what it has linked or
  installed is all there is of it (`TakenBack`) and the list of it is exact
  (`Counted`).
- `StagingIsSafe` is `InstallsSafely`, two action properties: what a run has linked
  or installed is still there under its own name (`StillThere`), and no two files
  have one name (`EntriesTyped`), so removing that name removes the run's own file.

### Tools

`Components_proofs`, its last part: `CyclesAreFound` for every finite set of declarations and
every dependency. The counts are the cardinalities of what is left (`CountsExact`,
by the library's facts on finite sets), what is ready has none (`ReadyResolved`),
and every set in which each declaration depends on another of the set stays blocked
(`StuckKept`); at the end what is left is such a set, so it is the largest.
`BatchIsDeterministic` for any number of cases and workers: the invariant
`BatchInv` accounts for every index: beyond the counter, with one worker, or in its
slot (`AllAccounted`); a worker leaves only when nothing below the first failure is
left to take (`LeftLate`); slots say the truth (`Truthful`), and the first failure
is in its slot or with the worker that lowered it (`FailureKept`). When all have
left, the first slot that is no success is the lowest failure.

### Assumptions, and what is only model-checked

The proofs use the `ASSUME`s of the modules and nothing else. Beside the ranges of
the bounds these are: thunks, evaluators and declarations are finitely many (the
walks and counts are over them; a process has finitely many of each), the settings
of a server and of a publication have the shape the code gives them, and a handle
starts in a buffering mode it can be set to, with a block that is not empty.

Only model-checked are:

- everything that must eventually happen (`ForceReturns`, `CallsReturn`, `Stops`,
  `AllEnd`, `Converges`, `Returns`, `DisconnectReleases`, `RunReturns`), with the
  fairness above: liveness and `ENABLED` are out of the prover's reach;
- `KernelsExact`, `UnifierSound` and `ParsesAsWritten`: what a recursive definition
  computes on trees, limbs, types and texts needs induction over data, of which
  the provers at hand can do no more than an induction on sets of naturals, and
  the modules with `RECURSIVE` operators are closed to proofs.

## What the code does against its words

1. `thunk_false_black_hole`: a waiter removes its edge only when it wakes
   (`lib.rs:2401`), after the owner published. The former owner may meanwhile force
   a thunk of the waiter and is told `cross-evaluator black hole` (H0902) in a
   program without cycles.
2. `thunk_alias_loop`: a thunk that evaluates to itself (`Function.fix Function.id`)
   becomes an indirection to itself, and the loop of `enter_thunk` follows it
   without looking at the token: the evaluator cannot be cancelled.
3. `scope_orphan`: `spawn` loads `closed` long before it records the task. When an
   ancestor closes in between, the root's close returns while the task still runs.
   `ScopesSound` therefore speaks of what was handed over while the scope was open
   (`Owners`).

## Observations

Seen with TLC or while reading the code for the models, without a run of their own.
Where a property had to admit one of them, its comment says so.

*Machine and concurrent actions.* A cancelled or exhausted evaluator leaves by `?`
(`lib.rs:2282`); its guards fail the thunks it owned with an internal error
(H9000), which evaluators that nobody cancelled then return. A failed pool worker
cancels the token of the pool's scope, not the scope (`concurrency.rs:600`), so the
later `cancel` (`concurrency.rs:633`) finds the token set (`scope.rs:942`), returns,
and neither asks the registered resources nor descends; the callback of a request
does the same to the request's scope (`native_http.rs:320-322`). `CancelSound`
therefore claims nothing behind such a scope (`silent`). A finalizer pushed after the drain in the window of finding 3
is lost like a task. Whoever comes second to the close of a scope returns at once
(`scope.rs:997`), whether or not the first is done: a pair's thread closes the
scopes of its two sides (`concurrency.rs:433`), and when an ancestor closes the
pair's scope meanwhile, its close passes over them and releases that scope while
they are still closing (four scopes show it), although the code closes
"all descendants, tasks, resources, and finalizers" in that order
(`scope.rs:983`). The scope that thread is a task of does wait for it, so `Owners` counts a scope with a guard as owned only by what owns, besides its
parent, the thread that holds the guard. An earlier `Owners` did not, and held in
four scopes; the attempt to prove it gave the counterexample with five. A pool whose caller is cancelled between a worker's safepoint
and its look at the token answers the internal error of `concurrency.rs:668` rather
than H0906. A `timeout` around a pool may return H0906 rather than `Nothing`, when
the pool's safepoint (`concurrency.rs:525`) notices the inherited deadline first.

*Publisher.* `classify` ignores the assets of drafts, so a publish request that is
applied late, while the next attempt replaces the attestations, publishes half a
set; a create applied late leaves two drafts, and every later listing refuses. A
rerun of the whole job makes the attestations anew, so after a publish whose answer
was lost the next attempt reports a conflict. The error of `publish.rs:375-377` (the
draft's assets did not reconcile exactly) cannot occur. Deletion by identifier is
check-then-act.

*Staging.* The check that the directory is still the same, between and after the
two installs, returns with `?` without rolling back (`publish.rs:88,100`). Two
writes of one size within one tick of the clock go unnoticed. `write_atomic`
(`manifest.rs:68-92`) leaves `NAME.tmp` behind when it fails or is killed, and
later writes of `NAME` are then refused, because the temporary is created new.

*HTTP.* The guards of a connection are removed when its future drops, so the
`cancel_all` after it finds nothing and the application of a client that left
before its response is never cancelled through the request. The connection's
shutdown deadline leaves with `?`, past `cancel_all`; `abort_all` and a refused
connection budget drop requests without cancelling them too, and `serve` then
waits for their blocking guests while it drops the runtime. A reader blocked in
`next_chunk` is told the end of the body (`Ok(None)`) after a cancellation or a
dropped connection, although the comment at `hell-http-host/src/lib.rs:165-168`
promises an error; its next safepoint ends such a guest. The idle timeout of a
keep-alive connection, and a client that leaves before its response has started, are
recorded as the first error and stop the server, for all clients.
`EngineBody` reports an exact length for bytes, files and sized streams
(`hell-http-host/src/lib.rs:1467-1470`). hyper drops such a body when it has taken that length, without
polling it to `None`, and an empty one of bytes at once; its drop then cancels the
request (`lib.rs:1473-1479`) on a healthy connection that is kept alive. The
callback that wrote the last byte is interrupted at its next safepoint, its producer
may still hold the task permit when the next request asks for one, which is then
refused at the limit, and a pump that is still moving the request's body stops
(`lib.rs:1273`, `1313`): hyper reads the rest as a head, and what it makes of it is
an error that may stop the server, although the test
`keep_alive_reuses_connections_and_drains_unconsumed_request_bodies`
(`hell-runtime/tests/http.rs:707`) has bodies drained. A pump that waits on a full channel for a
guest that does not read does not look at its connection: when the client of a
stream leaves, the request then ends only with its guest (`Abandoned` leaves this
out of `DisconnectReleases`). `Refuse` and `RespondInvalid` record an error for what
one client or guest got wrong, which stops the server too. Guests that read a body
while they produce a response are not modelled: a body is read before the answer.

*Resources.* Cancelling a process mostly answers an I/O error "process tree is
closed", or an internal error, instead of H0906, and leaves pipe readers unjoined
(`lib.rs:8112-8127`); the comment at `lib.rs:8125`, that a detached descendant cannot
hang the evaluator, is not true of one that left the group with `setsid`. Closing a
process resource is check-then-act; a failed kill returns before the wait and
forgets the child. The canceller of a temporary ignores that removing it failed, and
the owner answers success. A write that read the mode before `set_buffering` leaves
bytes pending, a refused partial flush sends bytes again. A child that exits early
without reading its input turns into an error when the writer of its input meets
the broken pipe first.

*Front end.* A parenthesis that ends a `do` block leaves its layout context behind: a
later line in exactly its column gets a spurious semicolon.
`discard_deferred_layout_close` removes the next virtual close, which need not be the
one of the block that was ended. A real brace that ends implicit blocks emits no
closes for them, so `do { do a }` followed by another declaration is refused, and a
record whose field holds a block in parentheses takes the close of the block around
the record. At the end of a file this is not noticed at all:

```
main = case a of
  C -> case a of
    C -> Q.c { f = (do a) }
  _ -> a
```

parses, with `_ -> a` an alternative of the inner `case` (TLC, with this file alone),
although the dropped close is to be "the corresponding" one, "so it cannot
accidentally close the surrounding block" (`hell-syntax/src/lib.rs:1021-1023`).
`[do a]`, `(do a, b)` and `if c then do a else b` on one line are refused, and
`f $ a :: T` annotates `a` only. Recovery stops at any semicolon, also inside a
block, whose close then ends the top level: later errors are not reported, although
they are to be "recovered at declaration boundaries" (`lib.rs:2350`, `2359`). A
declaration that ends where an expression should begin (`main =` alone) takes the
boundary token with it, and the next one is skipped. Since a file with an error is
refused as a whole, what is lost is the errors of the declarations passed over.

*Compiler and data.* H0311 names the first unresolved type only, H0310 all of them,
also those that are merely blocked by a cycle. Hours, minutes and seconds of a
text are parsed with `parse::<u32>`, which accepts a leading plus sign. With NaN
among the items the two topologies of sorting give different, but complete, lists.

*Not modelled, seen while reading.* `platform.rs`:
`establish_candidate_process_confinement` creates the account and the group first
and the value that removes them last, so any `?` in between leaves them behind; the
report says "passed" before reports that may still fail are written.
Evidence tracing: a task whose caller is cancelled after `record_task_started` has
no terminal event, and the canonical identities of a pair depend on the schedule.

## What is not modelled

Within the modelled components: values and environments of the machine; error texts
and the merging of cleanup errors (`combine_failures`); the waiting and generation
API of `CancellationToken`, and tokens without a scope; `threadDelay` other than as
an action that notices cancellation; a timeout delay that fails to evaluate; what
finalizers and resources do when called, other than those modelled; the
verification of files and signatures before the first request of a publication,
pages of listings, chains of annotated tags; the bytes of HTTP heads and their
limits; resolving a command, its environment and launch policies; standard
streams; folds and maps over trees, which leave their shape alone; the conversion
of big integers to floating point; durations; types of more than one token and
declarations of data, limits on tokens and nesting, and patterns that are malformed
in the middle; the sandboxes and the comparison of outcomes of a differential case.

The other components are in `PROJECT.json`, each with its reason. They are of two
kinds. Most of the repository's lines are sequential validation of documents and
corpora, tables, command lines and reports (`corpus.rs`, `artifact.rs`,
`policy/release_workflow.rs`, `command.rs`, most of the test kit): what they accept
is data, and a model of them would be their text again. Inference, elaboration and
the core verifier are about terms of any shape, of which the instances in TLC's
reach say little; the unifier, which is where their state is, is modelled.

## Where to go on

- A proof of the calendar of `GuestTime`, which has no recursion.
- A run for the record that takes another block's close (`EndsApart`), and for a
  recovery that ends the top level.
- Guests that read their request's body while they stream the response.
- The confinement of platform tests (`platform.rs`) as a transaction with partial
  failures, once its cleanup is a value that exists from the first step.
- The event log of evidence tracing, composed with `Concurrency`.
- `HttpHost` with `HostCancellation` in place of its one-step cancel.
