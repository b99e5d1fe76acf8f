---------------------------- MODULE ChildProcess ----------------------------
(***************************************************************************)
(* One child process and everybody around it: the thread that runs it      *)
(* (run_child_process of the runtime, run_supervised_command of the test   *)
(* kit and, through it, the CI driver), the threads that read its output   *)
(* and write its input, the leader and one descendant of its process tree, *)
(* and, in the runtime, the thread that cancels the scope and the thread   *)
(* that closes it.  The runtime keeps the child in a mutex as a resource   *)
(* of the scope, and whoever takes it out terminates it; the test kit owns *)
(* it and has a deadline.                                                  *)
(***************************************************************************)
EXTENDS Naturals

CONSTANTS
  Calls,      \* the calls considered: records [host, input, reads, ends, writes]
  MaxOutput   \* bound: chunks the leader writes to each of these streams

Streams == {"stdout", "stderr"}

ASSUME CallAssumption ==
  /\ MaxOutput \in Nat
  /\ Calls \subseteq [host  : {"runtime", "testkit"},
                      input : BOOLEAN,  \* stdin_bytes are to be written
                      reads : BOOLEAN,  \* the leader reads its input to the end
                      ends  : BOOLEAN,  \* the leader ends by itself
                      writes : SUBSET Streams]  \* and writes to these

VARIABLES
  call,         \* the call, chosen once
  runner,       \* where the running thread is
  outcome,      \* what it answers: "none" until it is known
  stopped,      \* was_cancelled, timed_out
  permit,       \* the process permit is held
  tidied,       \* the handles to close after the process are closed
  slot,         \* the child: "none", "local", "scoped" (in the mutex), or its taker
  leader,       \* the leader: "none", "running", "exited", "reaped", "killed"
  descendant,   \* its descendant: "none", "running", "detached", "gone"
  unwritten,    \* chunks the leader still writes, by stream
  full,         \* a chunk is in the pipe, by stream
  reader,       \* the reader threads, by stream
  writer,       \* the thread that writes the input
  asked,        \* the token is cancelled, or the deadline has passed
  canceller,    \* the thread that cancels the scope
  closer,       \* the thread that closes the scope
  unkillable    \* killing the tree failed

runnerVars == <<runner, outcome, stopped, permit, tidied>>
treeVars == <<leader, descendant, unwritten, full>>
threadVars == <<reader, writer>>
scopeVars == <<asked, canceller, closer>>
processVars ==
  <<call, runnerVars, slot, treeVars, threadVars, scopeVars, unkillable>>

ProcessInit ==
  /\ call \in Calls
  /\ runner = "admit" /\ outcome = "none" /\ stopped = FALSE
  /\ permit = FALSE /\ tidied = FALSE
  /\ slot = "none" /\ leader = "none" /\ descendant = "none"
  /\ unwritten = [s \in Streams |-> 0] /\ full = [s \in Streams |-> FALSE]
  /\ reader = [s \in Streams |-> "none"] /\ writer = "none"
  /\ asked = FALSE /\ canceller = "idle" /\ closer = "idle" /\ unkillable = FALSE

Runtime == call.host = "runtime"

(* The place the child must be in for the running thread to use it.        *)
Mine == slot = IF Runtime THEN "scoped" ELSE "local"

----------------------------------------------------------------------------
(* The running thread, up to the loop that waits.                          *)

Goto(place) == runner' = place /\ UNCHANGED <<outcome, stopped, permit, tidied>>

(* An error leaves the body: the handles are still to be closed.           *)
Fail(error) == runner' = "finish" /\ outcome' = error /\ UNCHANGED <<stopped, permit, tidied>>

(* acquire_process: the permit, or a resource-limit error at once.         *)
Admit ==
  /\ runner = "admit"
  /\ \/ runner' = "prepare" /\ permit' = Runtime /\ UNCHANGED outcome
     \/ Runtime /\ runner' = "done" /\ outcome' = "limit" /\ UNCHANGED permit
  /\ UNCHANGED <<call, stopped, tidied, slot, treeVars, threadVars, scopeVars, unkillable>>

(* The command cannot be resolved, a redirected handle is closed, a stream *)
(* is not allowed: the error returns before there is anything to tidy.     *)
PrepareFails ==
  /\ runner = "prepare"
  /\ runner' = "done" /\ outcome' = "io" /\ permit' = FALSE
  /\ UNCHANGED <<call, stopped, tidied, slot, treeVars, threadVars, scopeVars, unkillable>>

(* Mutant of Spawn: the permit covers the spawning only.                   *)
SpawnAndRelease ==
  /\ runner = "prepare"
  /\ runner' = "register" /\ permit' = FALSE
  /\ slot' = "local" /\ leader' = "running"
  /\ unwritten' = [s \in Streams |-> IF s \in call.writes THEN MaxOutput ELSE 0]
  /\ UNCHANGED <<call, outcome, stopped, tidied, descendant, full, threadVars,
                 scopeVars, unkillable>>

Spawn ==
  /\ runner = "prepare"
  /\ Goto("register")
  /\ slot' = "local" /\ leader' = "running"
  /\ unwritten' = [s \in Streams |-> IF s \in call.writes THEN MaxOutput ELSE 0]
  /\ UNCHANGED <<call, descendant, full, threadVars, scopeVars, unkillable>>

SpawnFails ==
  /\ runner = "prepare"
  /\ Fail("io")
  /\ UNCHANGED <<call, slot, treeVars, threadVars, scopeVars, unkillable>>

(* The child becomes a resource of the scope, if there is one.             *)
Register ==
  /\ runner = "register"
  /\ Goto("stdout")
  /\ slot' = IF Runtime THEN "scoped" ELSE "local"
  /\ UNCHANGED <<call, treeVars, threadVars, scopeVars, unkillable>>

(* take_stdout, take_stderr: a reader per pipe, none if the child is gone. *)
StartReader(s) ==
  /\ runner = s
  /\ Goto(IF s = "stdout" THEN "stderr" ELSE "stdin")
  /\ reader' = [reader EXCEPT ![s] = IF Mine THEN "reading" ELSE "none"]
  /\ UNCHANGED <<call, slot, treeVars, writer, scopeVars, unkillable>>

(* take_stdin: without the pipe the runtime answers an internal error.     *)
StartWriter ==
  /\ runner = "stdin"
  /\ IF call.input /\ ~Mine
       THEN Fail("internal") /\ UNCHANGED writer
       ELSE Goto("look") /\ writer' = (IF call.input THEN "writing" ELSE "none")
  /\ UNCHANGED <<call, slot, treeVars, reader, scopeVars, unkillable>>

----------------------------------------------------------------------------
(* The loop that waits, the termination, and what follows.                 *)

(* wait_timeout: the token is cancelled, or 2 ms have passed without.      *)
LookAtToken ==
  /\ Runtime /\ runner = "look"
  /\ IF asked
       THEN runner' = "terminate" /\ stopped' = TRUE
       ELSE runner' = "try" /\ UNCHANGED stopped
  /\ UNCHANGED <<call, outcome, permit, tidied, slot, treeVars, threadVars, scopeVars, unkillable>>

(* Mutant of TryWait: the readers are joined without closing the tree.     *)
TryWaitAndJoin ==
  /\ Runtime /\ runner = "try"
  /\ \/ ~Mine /\ Fail("closed")
     \/ Mine /\ Goto(IF leader = "exited" THEN "join_stdout" ELSE "look")
     \/ Mine /\ Fail("io")
  /\ UNCHANGED <<call, slot, treeVars, threadVars, scopeVars, unkillable>>

(* try_wait: the leader has exited, or has not, or the system answers an   *)
(* error and the child stays in the mutex; or the child has been taken.    *)
TryWait ==
  /\ Runtime /\ runner = "try"
  /\ \/ ~Mine /\ Fail("closed")
     \/ Mine /\ Goto(IF leader = "exited" THEN "terminate" ELSE "look")
     \/ Mine /\ Fail("io")
  /\ UNCHANGED <<call, slot, treeVars, threadVars, scopeVars, unkillable>>

(* Mutant of WaitUntil: the deadline is not waited for.                    *)
WaitOnce ==
  /\ ~Runtime /\ runner = "look"
  /\ runner' = "terminate" /\ stopped' = (leader # "exited")
  /\ UNCHANGED <<call, outcome, permit, tidied, slot, treeVars, threadVars, scopeVars, unkillable>>

(* wait_until looks at the leader first and at the deadline afterwards.    *)
WaitUntil ==
  /\ ~Runtime /\ runner = "look"
  /\ leader = "exited" \/ asked
  /\ runner' = "terminate" /\ stopped' = (leader # "exited")
  /\ UNCHANGED <<call, outcome, permit, tidied, slot, treeVars, threadVars, scopeVars, unkillable>>

(* terminate: the child is taken, then killed and waited for.              *)
TakeToTerminate ==
  /\ runner = "terminate"
  /\ IF Mine THEN Goto("kill") /\ slot' = "runner"
             ELSE Fail("closed") /\ UNCHANGED slot
  /\ UNCHANGED <<call, treeVars, threadVars, scopeVars, unkillable>>

(* Killing the group kills every process still in it and reaps the leader, *)
(* whether it had exited or is killed.                                     *)
Killed ==
  /\ leader' = IF leader = "running" THEN "killed" ELSE "reaped"
  /\ descendant' = IF descendant = "running" THEN "gone" ELSE descendant
  /\ UNCHANGED <<unwritten, full, unkillable>>

(* kill answers an error: the child is forgotten and not waited for.       *)
KillRefused ==
  /\ leader = "running" \/ descendant = "running"
  /\ unkillable' = TRUE
  /\ UNCHANGED treeVars

Kill ==
  /\ runner = "kill"
  /\ slot' = "none"
  /\ \/ Killed /\ Goto("join_stdout")
     \/ KillRefused /\ Fail("io")
  /\ UNCHANGED <<call, threadVars, scopeVars>>

(* Mutant of JoinReader: a reader that still reads is left behind.         *)
JoinNobody(s) ==
  /\ runner = (IF s = "stdout" THEN "join_stdout" ELSE "join_stderr")
  /\ Goto(IF s = "stdout" THEN "join_stderr" ELSE "join_stdin")
  /\ UNCHANGED <<call, slot, treeVars, threadVars, scopeVars, unkillable>>

(* join_process_reader, in order; the first error leaves the rest behind.  *)
JoinReader(s) ==
  /\ runner = (IF s = "stdout" THEN "join_stdout" ELSE "join_stderr")
  /\ reader[s] # "reading" /\ reader[s] # "draining"
  /\ CASE reader[s] = "over"   -> Fail("limit")
       [] reader[s] = "failed" -> Fail("io")
       [] OTHER -> Goto(IF s = "stdout" THEN "join_stderr" ELSE "join_stdin")
  /\ UNCHANGED <<call, slot, treeVars, threadVars, scopeVars, unkillable>>

JoinWriter ==
  /\ runner = "join_stdin" /\ writer # "writing"
  /\ Fail(IF writer = "broken" THEN "io"
          ELSE IF ~stopped THEN "ok"
          ELSE IF Runtime THEN "cancelled" ELSE "timed_out")
  /\ UNCHANGED <<call, slot, treeVars, threadVars, scopeVars, unkillable>>

(* finish_with_cleanup closes the handles, a failure of which turns an     *)
(* answer into an error; the permit is dropped.                            *)
Finish ==
  /\ runner = "finish"
  /\ runner' = "done" /\ permit' = FALSE /\ tidied' = Runtime
  /\ \/ UNCHANGED outcome
     \/ Runtime /\ outcome = "ok" /\ outcome' = "io"
  /\ UNCHANGED <<call, stopped, slot, treeVars, threadVars, scopeVars, unkillable>>

RunnerStep ==
  \/ Admit \/ PrepareFails \/ Spawn \/ SpawnFails \/ Register
  \/ (\E s \in Streams : StartReader(s) \/ JoinReader(s)) \/ StartWriter
  \/ LookAtToken \/ TryWait \/ WaitUntil \/ TakeToTerminate \/ Kill
  \/ JoinWriter \/ Finish

----------------------------------------------------------------------------
(* The process tree: not this project's code, anything it may do.          *)

(* A write waits while the pipe is full and somebody may still read it; a  *)
(* pipe nobody reads any more answers an error and takes nothing.          *)
Unread(s) == reader[s] \in {"over", "failed", "done"} \/ (reader[s] = "none" /\ slot = "none")

LeaderWrites(s) ==
  /\ leader = "running" /\ unwritten[s] > 0
  /\ ~full[s] \/ Unread(s)
  /\ unwritten' = [unwritten EXCEPT ![s] = @ - 1]
  /\ full' = [full EXCEPT ![s] = ~Unread(s)]
  /\ UNCHANGED <<call, runnerVars, slot, leader, descendant, threadVars, scopeVars, unkillable>>

(* The leader ends when it has written everything and read its input.      *)
LeaderEnds ==
  /\ leader = "running" /\ call.ends
  /\ \A s \in Streams : unwritten[s] = 0
  /\ call.input /\ call.reads => writer \in {"wrote", "broken"}
  /\ leader' = "exited"
  /\ UNCHANGED <<call, runnerVars, slot, descendant, unwritten, full,
                 threadVars, scopeVars, unkillable>>

(* Or it crashes, at any time.                                             *)
LeaderCrashes ==
  /\ leader = "running"
  /\ leader' = "exited"
  /\ UNCHANGED <<call, runnerVars, slot, descendant, unwritten, full,
                 threadVars, scopeVars, unkillable>>

(* A descendant inherits the pipes; it may leave the group, with setsid.   *)
Fork ==
  /\ leader = "running" /\ descendant = "none"
  /\ descendant' = "running"
  /\ UNCHANGED <<call, runnerVars, slot, leader, unwritten, full,
                 threadVars, scopeVars, unkillable>>

Detach ==
  /\ descendant = "running"
  /\ descendant' = "detached"
  /\ UNCHANGED <<call, runnerVars, slot, leader, unwritten, full,
                 threadVars, scopeVars, unkillable>>

DescendantEnds ==
  /\ descendant \in {"running", "detached"}
  /\ descendant' = "gone"
  /\ UNCHANGED <<call, runnerVars, slot, leader, unwritten, full,
                 threadVars, scopeVars, unkillable>>

TreeStep ==
  \/ (\E s \in Streams : LeaderWrites(s))
  \/ LeaderEnds \/ LeaderCrashes \/ Fork \/ Detach \/ DescendantEnds

(* Somebody still holds the other end of the pipes.                        *)
Held == leader = "running" \/ descendant \in {"running", "detached"}

----------------------------------------------------------------------------
(* The threads of the pipes.                                               *)

(* A chunk is kept, or it passes the capture limit of the runtime: from    *)
(* then on the reader drops what it reads, but reads on.                   *)
ReadChunk(s) ==
  /\ reader[s] \in {"reading", "draining"} /\ full[s]
  /\ full' = [full EXCEPT ![s] = FALSE]
  /\ \/ UNCHANGED reader
     \/ Runtime /\ reader' = [reader EXCEPT ![s] = "draining"]
  /\ UNCHANGED <<call, runnerVars, slot, leader, descendant, unwritten,
                 writer, scopeVars, unkillable>>

ReadEnd(s) ==
  /\ reader[s] \in {"reading", "draining"} /\ ~full[s] /\ ~Held
  /\ reader' = [reader EXCEPT ![s] = IF @ = "reading" THEN "done" ELSE "over"]
  /\ UNCHANGED <<call, runnerVars, slot, treeVars, writer, scopeVars, unkillable>>

(* Forwarding a chunk to the program's own output fails.                   *)
ForwardFails(s) ==
  /\ Runtime /\ reader[s] = "reading" /\ full[s]
  /\ full' = [full EXCEPT ![s] = FALSE]
  /\ reader' = [reader EXCEPT ![s] = "failed"]
  /\ UNCHANGED <<call, runnerVars, slot, leader, descendant, unwritten,
                 writer, scopeVars, unkillable>>

(* The input is written: read by the leader, or small enough for the pipe. *)
InputWritten ==
  /\ writer = "writing"
  /\ Held
  /\ writer' = "wrote"
  /\ UNCHANGED <<call, runnerVars, slot, treeVars, reader, scopeVars, unkillable>>

(* Nobody is left to read the input: the write answers an error.           *)
InputBroken ==
  /\ writer = "writing" /\ ~Held
  /\ writer' = "broken"
  /\ UNCHANGED <<call, runnerVars, slot, treeVars, reader, scopeVars, unkillable>>

ThreadStep ==
  \/ \E s \in Streams : ReadChunk(s) \/ ReadEnd(s) \/ ForwardFails(s)
  \/ InputWritten \/ InputBroken

----------------------------------------------------------------------------
(* The scope of the runtime, and the deadline of the test kit.             *)

(* cancel sets the token, and only then asks the registered resources; the *)
(* deadline of the test kit passes.                                        *)
Ask ==
  /\ ~asked /\ runner # "done"
  /\ asked' = TRUE /\ canceller' = (IF Runtime THEN "list" ELSE "done")
  /\ UNCHANGED <<call, runnerVars, slot, treeVars, threadVars, closer, unkillable>>

(* request_cancel lists the resources; a child not yet registered is left  *)
(* to the running thread, which has the token to look at.                  *)
ListResources ==
  /\ canceller = "list"
  /\ canceller' = IF slot \in {"none", "local"} THEN "done" ELSE "take"
  /\ UNCHANGED <<call, runnerVars, slot, treeVars, threadVars, asked, closer, unkillable>>

CancellerTakes ==
  /\ canceller = "take"
  /\ IF slot = "scoped" THEN canceller' = "kill" /\ slot' = "canceller"
                        ELSE canceller' = "done" /\ UNCHANGED slot
  /\ UNCHANGED <<call, runnerVars, treeVars, threadVars, asked, closer, unkillable>>

(* What terminate answers is ignored.                                      *)
CancellerKills ==
  /\ canceller = "kill"
  /\ canceller' = "done" /\ slot' = "none"
  /\ Killed \/ KillRefused
  /\ UNCHANGED <<call, runnerVars, threadVars, asked, closer>>

(* Mutant of CloseScope: the registered child is forgotten.                *)
CloseForgetting ==
  /\ Runtime /\ runner = "done" /\ closer = "idle"
  /\ closer' = "done"
  /\ UNCHANGED <<call, runnerVars, slot, treeVars, threadVars, asked, canceller, unkillable>>

(* The thread of the call closes the scope: a child that is still in the   *)
(* mutex is taken and killed, and a failure is reported.                   *)
CloseScope ==
  /\ Runtime /\ runner = "done" /\ closer = "idle"
  /\ IF slot = "scoped" THEN closer' = "terminate" ELSE closer' = "done"
  /\ UNCHANGED <<call, runnerVars, slot, treeVars, threadVars, asked, canceller, unkillable>>

CloserTakes ==
  /\ closer = "terminate"
  /\ IF slot = "scoped" THEN closer' = "kill" /\ slot' = "closer"
                        ELSE closer' = "failed" /\ UNCHANGED slot
  /\ UNCHANGED <<call, runnerVars, treeVars, threadVars, asked, canceller, unkillable>>

CloserKills ==
  /\ closer = "kill"
  /\ slot' = "none"
  /\ \/ Killed /\ closer' = "done"
     \/ KillRefused /\ closer' = "failed"
  /\ UNCHANGED <<call, runnerVars, threadVars, asked, canceller>>

ScopeStep ==
  \/ Ask \/ ListResources \/ CancellerTakes \/ CancellerKills
  \/ CloseScope \/ CloserTakes \/ CloserKills

ProcessNext == UNCHANGED call /\ (RunnerStep \/ TreeStep \/ ThreadStep \/ ScopeStep)

ProcessSpec == ProcessInit /\ [][ProcessNext]_processVars

(* The runtime's threads go on; a reader reads what arrives; a leader that *)
(* ends by itself writes, reads its input when it does, and ends.  Nobody  *)
(* has to crash, fork, detach, cancel or fail.                             *)
ProcessFairness ==
  /\ WF_processVars(RunnerStep)
  /\ \A s \in Streams : WF_processVars(ReadChunk(s)) /\ WF_processVars(ReadEnd(s))
  /\ \A s \in Streams : WF_processVars(LeaderWrites(s))
  /\ WF_processVars(LeaderEnds)
  /\ WF_processVars(InputBroken) /\ WF_processVars(call.reads /\ InputWritten)
  /\ WF_processVars(CancellerKills)

FairProcessSpec == ProcessSpec /\ ProcessFairness

----------------------------------------------------------------------------

Places == {"admit", "prepare", "register", "stdout", "stderr", "stdin", "look", "try",
           "terminate", "kill", "join_stdout", "join_stderr", "join_stdin", "finish", "done"}
Outcomes == {"none", "ok", "cancelled", "timed_out", "closed", "internal", "io", "limit"}
Slots == {"none", "local", "scoped", "runner", "canceller", "closer"}
LeaderStates == {"none", "running", "exited", "reaped", "killed"}
DescendantStates == {"none", "running", "detached", "gone"}
ReaderStates == {"none", "reading", "draining", "done", "over", "failed"}
WriterStates == {"none", "writing", "wrote", "broken"}
CancellerStates == {"idle", "list", "take", "kill", "done"}
CloserStates == {"idle", "terminate", "kill", "done", "failed"}

ProcessTypeOK ==
  /\ call \in Calls /\ runner \in Places /\ outcome \in Outcomes
  /\ stopped \in BOOLEAN /\ permit \in BOOLEAN /\ tidied \in BOOLEAN
  /\ slot \in Slots /\ leader \in LeaderStates /\ descendant \in DescendantStates
  /\ unwritten \in [Streams -> 0..MaxOutput] /\ full \in [Streams -> BOOLEAN]
  /\ reader \in [Streams -> ReaderStates] /\ writer \in WriterStates
  /\ asked \in BOOLEAN /\ unkillable \in BOOLEAN
  /\ canceller \in CancellerStates /\ closer \in CloserStates

(* Something of the tree lives, or has not been reaped.                    *)
Live == leader \in {"running", "exited"} \/ descendant = "running"

(* A process tree that lives always belongs to somebody who will terminate *)
(* it: the running thread, the mutex the scope can reach, or the thread    *)
(* that took it from there; once the scope is closed and no canceller is   *)
(* at work nothing is left.  Only a tree the system refused to kill is     *)
(* forgotten, and a descendant that left the group.                        *)
TreeOwned ==
  Live /\ ~unkillable =>
    /\ \/ slot = "local" /\ runner \notin {"finish", "done"}
       \/ slot = "scoped"
       \/ slot = "runner" /\ runner = "kill"
       \/ slot = "canceller" /\ canceller = "kill"
       \/ slot = "closer" /\ closer = "kill"
    /\ closer \in {"done", "failed"} => slot = "canceller"

(* The permit of run_child_process bounds the trees that live: one lives   *)
(* without it only while a canceller kills it, after the system refused to *)
(* kill it, or after a failed wait left it to the closing of the scope.    *)
PermitCovers ==
  Runtime /\ Live /\ ~permit =>
    \/ unkillable
    \/ slot = "canceller" /\ canceller = "kill"
    \/ slot \in {"scoped", "closer"} /\ outcome = "io"

(* An answer that is no error is whole: the leader ended by itself, every  *)
(* stream was read to its end, the input was written, and no thread is     *)
(* left behind; a cancelled or timed-out run leaves no thread behind       *)
(* either.  A chunk still in a pipe would be output the caller never sees. *)
Settled ==
  /\ outcome \in {"ok", "cancelled", "timed_out"} =>
       /\ \A s \in Streams : reader[s] = "done" /\ ~full[s]
       /\ writer # "writing" /\ slot = "none"
  /\ outcome = "ok" => leader = "reaped" /\ ~stopped

(* A run blames the scope only when the scope was cancelled: the answers   *)
(* "cancelled", "process tree is closed" and "stdin was unavailable" need  *)
(* a canceller, and a time-out a deadline that has passed.                 *)
BlamedForCause ==
  outcome \in {"cancelled", "timed_out", "closed", "internal"} => asked

(* A run returns when its leader ends, is cancelled or runs out of time,   *)
(* although the leader fills its pipes, ignores its input or leaves        *)
(* descendants that hold the pipes: only one that has left the process     *)
(* group can keep it waiting.                                              *)
RunReturns ==
  (call.ends \/ leader = "exited" \/ asked)
    ~> runner = "done" \/ descendant = "detached"

(* A child process is owned by someone, runs under its permit, and the     *)
(* answer about it is whole and for its cause (lib.rs:8009-8192).          *)
ProcessSound ==
  ProcessTypeOK /\ TreeOwned /\ PermitCovers /\ Settled /\ BlamedForCause
=============================================================================
