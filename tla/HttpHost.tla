------------------------------ MODULE HttpHost ------------------------------
(***************************************************************************)
(* The HTTP server: crates/hell-http-host/src/lib.rs and the part of       *)
(* crates/hell-runtime/src/native_http.rs that runs a guest on it.  The    *)
(* accept loop of serve_async spawns one task for each connection; hyper,  *)
(* polled by that task, reads heads and dispatches requests one after the  *)
(* other; each request has a pump task that moves its body into a channel, *)
(* a blocking thread that runs the guest and then perhaps produces the     *)
(* response, and a cancellation that the guest's token follows.            *)
(*                                                                         *)
(* A request belongs to its connection's record: the next head is read     *)
(* only when its pump and its response are over.  The thread of a response *)
(* of a known length may then still run: the connection's record keeps it. *)
(*                                                                         *)
(* Abstracted: bytes (a body is a number of chunks), headers, timing (a    *)
(* timeout may fire whenever it is armed), and the two steps of a cancel,  *)
(* which HostCancellation has.  hyper and tokio are external; a client may *)
(* stall for ever or leave at any moment, and a guest may run for ever.    *)
(***************************************************************************)
EXTENDS Naturals, Sequences, FiniteSets

CONSTANT
    Settings   \* what is considered, with its bounds: clients, the first few of
               \* them leaving; requests, the request_limit (0: none); slots,
               \* max_connections (0: none); connections and tasks, the limits
               \* of the budget; maxBody, in chunks; fewest and chunks, what a
               \* body has; streams and reads, whether guests stream and read;
               \* again, whether a connection is used for a second request, the
               \* last one; stops, whether Http.run is cancelled

Numbers == {"clients", "leaving", "requests", "slots", "connections", "tasks", "maxBody",
            "fewest", "chunks"}
Switches == {"streams", "reads", "again", "idle", "faults", "stops"}
ASSUME SettingsAssumption ==
    \A s \in Settings :
        /\ DOMAIN s = Numbers \cup Switches
        /\ \A n \in Numbers : s[n] \in Nat
        /\ \A b \in Switches : s[b] \in BOOLEAN

VARIABLES
    setting,    \* the one of Settings that runs
    server,     \* serve_async: where it is, and the semaphore permit it holds
    stop,       \* shutdown_requested, server_cancellation, abort_cancellation
    firstError, \* first_error: "disconnect" when it blames a client that left
    used,       \* semaphore permits, http connection and task permits taken
    completed,  \* completed_requests
    conn        \* each client's connection, with its current request

vars == <<setting, server, stop, firstError, used, completed, conn>>

Clients == 1..setting.clients
Capacity == 2     \* BODY_CHANNEL_CAPACITY
Lengths == 0..1   \* the known length of a response, in chunks

-----------------------------------------------------------------------------
(* The state of a request between two requests.                            *)
NoRequest ==
    [at |-> "idle", guard |-> FALSE, cancelled |-> FALSE, hooked |-> FALSE,
     app |-> "none", answer |-> "none", permit |-> FALSE, reader |-> FALSE,
     pump |-> "none", body |-> <<>>, unsent |-> 0, taken |-> 0,
     out |-> <<>>, sink |-> FALSE, sized |-> FALSE, left |-> 0, polled |-> FALSE,
     done |-> FALSE, cut |-> FALSE]

NoConnectionState ==
    [task |-> "unborn", gone |-> FALSE, started |-> FALSE, served |-> 0,
     phase |-> "head", fault |-> FALSE, lingers |-> FALSE]

NoConnection ==
    [k \in DOMAIN NoConnectionState \cup DOMAIN NoRequest |->
        IF k \in DOMAIN NoRequest THEN NoRequest[k] ELSE NoConnectionState[k]]

Init ==
    /\ setting \in Settings
    /\ server = [pc |-> "turn", permit |-> FALSE]
    /\ stop = [shutdown |-> FALSE, cancel |-> FALSE, abort |-> FALSE]
    /\ firstError = "none"
    /\ used = [slots |-> 0, connections |-> 0, tasks |-> 0]
    /\ completed = 0
    /\ conn = [c \in Clients |-> NoConnection]

Put(c, connection) == conn' = [conn EXCEPT ![c] = connection]

(* record_first_error keeps the first.                                     *)
Record(cause) == firstError' = IF firstError = "none" THEN cause ELSE firstError

Live(c) == conn[c].task \in {"open", "closing"}
AppOver(c) == conn[c].app \in {"none", "over"}
PumpOver(c) == conn[c].pump \in {"none", "over"}
Produced(answer) == answer \in {"stream", "sized"}

(* The guest's token: its scope is below the server's, whose cancellation  *)
(* is what shutdown_requested reports, and on_cancel ties it to the        *)
(* request.                                                                *)
TokenCancelled(c) == stop.shutdown \/ (conn[c].hooked /\ conn[c].cancelled)

-----------------------------------------------------------------------------
(* serve_async: the accept loop.                                           *)
Goto(pc) == server' = [server EXCEPT !.pc = pc]

Joined == [c \in Clients |->
    IF conn[c].task = "ended" THEN [conn[c] EXCEPT !.task = "joined"] ELSE conn[c]]

AtLimit == setting.requests # 0 /\ completed >= setting.requests

(* Mutant: the loop does not look at shutdown_requested.                   *)
TurnDeaf ==
    /\ server.pc = "turn"
    /\ \/ AtLimit /\ Goto("stop") /\ UNCHANGED <<stop, conn>>
       \/ /\ ~AtLimit /\ firstError # "none"
          /\ Goto("stop") /\ stop' = [stop EXCEPT !.abort = TRUE]
          /\ conn' = Joined
       \/ /\ ~AtLimit /\ firstError = "none"
          /\ Goto("permit") /\ UNCHANGED stop
          /\ conn' = Joined
    /\ UNCHANGED <<setting, firstError, used, completed>>

(* A turn of the loop up to its first await: shutdown and an error abort,  *)
(* the request limit only ends it; finished connections are reaped unless  *)
(* one of the first two has ended the loop.                                *)
Turn ==
    /\ server.pc = "turn"
    /\ \/ /\ stop.shutdown
          /\ Goto("stop") /\ stop' = [stop EXCEPT !.abort = TRUE]
          /\ UNCHANGED conn
       \/ /\ ~stop.shutdown /\ AtLimit
          /\ Goto("stop") /\ UNCHANGED <<stop, conn>>
       \/ /\ ~stop.shutdown /\ ~AtLimit /\ firstError # "none"
          /\ Goto("stop") /\ stop' = [stop EXCEPT !.abort = TRUE]
          /\ conn' = Joined
       \/ /\ ~stop.shutdown /\ ~AtLimit /\ firstError = "none"
          /\ Goto("permit") /\ UNCHANGED stop
          /\ conn' = Joined
    /\ UNCHANGED <<setting, firstError, used, completed>>

(* acquire_connection_permit waits for one poll interval.                  *)
AcquirePermit ==
    /\ server.pc = "permit"
    /\ setting.slots = 0 \/ used.slots < setting.slots
    /\ server' = [pc |-> "accept", permit |-> TRUE]
    /\ used' = [used EXCEPT !.slots = @ + 1]
    /\ UNCHANGED <<setting, stop, firstError, completed, conn>>

PermitRetry ==
    /\ server.pc = "permit"
    /\ Goto("turn")
    /\ UNCHANGED <<setting, stop, firstError, used, completed, conn>>

(* Nobody connects within the interval: the loop turns with its permit     *)
(* dropped.                                                                *)
AcceptRetry ==
    /\ server.pc = "accept"
    /\ server' = [pc |-> "turn", permit |-> FALSE]
    /\ used' = [used EXCEPT !.slots = @ - 1]
    /\ UNCHANGED <<setting, stop, firstError, completed, conn>>

(* The task takes over the permit; the loop goes on to its next turn.      *)
Accept(c) ==
    /\ server.pc = "accept"
    /\ conn[c].task = "knocking"
    /\ used.connections < setting.connections
    /\ server' = [pc |-> "turn", permit |-> FALSE]
    /\ used' = [used EXCEPT !.connections = @ + 1]
    /\ Put(c, [conn[c] EXCEPT !.task = "open"])
    /\ UNCHANGED <<setting, stop, firstError, completed>>

(* acquire_connection is refused: the error leaves serve_async at once,    *)
(* without a cancellation and without waiting for a connection.            *)
AcceptRefused(c) ==
    /\ server.pc = "accept"
    /\ conn[c].task = "knocking"
    /\ used.connections >= setting.connections
    /\ server' = [pc |-> "leave", permit |-> FALSE]
    /\ used' = [used EXCEPT !.slots = @ - 1]
    /\ Put(c, [conn[c] EXCEPT !.task = "joined"])
    /\ Record("error")
    /\ UNCHANGED <<setting, stop, completed>>

Stop ==
    /\ server.pc = "stop"
    /\ stop' = [stop EXCEPT !.cancel = TRUE]
    /\ Goto("cleanup")
    /\ UNCHANGED <<setting, firstError, used, completed, conn>>

AllJoined(connections) ==
    \A c \in Clients : connections[c].task \in {"unborn", "knocking", "joined"}

(* join_next, until the set is empty.                                      *)
Cleanup ==
    /\ server.pc \in {"cleanup", "abort"}
    /\ conn' = Joined
    /\ IF AllJoined(conn') THEN
         /\ Goto("leave")
         /\ IF server.pc = "abort" THEN Record("error") ELSE UNCHANGED firstError
       ELSE UNCHANGED <<server, firstError>>
    /\ UNCHANGED <<setting, stop, used, completed>>

(* graceful_shutdown elapses: abort_all drops every connection where it    *)
(* stands.                                                                 *)
CleanupDeadline ==
    /\ server.pc = "cleanup"
    /\ ~AllJoined(conn)
    /\ conn' = [c \in Clients |->
         IF Live(c) THEN [conn[c] EXCEPT !.task = "dropping"] ELSE conn[c]]
    /\ Goto("abort")
    /\ UNCHANGED <<setting, stop, firstError, used, completed>>

(* block_on is over and the runtime is dropped: tasks that still run are   *)
(* dropped at their next await, and blocking work that has not started     *)
(* never will.                                                             *)
DropTasks(c) ==
    /\ server.pc = "leave"
    /\ LET x == conn[c]
           dropped == [x EXCEPT !.task = IF Live(c) THEN "dropping" ELSE @,
                                !.pump = IF PumpOver(c) THEN @ ELSE "over",
                                !.app = IF @ = "queued" THEN "over" ELSE @,
                                !.reader = @ /\ x.app # "queued"]
       IN dropped # x /\ Put(c, dropped)
    /\ UNCHANGED <<setting, server, stop, firstError, used, completed>>

Settled(c) ==
    /\ conn[c].task \in {"unborn", "knocking", "ended", "joined"}
    /\ PumpOver(c) /\ AppOver(c) /\ ~conn[c].lingers

(* Dropping the runtime waits for the blocking threads; then the server's  *)
(* scope is closed.                                                        *)
Leave ==
    /\ server.pc = "leave"
    /\ \A c \in Clients : Settled(c)
    /\ Goto("returned")
    /\ UNCHANGED <<setting, stop, firstError, used, completed, conn>>

Serve ==
    \/ Turn \/ AcquirePermit \/ PermitRetry \/ AcceptRetry
    \/ (\E c \in Clients : Accept(c) \/ AcceptRefused(c))
    \/ Stop \/ Cleanup \/ CleanupDeadline
    \/ (\E c \in Clients : DropTasks(c))
    \/ Leave
-----------------------------------------------------------------------------
(* serve_connection.  The head of a request is read in the ingress phase   *)
(* "head" only; a graceful shutdown refuses any head but the first.        *)
HeadReadable(c) ==
    LET x == conn[c] IN
    /\ ~x.gone /\ x.at = "idle" /\ x.phase = "head" /\ ~x.done
    /\ x.task = "open" \/ (x.task = "closing" /\ x.served = 0)

(* dispatch_request: the request is registered, and after the checks of    *)
(* its framing and its limits gets a pump and a blocking thread.           *)
Dispatch(c, size) ==
    LET x == conn[c] IN
    /\ HeadReadable(c)
    /\ x.served = 0 \/ (setting.again /\ x.served = 1)
    /\ Put(c, [x EXCEPT !.at = "calling", !.guard = TRUE, !.served = x.served + 1,
               !.app = "queued", !.reader = TRUE, !.pump = "reading", !.unsent = size,
               !.phase = IF size = 0 THEN "await" ELSE "body"])
    /\ UNCHANGED <<setting, server, stop, firstError, used, completed>>

(* Bytes that are no request, and a request refused by those checks: the   *)
(* error is recorded where it is found, and ends the connection.           *)
Refuse(c) ==
    /\ setting.faults /\ HeadReadable(c)
    /\ Record("error")
    /\ Put(c, [conn[c] EXCEPT !.task = "dropping", !.fault = TRUE])
    /\ UNCHANGED <<setting, server, stop, used, completed>>

(* poll_idle_timeout: nothing has moved on the socket for too long.        *)
IdleTimeout(c) ==
    /\ setting.idle /\ Live(c)
    /\ Record("error")
    /\ Put(c, [conn[c] EXCEPT !.task = "dropping", !.fault = TRUE])
    /\ UNCHANGED <<setting, server, stop, used, completed>>

(* The application's answer becomes the response: nothing, bytes, a        *)
(* chunked stream, or a file or stream of a known length.  Only nothing    *)
(* is complete before it is polled.  An Err cancels the request and ends   *)
(* the connection, as do headers that cannot be sent, which drop what      *)
(* would have produced the body.                                           *)
Respond(c, length) ==
    LET x == conn[c] IN
    /\ Live(c) /\ x.at = "calling" /\ x.app = "returned" /\ x.answer # "failed"
    /\ Put(c, [x EXCEPT !.at = "responding", !.started = TRUE, !.answer = "none",
               !.app = IF Produced(x.answer) THEN "producing" ELSE "over",
               !.sink = Produced(x.answer),
               !.out = IF x.answer = "fixed" /\ length > 0 THEN <<"data">> ELSE <<>>,
               !.sized = x.answer # "stream",
               !.left = IF x.answer = "sized" THEN length ELSE 0,
               !.polled = x.answer = "empty"])
    /\ UNCHANGED <<setting, server, stop, firstError, used, completed>>

Release(x) == [used EXCEPT !.tasks = @ - (IF x.permit THEN 1 ELSE 0)]

RespondInvalid(c) ==
    LET x == conn[c] IN
    /\ Live(c) /\ x.at = "calling" /\ x.app = "returned" /\ x.answer # "failed"
    /\ Record("error")
    /\ used' = Release(x)
    /\ Put(c, [x EXCEPT !.at = "idle", !.guard = FALSE, !.app = "over", !.answer = "none",
               !.hooked = FALSE, !.permit = FALSE, !.reader = FALSE,
               !.task = "dropping", !.fault = TRUE])
    /\ UNCHANGED <<setting, server, stop, completed>>

RespondFailed(c) ==
    LET x == conn[c] IN
    /\ Live(c) /\ x.at = "calling" /\ x.app = "returned" /\ x.answer = "failed"
    /\ Record("error")
    /\ Put(c, [x EXCEPT !.at = "idle", !.guard = FALSE, !.cancelled = TRUE, !.app = "over",
               !.answer = "none", !.task = "dropping", !.fault = TRUE])
    /\ UNCHANGED <<setting, server, stop, used, completed>>

(* Mutant: the requests are cancelled whatever ended the loop.             *)
EndingCancels(c) ==
    LET x == conn[c] IN
    /\ x.task = "open"
    /\ stop.cancel \/ stop.shutdown
    /\ Put(c, [x EXCEPT !.task = "closing", !.cancelled = x.cancelled \/ x.guard])
    /\ UNCHANGED <<setting, server, stop, firstError, used, completed>>

(* Every poll interval the task looks at the cancellations.  The requests  *)
(* are cancelled when the server is shut down or aborted, not when it only *)
(* ends at its request limit.                                              *)
Ending(c) ==
    LET x == conn[c] IN
    /\ x.task = "open"
    /\ stop.cancel \/ stop.shutdown
    /\ Put(c, [x EXCEPT !.task = "closing",
               !.cancelled = x.cancelled \/ (x.guard /\ (stop.abort \/ stop.shutdown))])
    /\ UNCHANGED <<setting, server, stop, firstError, used, completed>>

(* What is left of a body when its pump ends early: the last chunk may     *)
(* already be with hyper, or hyper looks once for more.  The phase is then *)
(* "head", and what it gets is read, and may be refused, as a head.        *)
RestArrived(c) ==
    LET x == conn[c] IN
    /\ Live(c) /\ x.pump = "over" /\ x.unsent = 1
    /\ Put(c, [x EXCEPT !.unsent = 0])
    /\ UNCHANGED <<setting, server, stop, firstError, used, completed>>

RestRefused(c) ==
    LET x == conn[c] IN
    /\ Live(c) /\ ~x.gone /\ x.pump = "over" /\ x.unsent > 0
    /\ Record("error")
    /\ UNCHANGED <<setting, server, stop, used, completed, conn>>

(* hyper ends a closing connection once no request is in flight, any       *)
(* connection whose request left an unread body, and an idle one its       *)
(* client has left.                                                        *)
Finish(c) ==
    LET x == conn[c] IN
    /\ Live(c) /\ x.at = "idle"
    /\ x.task = "closing" \/ x.gone \/ (x.unsent > 0 /\ PumpOver(c))
    /\ Put(c, [x EXCEPT !.task = "dropping"])
    /\ UNCHANGED <<setting, server, stop, firstError, used, completed>>

(* hyper notices that the client has left: while it may read ("await"      *)
(* keeps it from reading), or when it writes.  It is an error unless a     *)
(* response has been started on this connection.                           *)
NoticeLeft(c) ==
    LET x == conn[c] IN
    /\ Live(c) /\ x.gone
    /\ \/ x.at = "calling" /\ x.phase = "head"
       \/ x.at = "responding" /\ (x.phase = "head" \/ x.out # <<>>)
    /\ Put(c, [x EXCEPT !.task = "dropping", !.fault = ~x.started])
    /\ UNCHANGED <<setting, server, stop, firstError, used, completed>>

(* The deadline of the graceful shutdown: `?` leaves before cancel_all.    *)
ConnectionDeadline(c) ==
    /\ conn[c].task = "closing"
    /\ Put(c, [conn[c] EXCEPT !.task = "dropping", !.fault = TRUE])
    /\ UNCHANGED <<setting, server, stop, firstError, used, completed>>

(* The future of the connection is dropped, and with it the request's      *)
(* guard: cancel_all, which comes after it, finds no request.  A result    *)
(* that the application still owes is dropped when it comes.               *)
DropCall(c) ==
    LET x == conn[c] IN
    /\ x.task = "dropping" /\ x.at = "calling"
    /\ IF x.app = "returned" THEN
         /\ used' = Release(x)
         /\ Put(c, [x EXCEPT !.at = "idle", !.guard = FALSE, !.app = "over", !.answer = "none",
                    !.hooked = FALSE, !.permit = FALSE, !.reader = FALSE])
       ELSE
         /\ Put(c, [x EXCEPT !.at = "idle", !.guard = FALSE])
         /\ UNCHANGED used
    /\ UNCHANGED <<setting, server, stop, firstError, completed>>

(* The connection's task ends: its permits are dropped, its error kept,    *)
(* and nothing else of the connection is left.                             *)
EndTask(c) ==
    LET x == conn[c] IN
    /\ x.task = "dropping" /\ x.at = "idle"
    /\ IF x.fault THEN Record("error") ELSE UNCHANGED firstError
    /\ used' = [used EXCEPT !.slots = @ - 1, !.connections = @ - 1]
    /\ Put(c, [x EXCEPT !.task = "ended", !.gone = FALSE, !.started = FALSE, !.served = 0,
               !.phase = "head", !.fault = FALSE, !.unsent = 0])
    /\ UNCHANGED <<setting, server, stop, completed>>

-----------------------------------------------------------------------------
(* EngineBody: what hyper polls and, whenever it likes, drops.  A body of  *)
(* a known length is over for hyper when its last chunk is taken, be it    *)
(* at its end or not.                                                      *)
Written(c) ==
    LET x == conn[c] IN
    x.polled \/ (x.sized /\ x.left = 0 /\ \A i \in 1..Len(x.out) : x.out[i] # "data")

TakeMessage(c) ==
    LET x == conn[c] IN
    /\ Live(c) /\ x.at = "responding" /\ x.out # <<>> /\ ~Written(c)
    /\ CASE Head(x.out) = "data" ->
              Put(c, [x EXCEPT !.out = Tail(x.out), !.polled = ~x.sink])
         [] Head(x.out) = "flush" -> Put(c, [x EXCEPT !.out = Tail(x.out)])
         [] Head(x.out) = "error" -> Put(c, [x EXCEPT !.task = "dropping", !.fault = TRUE])
    /\ UNCHANGED <<setting, server, stop, firstError, used, completed>>

(* The producer is gone and its channel empty: the body is complete, or it *)
(* is shorter than was announced, which ends the connection.               *)
EndOfBody(c) ==
    LET x == conn[c] IN
    /\ Live(c) /\ x.at = "responding" /\ ~Written(c)
    /\ x.sink /\ x.out = <<>> /\ AppOver(c)
    /\ Put(c, IF x.sized THEN [x EXCEPT !.polled = TRUE, !.task = "dropping", !.fault = TRUE]
              ELSE [x EXCEPT !.polled = TRUE])
    /\ UNCHANGED <<setting, server, stop, firstError, used, completed>>

(* Mutant: an incomplete body does not cancel its request.                 *)
DropBodyUncancelled(c) ==
    LET x == conn[c] IN
    /\ x.at = "responding" /\ (Written(c) \/ x.task = "dropping")
    /\ Put(c, [x EXCEPT !.at = "dropped", !.done = Written(c)])
    /\ completed' = completed + 1
    /\ UNCHANGED <<setting, server, stop, firstError, used>>

(* Drop for EngineBody, then the drop of its fields: a body that was not   *)
(* polled to its end cancels its request before its channel closes, also   *)
(* when hyper dropped it because its known length was reached.             *)
DropBody(c) ==
    LET x == conn[c] IN
    /\ x.at = "responding" /\ (Written(c) \/ x.task = "dropping")
    /\ Put(c, [x EXCEPT !.at = "dropped", !.done = Written(c),
               !.cancelled = x.cancelled \/ ~x.polled])
    /\ completed' = completed + 1
    /\ UNCHANGED <<setting, server, stop, firstError, used>>

CloseBody(c) ==
    /\ conn[c].at = "dropped"
    /\ Put(c, [conn[c] EXCEPT !.at = "idle", !.guard = FALSE, !.sink = FALSE, !.out = <<>>])
    /\ UNCHANGED <<setting, server, stop, firstError, used, completed>>

(* The connection is kept alive: its next request starts afresh.  The      *)
(* thread that produced the last response may not have seen its end, and   *)
(* still hold its permit.                                                  *)
KeepAlive(c) ==
    LET x == conn[c] IN
    /\ x.task = "open" /\ x.at = "idle" /\ x.done
    /\ x.unsent = 0 /\ x.pump = "over" /\ ~(x.lingers /\ x.permit)
    /\ Put(c, [k \in DOMAIN x |-> CASE k = "lingers" -> x.lingers \/ x.permit
                                    [] k \in DOMAIN NoRequest -> NoRequest[k]
                                    [] OTHER -> x[k]])
    /\ UNCHANGED <<setting, server, stop, firstError, used, completed>>

Connection(c) ==
    \/ (\E length \in Lengths : Respond(c, length)) \/ RespondFailed(c) \/ Ending(c)
    \/ Finish(c) \/ NoticeLeft(c) \/ ConnectionDeadline(c) \/ DropCall(c)
    \/ EndTask(c) \/ EndOfBody(c) \/ DropBody(c) \/ CloseBody(c) \/ KeepAlive(c)

-----------------------------------------------------------------------------
(* pump_request_body.  A chunk arrives when hyper may read.                *)
PumpCancelled(c) ==
    LET x == conn[c] IN
    /\ x.pump = "reading" /\ x.cancelled
    /\ Put(c, [x EXCEPT !.pump = "over", !.phase = "head"])
    /\ UNCHANGED <<setting, server, stop, firstError, used, completed>>

PumpFrame(c) ==
    LET x == conn[c] IN
    /\ x.pump = "reading" /\ Live(c) /\ ~x.gone /\ x.unsent > 0
    /\ Put(c, [x EXCEPT !.unsent = x.unsent - 1, !.taken = x.taken + 1,
               !.phase = IF x.unsent = 1 THEN "await" ELSE "body",
               !.pump = IF x.taken + 1 > setting.maxBody THEN "failing" ELSE "sending"])
    /\ UNCHANGED <<setting, server, stop, firstError, used, completed>>

(* Mutants: the channel is unbounded; the pump ends with its reader.       *)
PumpSendUnbounded(c) ==
    LET x == conn[c] IN
    /\ x.pump = "sending"
    /\ Put(c, [x EXCEPT !.pump = "reading",
               !.body = IF x.reader THEN Append(x.body, "data") ELSE x.body])
    /\ UNCHANGED <<setting, server, stop, firstError, used, completed>>

PumpSendStops(c) ==
    LET x == conn[c] IN
    /\ x.pump = "sending"
    /\ ~x.reader \/ Len(x.body) < Capacity
    /\ Put(c, IF x.reader THEN [x EXCEPT !.pump = "reading", !.body = Append(x.body, "data")]
              ELSE [x EXCEPT !.pump = "over", !.phase = "head"])
    /\ UNCHANGED <<setting, server, stop, firstError, used, completed>>

(* An application that no longer reads does not stop the pump: the rest of *)
(* the body is taken off the connection.                                   *)
PumpSend(c) ==
    LET x == conn[c] IN
    /\ x.pump = "sending"
    /\ ~x.reader \/ Len(x.body) < Capacity
    /\ Put(c, [x EXCEPT !.pump = "reading",
               !.body = IF x.reader THEN Append(x.body, "data") ELSE x.body])
    /\ UNCHANGED <<setting, server, stop, firstError, used, completed>>

(* Mutant: a body that breaks off is taken for one that ends.              *)
PumpBrokenQuietly(c) ==
    LET x == conn[c] IN
    /\ x.pump = "reading" /\ Live(c) /\ x.gone /\ x.unsent > 0
    /\ Put(c, [x EXCEPT !.pump = "over", !.phase = "head"])
    /\ UNCHANGED <<setting, server, stop, firstError, used, completed>>

(* The body breaks off: the client left in the middle of it.               *)
PumpBroken(c) ==
    LET x == conn[c] IN
    /\ x.pump = "reading" /\ Live(c) /\ x.gone /\ x.unsent > 0
    /\ Put(c, [x EXCEPT !.pump = "failing"])
    /\ UNCHANGED <<setting, server, stop, firstError, used, completed>>

PumpFail(c) ==
    LET x == conn[c] IN
    /\ x.pump = "failing"
    /\ ~x.reader \/ Len(x.body) < Capacity
    /\ Put(c, [x EXCEPT !.pump = "over", !.phase = "head", !.cancelled = TRUE,
               !.body = IF x.reader THEN Append(x.body, "error") ELSE x.body])
    /\ UNCHANGED <<setting, server, stop, firstError, used, completed>>

(* No frame is left, or the connection was dropped with the body's source. *)
PumpEnd(c) ==
    LET x == conn[c] IN
    /\ x.pump = "reading"
    /\ x.unsent = 0 \/ ~Live(c)
    /\ Put(c, [x EXCEPT !.pump = "over", !.phase = "head"])
    /\ UNCHANGED <<setting, server, stop, firstError, used, completed>>

Pump(c) ==
    \/ PumpCancelled(c) \/ PumpSend(c) \/ PumpBroken(c) \/ PumpFail(c) \/ PumpEnd(c)

(* Mutant: a stream's permit is kept although nobody takes the result.     *)
ReturnKeepsPermit(c, answer) ==
    LET x == conn[c]
        keeps == Produced(answer)
    IN
    /\ Put(c, [x EXCEPT !.app = IF x.at = "calling" THEN "returned" ELSE "over",
               !.answer = IF x.at = "calling" THEN answer ELSE "none",
               !.hooked = keeps /\ x.hooked, !.permit = keeps, !.reader = keeps])
    /\ used' = IF keeps THEN used ELSE Release(x)
    /\ UNCHANGED <<setting, server, stop, firstError, completed>>

-----------------------------------------------------------------------------
(* The call returns.  A failed one and one whose bytes are all there close *)
(* their scope and drop their permit; a producer takes both along.  When the *)
(* connection is gone nobody takes the result, and it is dropped.          *)
Return(c, answer) ==
    LET x == conn[c]
        keeps == Produced(answer) /\ x.at = "calling"
    IN
    /\ Put(c, [x EXCEPT !.app = IF x.at = "calling" THEN "returned" ELSE "over",
               !.answer = IF x.at = "calling" THEN answer ELSE "none",
               !.hooked = keeps /\ x.hooked, !.permit = keeps, !.reader = keeps])
    /\ used' = IF keeps THEN used ELSE Release(x)
    /\ UNCHANGED <<setting, server, stop, firstError, completed>>

(* Mutant: the guest's token is not tied to the request's cancellation.    *)
AppStartUntied(c) ==
    /\ conn[c].app = "queued"
    /\ used.tasks < setting.tasks
    /\ Put(c, [conn[c] EXCEPT !.app = "running", !.permit = TRUE])
    /\ used' = [used EXCEPT !.tasks = @ + 1]
    /\ UNCHANGED <<setting, server, stop, firstError, completed>>

(* RuntimeHttpApplication::call, on a blocking thread: a task permit, a    *)
(* scope below the server's, and its cancellation tied to the request's.   *)
AppStart(c) ==
    /\ conn[c].app = "queued"
    /\ used.tasks < setting.tasks
    /\ Put(c, [conn[c] EXCEPT !.app = "running", !.permit = TRUE, !.hooked = TRUE])
    /\ used' = [used EXCEPT !.tasks = @ + 1]
    /\ UNCHANGED <<setting, server, stop, firstError, completed>>

AppRefused(c) ==
    /\ conn[c].app = "queued"
    /\ used.tasks >= setting.tasks
    /\ Return(c, "failed")

(* RequestBody::next_chunk looks at the cancellation once and then blocks. *)
NextChunk(c) ==
    LET x == conn[c] IN
    /\ setting.reads /\ x.app = "running" /\ ~TokenCancelled(c) /\ ~x.cut
    /\ Put(c, [x EXCEPT !.app = IF x.cancelled THEN "failing" ELSE "reading"])
    /\ UNCHANGED <<setting, server, stop, firstError, used, completed>>

(* The channel is empty and its sender gone: to the guest that is the end. *)
Received(c) ==
    LET x == conn[c] IN
    /\ x.app = "reading"
    /\ IF x.body # <<>>
       THEN Put(c, [x EXCEPT !.app = IF Head(x.body) = "error" THEN "failing" ELSE "running",
                    !.body = Tail(x.body)])
       ELSE PumpOver(c) /\ Put(c, [x EXCEPT !.app = "running", !.cut = TRUE])
    /\ UNCHANGED <<setting, server, stop, firstError, used, completed>>

Answer(c) ==
    /\ conn[c].app = "running"
    /\ ~TokenCancelled(c)
    /\ \/ \E answer \in {"empty", "fixed", "failed"} : Return(c, answer)
       \/ setting.streams /\ \E answer \in {"stream", "sized"} : Return(c, answer)

(* An error of the guest, or its next safepoint after the cancellation.    *)
Interrupted(c) ==
    /\ \/ conn[c].app = "failing"
       \/ conn[c].app = "running" /\ TokenCancelled(c)
    /\ Return(c, "failed")

(* The producers: a file, or a guest's callback that writes and flushes,   *)
(* then ends well or badly; badly also when it has written more or less    *)
(* than it announced.  A send that finds the channel closed fails.         *)
Write(c) ==
    LET x == conn[c] IN
    /\ x.app = "producing" /\ ~TokenCancelled(c) /\ (x.sized => x.left > 0)
    /\ Put(c, [x EXCEPT !.app = IF x.cancelled THEN "stopping" ELSE "sending"])
    /\ UNCHANGED <<setting, server, stop, firstError, used, completed>>

FlushOut(c) ==
    /\ conn[c].app = "producing" /\ ~TokenCancelled(c)
    /\ Put(c, [conn[c] EXCEPT !.app = "flushing"])
    /\ UNCHANGED <<setting, server, stop, firstError, used, completed>>

SinkError(c) == IF conn[c].cancelled THEN "stopping" ELSE "disconnected"

(* BodySink::send and flush: bounded, and waiting for the engine.          *)
Send(c, message, next) ==
    LET x == conn[c] IN
    /\ ~x.sink \/ Len(x.out) < Capacity
    /\ Put(c, IF x.sink THEN [x EXCEPT !.app = next, !.out = Append(x.out, message),
                                       !.left = IF message = "data" /\ x.sized THEN @ - 1 ELSE @]
              ELSE [x EXCEPT !.app = SinkError(c)])
    /\ UNCHANGED <<setting, server, stop, firstError, used, completed>>

SendData(c) == conn[c].app = "sending" /\ Send(c, "data", "producing")
SendFlush(c) == conn[c].app = "flushing" /\ Send(c, "flush", "acking")

Acked(c) ==
    LET x == conn[c] IN
    /\ x.app = "acking"
    /\ ~x.sink \/ "flush" \notin {x.out[i] : i \in 1..Len(x.out)}
    /\ Put(c, [x EXCEPT !.app = IF x.sink THEN "producing" ELSE SinkError(c)])
    /\ UNCHANGED <<setting, server, stop, firstError, used, completed>>

(* The producer, with its scope and its permit, ends: without an error, or *)
(* with one that is recorded and then sent to the connection.              *)
Ended(c, next) ==
    /\ used' = Release(conn[c])
    /\ Put(c, [conn[c] EXCEPT !.app = next, !.hooked = FALSE, !.permit = FALSE, !.reader = FALSE])
    /\ UNCHANGED <<setting, server, stop, completed>>

ProduceOk(c) ==
    /\ conn[c].app = "producing" /\ conn[c].left = 0
    /\ Ended(c, "over") /\ UNCHANGED firstError

ProduceErr(c) == conn[c].app = "producing" /\ Ended(c, "reporting") /\ Record("error")

(* finish_body_production: a cancellation is no error when the request was *)
(* cancelled; one that came from the server's scope alone is.              *)
ProduceCancelled(c) ==
    LET x == conn[c] IN
    /\ x.app = "stopping" \/ (x.app = "producing" /\ TokenCancelled(c))
    /\ IF x.cancelled THEN Ended(c, "over") /\ UNCHANGED firstError
       ELSE Ended(c, "reporting") /\ Record("error")

ProduceDisconnected(c) ==
    /\ conn[c].app = "disconnected"
    /\ Ended(c, "reporting") /\ Record("disconnect")

SendError(c) == conn[c].app = "reporting" /\
    LET x == conn[c] IN
    /\ ~x.sink \/ Len(x.out) < Capacity
    /\ Put(c, [x EXCEPT !.app = "over", !.out = IF x.sink THEN Append(x.out, "error") ELSE x.out])
    /\ UNCHANGED <<setting, server, stop, firstError, used, completed>>

(* A producer of an earlier request, which was cancelled, ends: at its     *)
(* guest's next safepoint, well, or with an error of its own.              *)
LingererEnds(c) ==
    LET x == conn[c] IN
    /\ x.lingers
    /\ used' = [used EXCEPT !.tasks = @ - 1]
    /\ Put(c, [x EXCEPT !.lingers = FALSE])
    /\ UNCHANGED firstError \/ Record("error")
    /\ UNCHANGED <<setting, server, stop, completed>>

(* What a blocking thread does by itself, and what its guest chooses.      *)
Thread(c) ==
    \/ AppStart(c) \/ AppRefused(c) \/ Received(c) \/ Interrupted(c)
    \/ SendData(c) \/ SendFlush(c) \/ Acked(c)
    \/ ProduceCancelled(c) \/ ProduceDisconnected(c) \/ SendError(c) \/ LingererEnds(c)

Guest(c) ==
    \/ NextChunk(c) \/ Answer(c) \/ Write(c) \/ FlushOut(c)
    \/ ProduceOk(c) \/ ProduceErr(c)

-----------------------------------------------------------------------------
(* The clients and the owner of the server.                                *)
Connect(c) ==
    /\ conn[c].task = "unborn" /\ server.pc # "returned"
    /\ Put(c, [conn[c] EXCEPT !.task = "knocking"])
    /\ UNCHANGED <<setting, server, stop, firstError, used, completed>>

ClientLeaves(c) ==
    /\ c <= setting.leaving /\ Live(c) /\ ~conn[c].gone
    /\ Put(c, [conn[c] EXCEPT !.gone = TRUE])
    /\ UNCHANGED <<setting, server, stop, firstError, used, completed>>

Shutdown ==
    /\ setting.stops /\ ~stop.shutdown /\ server.pc # "returned"
    /\ stop' = [stop EXCEPT !.shutdown = TRUE]
    /\ UNCHANGED <<setting, server, firstError, used, completed, conn>>

Client(c) ==
    \/ Connect(c) \/ ClientLeaves(c) \/ Refuse(c) \/ IdleTimeout(c) \/ RespondInvalid(c)
    \/ TakeMessage(c) \/ PumpFrame(c) \/ RestArrived(c) \/ RestRefused(c)
    \/ (\E size \in {0} \cup (setting.fewest..setting.chunks) : Dispatch(c, size))

Next ==
    \/ Serve \/ Shutdown
    \/ \E c \in Clients : Connection(c) \/ Pump(c) \/ Thread(c) \/ Guest(c) \/ Client(c)

Spec == Init /\ [][Next]_vars

(* tokio polls every task and timer, hyper notices a client that left, and *)
(* a blocking thread goes on when what it waits for has happened.  Nothing *)
(* is assumed of clients that stall, and nothing of what a guest chooses.  *)
AllClients == UNION {1..s.clients : s \in Settings}
FairSpec ==
    /\ Spec
    /\ WF_vars(Serve)
    /\ \A c \in AllClients :
         /\ WF_vars(c \in Clients /\ Connection(c))
         /\ WF_vars(c \in Clients /\ Pump(c))
         /\ WF_vars(c \in Clients /\ Thread(c))

-----------------------------------------------------------------------------
Running == {c \in Clients : conn[c].task \in {"open", "closing", "dropping"}}

TypeOK ==
    /\ server.pc \in {"turn", "permit", "accept", "stop",
                      "cleanup", "abort", "leave", "returned"}
    /\ firstError \in {"none", "error", "disconnect"}
    /\ \A c \in Clients :
         /\ DOMAIN conn[c] = DOMAIN NoConnection
         /\ Len(conn[c].body) <= Capacity /\ Len(conn[c].out) <= Capacity
         /\ conn[c].unsent \in 0..setting.chunks
         /\ conn[c].taken <= setting.maxBody + 1
    /\ used.connections <= setting.connections /\ used.tasks <= setting.tasks
    /\ setting.slots # 0 => used.slots <= setting.slots

(* Every permit is held by exactly one thing that will give it back: the   *)
(* accept loop or a connection's task, however it ends, hold a semaphore   *)
(* permit; a request's thread, the response it returned, or the producer   *)
(* that has outlived its response, a task permit.  So when Http.run has    *)
(* returned all are back and no thread runs (lib.rs:297-412,               *)
(* native_http.rs:301-364).                                                *)
Accounted ==
    /\ used.slots = Cardinality(Running) + (IF server.permit THEN 1 ELSE 0)
    /\ used.connections = Cardinality(Running)
    /\ used.tasks = Cardinality({c \in Clients : conn[c].permit})
                      + Cardinality({c \in Clients : conn[c].lingers})
    /\ \A c \in Clients : AppOver(c) => ~conn[c].permit
    /\ server.pc = "returned" => used = [slots |-> 0, connections |-> 0, tasks |-> 0]

(* "streaming_client_disconnect_is_connection_local": a producer that      *)
(* finds its client gone never records that as the server's error.  (A     *)
(* client that leaves before its response has begun is another matter:     *)
(* NoticeLeft makes it an error, which stops the server.)                  *)
ConnectionLocal == firstError # "disconnect"

(* hyper took all that a response announced, and dropped it before its     *)
(* end: native_http.rs:598 and 645, lib.rs:1467-1479.                      *)
TakenWhole(x) == x.done /\ ~x.polled

(* A request is cancelled for a reason of its own or because the server is *)
(* shut down or aborted, and for no other: not because the request limit   *)
(* was reached while it was running, and not for anything that happened to *)
(* another client, unless that has aborted the server.                     *)
CancelledForCause ==
    \A c \in Clients : LET x == conn[c] IN
        x.cancelled =>
            \/ x.gone \/ x.taken > setting.maxBody \/ TakenWhole(x)
            \/ x.task \in {"dropping", "ended", "joined"}
            \/ stop.shutdown \/ stop.abort

(* "keep_alive_reuses_connections_and_drains_unconsumed_request_bodies":   *)
(* the ingress phase returns to "head" only when the request's body is off *)
(* the connection, also when the guest never reads it; else the rest would *)
(* be read as a head.  The exceptions are those of the code: a body over   *)
(* the limit, a server that is shut down or aborted, and a response of a   *)
(* known length, empty bytes among them, that hyper has taken whole.       *)
BodyOffTheWire ==
    \A c \in Clients : LET x == conn[c] IN
        x.task = "open" /\ ~x.gone /\ x.phase = "head" /\ x.unsent > 0 =>
            \/ x.taken > setting.maxBody \/ TakenWhole(x)
            \/ stop.shutdown \/ stop.abort

(* A reader of a body that was cut short may be told Ok(None), the end, as *)
(* if the body were whole: only when its request was cancelled or its      *)
(* connection dropped, and no response is ever made of such a body.        *)
NoEarlyEnd ==
    \A c \in Clients : LET x == conn[c] IN
        x.cut /\ x.unsent > 0 =>
            /\ x.cancelled \/ ~Live(c)
            /\ x.at \in {"calling", "idle"}

(* Http.run returns once it is cancelled, whatever its clients and guests  *)
(* do: no reader, producer, pump or connection is left waiting             *)
(* (lib.rs:317-397).                                                       *)
Returns == stop.shutdown ~> server.pc = "returned"

(* The permits of a stream come back when its client leaves, although the  *)
(* guest may never write again (lib.rs:1473-1479), unless what arrived of  *)
(* the request's body has filled the channel of a guest that may not read  *)
(* it: its pump then waits, before it looks at the connection again.       *)
(* Clients are alike: the first one stands for all.                        *)
Delivered(c) == Len(conn[c].body) + (IF conn[c].pump = "sending" THEN 1 ELSE 0)
Abandoned(c) ==
    /\ conn[c].gone /\ conn[c].at = "responding"
    /\ PumpOver(c) \/ ~conn[c].reader \/ Delivered(c) < Capacity
DisconnectReleases == Abandoned(1) ~> AppOver(1)

(* A request is cancelled only for a cause of its own or with the server,  *)
(* and a producer's departed client stops no server (lib.rs:1440-1510).    *)
CauseSound == ConnectionLocal /\ CancelledForCause

(* What is on the wire, in the channels and in the counters stays within   *)
(* its bounds, the rest of a body is left to be read as a head only for    *)
(* the causes named, and no response is made of a body that was cut short  *)
(* (lib.rs:1263-1400).                                                     *)
WireSound == TypeOK /\ BodyOffTheWire /\ NoEarlyEnd
=============================================================================
