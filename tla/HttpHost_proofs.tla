--------------------------- MODULE HttpHost_proofs ---------------------------
(***************************************************************************)
(* The HTTP server, for every setting: any number of clients and requests, *)
(* any limits.  What the runs check of its safety - the permits that come  *)
(* back, the bodies that stay apart, the causes of a cancellation - is     *)
(* proved here from one inductive invariant, HostInv, in three parts: what *)
(* every connection is by itself, what the accept loop is, and that each   *)
(* counter is the number of those who hold a permit.  A step changes one   *)
(* connection, or is one of the accept loop; so a lemma for each step says *)
(* what it leaves of its connection, and the rest follows for all alike.   *)
(***************************************************************************)
EXTENDS HttpHost, FiniteSetTheorems, SequenceTheorems, TLAPS

----------------------------------------------------------------------------
(* What the fields of a connection hold.                                   *)
Fields ==
    {"task", "gone", "started", "served", "phase", "fault", "lingers",
     "at", "guard", "cancelled", "hooked", "app", "answer", "permit", "reader", "pump",
     "body", "unsent", "taken", "out", "sink", "sized", "left", "polled", "done", "cut"}
Tasks == {"unborn", "knocking", "open", "closing", "dropping", "ended", "joined"}
Places == {"idle", "calling", "responding", "dropped"}
Phases == {"head", "body", "await"}
Apps == {"none", "queued", "running", "reading", "failing", "returned", "producing", "sending",
         "flushing", "acking", "stopping", "reporting", "over"}
Pumps == {"none", "reading", "sending", "failing", "over"}
Chunks == {"data", "error"}
Messages == {"data", "flush", "error"}

Typed(x) ==
    /\ DOMAIN x = Fields
    /\ x.gone \in BOOLEAN /\ x.started \in BOOLEAN /\ x.fault \in BOOLEAN
    /\ x.guard \in BOOLEAN /\ x.cancelled \in BOOLEAN /\ x.hooked \in BOOLEAN
    /\ x.permit \in BOOLEAN /\ x.reader \in BOOLEAN /\ x.sink \in BOOLEAN
    /\ x.done \in BOOLEAN /\ x.cut \in BOOLEAN /\ x.lingers \in BOOLEAN
    /\ x.sized \in BOOLEAN /\ x.polled \in BOOLEAN
    /\ x.task \in Tasks /\ x.at \in Places /\ x.phase \in Phases
    /\ x.app \in Apps /\ x.pump \in Pumps
    /\ x.unsent \in 0..setting.chunks /\ x.taken \in 0..(setting.maxBody + 1)
    /\ x.body \in Seq(Chunks) /\ Len(x.body) <= Capacity
    /\ x.out \in Seq(Messages) /\ Len(x.out) <= Capacity

(* Connections whose task runs, and those whose task is over or about to   *)
(* be.                                                                     *)
IsLive(x) == x.task \in {"open", "closing"}
Leaving(x) == x.task \in {"dropping", "ended", "joined"}

(* A connection that may read a head has nothing left of another request.  *)
Fresh(x) ==
    x.task \in {"unborn", "knocking"} \/ (IsLive(x) /\ x.at = "idle" /\ ~x.done) =>
        /\ x.at = "idle" /\ x.app = "none" /\ x.pump = "none"
        /\ ~x.guard /\ ~x.cancelled /\ ~x.cut /\ ~x.done /\ ~x.polled
        /\ x.unsent = 0 /\ x.taken = 0

(* Who holds a task permit: a thread that runs its guest or produces a     *)
(* response, and what will produce the response a guest has returned.      *)
Holding(x) ==
    x.permit <=>
        \/ x.app \in {"running", "reading", "failing", "producing", "sending",
                      "flushing", "acking", "stopping"}
        \/ x.app = "returned" /\ Produced(x.answer)

(* A request by where its connection is: a body is done when it is dropped *)
(* and not before, a live one's only then.                                 *)
Placed(x) ==
    /\ x.at \in {"calling", "responding"} => ~x.done
    /\ x.at = "calling" => ~x.polled
    /\ x.at = "dropped" => x.done \/ Leaving(x)
    /\ x.app = "none" <=> x.pump = "none"

(* What a thread that produces a response may count on: as long as its     *)
(* request is not cancelled there is somebody who takes what it sends.     *)
Producing(x) ==
    x.app \in {"producing", "sending", "flushing", "acking", "stopping"} /\ ~x.cancelled =>
        x.at = "responding" /\ x.sink /\ ~x.polled

(* How far the body has come.                                              *)
OffTheWire(x) ==
    /\ x.task = "open" /\ ~x.gone /\ x.phase = "head" /\ x.unsent > 0 => x.cancelled
    /\ x.cut \/ x.pump = "over" => x.unsent = 0 \/ x.cancelled \/ ~IsLive(x)
    /\ x.pump \in {"reading", "sending"} => x.taken <= setting.maxBody
    /\ x.pump = "failing" => x.gone \/ x.taken > setting.maxBody \/ Leaving(x)

(* A guest that reads a body is called, its token follows its request, and *)
(* of a body that was cut short it makes no answer but a failure.          *)
CutOff(x) ==
    /\ x.app \in {"queued", "running", "reading", "failing", "returned"} =>
         x.at \in {"calling", "idle"}
    /\ x.app \in {"running", "reading", "failing"} => x.hooked
    /\ x.cut /\ x.unsent > 0 =>
         /\ x.at \in {"calling", "idle"}
         /\ x.app = "returned" /\ IsLive(x) => x.answer = "failed"

Shaped(x) == Fresh(x) /\ Holding(x) /\ Placed(x) /\ Producing(x) /\ OffTheWire(x) /\ CutOff(x)

(* Why a request is cancelled.                                             *)
Caused(x) ==
    x.cancelled =>
        \/ x.gone \/ x.taken > setting.maxBody \/ TakenWhole(x)
        \/ Leaving(x) \/ stop.shutdown \/ stop.abort

(* Every connection by itself.                                             *)
ConnectionInv ==
    /\ conn = [c \in Clients |-> conn[c]]
    /\ \A c \in Clients : Typed(conn[c]) /\ Shaped(conn[c]) /\ Caused(conn[c])

(* serve_async, its semaphore permit and the three counters, within their  *)
(* limits.                                                                 *)
Stages == {"turn", "permit", "accept", "stop", "cleanup", "abort", "leave", "returned"}

ServerInv ==
    /\ setting \in Settings
    /\ server \in [pc : Stages, permit : BOOLEAN]
    /\ server.permit <=> server.pc = "accept"
    /\ stop \in [shutdown : BOOLEAN, cancel : BOOLEAN, abort : BOOLEAN]
    /\ firstError \in {"none", "error"}
    /\ used \in [slots : Nat, connections : Nat, tasks : Nat]
    /\ used.connections <= setting.connections /\ used.tasks <= setting.tasks
    /\ setting.slots # 0 => used.slots <= setting.slots
    /\ server.pc = "returned" => \A c \in Clients : Settled(c)

(* Each counter is the number of those who hold a permit of its kind.      *)
Permits == {c \in Clients : conn[c].permit}
Lingerers == {c \in Clients : conn[c].lingers}

Counted ==
    /\ used.slots = Cardinality(Running) + (IF server.permit THEN 1 ELSE 0)
    /\ used.connections = Cardinality(Running)
    /\ used.tasks = Cardinality(Permits) + Cardinality(Lingerers)

HostInv == ConnectionInv /\ ServerInv /\ Counted


----------------------------------------------------------------------------
(* Facts about one connection, and about the queues between its tasks.     *)

(* The limits of the setting are numbers.                                  *)
LimitsTyped == setting.chunks \in Nat /\ setting.maxBody \in Nat

(* A connection of which nothing but a few fields has changed.             *)
Kept(y, x, altered) ==
    /\ DOMAIN y = Fields
    /\ "task" \in altered \/ y.task = x.task
    /\ "gone" \in altered \/ y.gone = x.gone
    /\ "started" \in altered \/ y.started = x.started
    /\ "served" \in altered \/ y.served = x.served
    /\ "phase" \in altered \/ y.phase = x.phase
    /\ "fault" \in altered \/ y.fault = x.fault
    /\ "at" \in altered \/ y.at = x.at
    /\ "guard" \in altered \/ y.guard = x.guard
    /\ "cancelled" \in altered \/ y.cancelled = x.cancelled
    /\ "hooked" \in altered \/ y.hooked = x.hooked
    /\ "app" \in altered \/ y.app = x.app
    /\ "answer" \in altered \/ y.answer = x.answer
    /\ "permit" \in altered \/ y.permit = x.permit
    /\ "reader" \in altered \/ y.reader = x.reader
    /\ "pump" \in altered \/ y.pump = x.pump
    /\ "body" \in altered \/ y.body = x.body
    /\ "unsent" \in altered \/ y.unsent = x.unsent
    /\ "taken" \in altered \/ y.taken = x.taken
    /\ "out" \in altered \/ y.out = x.out
    /\ "sink" \in altered \/ y.sink = x.sink
    /\ "done" \in altered \/ y.done = x.done
    /\ "cut" \in altered \/ y.cut = x.cut
    /\ "sized" \in altered \/ y.sized = x.sized
    /\ "left" \in altered \/ y.left = x.left
    /\ "polled" \in altered \/ y.polled = x.polled
    /\ "lingers" \in altered \/ y.lingers = x.lingers


(* Whatever a request may be cancelled for stays as it is.                 *)
CausesKept ==
    /\ UNCHANGED setting
    /\ stop.shutdown => stop'.shutdown
    /\ stop.abort => stop'.abort

(* What a step owes a connection: that it is sound after it, that it has   *)
(* not become unsettled, and that it counts for a connection permit, and a *)
(* thread it has outlived for a task permit, as before.                    *)
IsRunning(x) == x.task \in {"open", "closing", "dropping"}
Sound(c) == Typed(conn[c]) /\ Shaped(conn[c]) /\ Caused(conn[c])
Undisturbed(c) ==
    /\ Settled(c) => Settled(c)'
    /\ IsRunning(conn[c])' = IsRunning(conn[c])
    /\ conn'[c].lingers = conn[c].lingers

(* The settings of a server bound its bodies by numbers.                   *)
LEMMA LimitsNat == ASSUME ServerInv PROVE LimitsTyped
  BY SettingsAssumption DEF ServerInv, LimitsTyped, Numbers, Switches

(* A step that replaces one connection leaves the others alone.            *)
LEMMA PutOne ==
  ASSUME ConnectionInv, NEW c \in Clients, NEW y, Put(c, y), UNCHANGED setting
  PROVE  /\ conn'[c] = y /\ \A d \in Clients \ {c} : conn'[d] = conn[d]
         /\ Clients' = Clients /\ conn' = [d \in Clients' |-> conn'[d]]
<1>1. Clients' = Clients
  BY DEF Clients
<1> QED
  BY <1>1 DEF Put, ConnectionInv

(* The queues are short.                                                   *)
LEMMA ShortQueues ==
  /\ <<>> \in Seq(Messages) /\ Len(<<>>) <= Capacity
  /\ <<"data">> \in Seq(Messages) /\ Len(<<"data">>) <= Capacity
<1>1. <<"data">> \in Seq(Messages) /\ Len(<<"data">>) = 1
  BY DEF Messages
<1>2. <<>> \in Seq(Messages) /\ Len(<<>>) = 0
  OBVIOUS
<1> QED
  BY <1>1, <1>2 DEF Capacity

(* A channel that is not full takes one more chunk of the request's body.  *)
LEMMA BodyGrows ==
  ASSUME NEW s \in Seq(Chunks), NEW e \in Chunks, Len(s) < Capacity
  PROVE  Append(s, e) \in Seq(Chunks) /\ Len(Append(s, e)) <= Capacity
<1>1. Len(s) \in Nat /\ Append(s, e) \in Seq(Chunks) /\ Len(Append(s, e)) = Len(s) + 1
  OBVIOUS
<1> QED
  BY <1>1 DEF Capacity

(* A channel of the response is no longer when a message was taken.        *)
LEMMA TailFits ==
  ASSUME NEW s \in Seq(Messages), s # <<>>, Len(s) <= Capacity
  PROVE  Tail(s) \in Seq(Messages) /\ Len(Tail(s)) <= Capacity
<1>1. Len(s) \in Nat /\ Tail(s) \in Seq(Messages) /\ Len(Tail(s)) = Len(s) - 1
  OBVIOUS
<1> QED
  BY <1>1 DEF Capacity

(* The same of the channel of the request's body.                          *)
LEMMA BodyTailFits ==
  ASSUME NEW s \in Seq(Chunks), s # <<>>, Len(s) <= Capacity
  PROVE  Tail(s) \in Seq(Chunks) /\ Len(Tail(s)) <= Capacity
<1>1. Len(s) \in Nat /\ Tail(s) \in Seq(Chunks) /\ Len(Tail(s)) = Len(s) - 1
  OBVIOUS
<1> QED
  BY <1>1 DEF Capacity

(* A channel that is not full takes one more message of the response.      *)
LEMMA OutGrows ==
  ASSUME NEW s \in Seq(Messages), NEW e \in Messages, Len(s) < Capacity
  PROVE  Append(s, e) \in Seq(Messages) /\ Len(Append(s, e)) <= Capacity
<1>1. Len(s) \in Nat /\ Append(s, e) \in Seq(Messages) /\ Len(Append(s, e)) = Len(s) + 1
  OBVIOUS
<1> QED
  BY <1>1 DEF Capacity

----------------------------------------------------------------------------
(* The steps, one by one: each leaves its own connection sound.            *)

(* A head is read, and nothing is left of another request.                 *)
LEMMA DispatchKeeps ==
  ASSUME ConnectionInv, ServerInv, NEW c \in Clients, NEW size \in 0..setting.chunks,
         Dispatch(c, size)
  PROVE  Sound(c)' /\ Undisturbed(c) /\ conn'[c].permit = conn[c].permit
<1> DEFINE x == conn[c]
<1>1. Typed(x) /\ Shaped(x) /\ Caused(x) /\ LimitsTyped
  BY LimitsNat DEF ConnectionInv
<1>2. UNCHANGED setting /\ CausesKept
  BY DEF Dispatch, CausesKept, Record
<1>3. conn'[c] = [x EXCEPT !.at = "calling", !.guard = TRUE, !.served = x.served + 1,
          !.app = "queued", !.reader = TRUE, !.pump = "reading", !.unsent = size,
          !.phase = IF size = 0 THEN "await" ELSE "body"]
  BY <1>2, PutOne DEF Dispatch, HeadReadable
<1>4. /\ Kept(conn'[c], x, {"at", "guard", "served", "app", "reader", "pump", "unsent",
            "phase"})
      /\ conn'[c].at = "calling"
      /\ conn'[c].guard = TRUE
      /\ conn'[c].served = x.served + 1
      /\ conn'[c].app = "queued"
      /\ conn'[c].reader = TRUE
      /\ conn'[c].pump = "reading"
      /\ conn'[c].unsent = size
      /\ conn'[c].phase = IF size = 0 THEN "await" ELSE "body"
  <2>1. DOMAIN x = Fields
    BY <1>1 DEF Typed
  <2>2. Kept(conn'[c], x, {"at", "guard", "served", "app", "reader", "pump", "unsent",
              "phase"})
    <3>1. \A k \in Fields \ {"at", "guard", "served", "app", "reader", "pump",
                "unsent", "phase"} : conn'[c][k] = x[k]
      BY ONLY <1>3, <2>1
    <3>2. DOMAIN conn'[c] = Fields
      BY ONLY <1>3, <2>1
    <3> QED
      BY <3>1, <3>2 DEF Fields, Kept
  <2>3. /\ conn'[c].at = "calling"
        /\ conn'[c].guard = TRUE
        /\ conn'[c].served = x.served + 1
        /\ conn'[c].app = "queued"
        /\ conn'[c].reader = TRUE
        /\ conn'[c].pump = "reading"
        /\ conn'[c].unsent = size
        /\ conn'[c].phase = IF size = 0 THEN "await" ELSE "body"
    BY ONLY <1>3, <2>1 DEF Fields
  <2> QED
    BY <2>2, <2>3
<1>6. Typed(x)'
  BY <1>1, <1>2, <1>4 DEF Typed, Kept, LimitsTyped, Tasks, Places, Phases, Apps, Pumps,
      Dispatch, HeadReadable
<1>7. Shaped(x)' /\ Caused(x)'
  BY <1>1, <1>2, <1>4 DEF Typed, Kept, LimitsTyped, Apps, Shaped, Fresh, Holding, Placed,
      Producing, OffTheWire, CutOff, TakenWhole, IsLive, Leaving, Caused, CausesKept,
      Dispatch, HeadReadable
<1>8. Undisturbed(c) /\ conn'[c].permit = conn[c].permit
  BY <1>1, <1>4 DEF Typed, Kept, Undisturbed, IsRunning, Settled, PumpOver, AppOver,
      Shaped, Placed, Holding, Dispatch, HeadReadable
<1> QED
  BY <1>6, <1>7, <1>8 DEF Sound

(* A request that is refused.                                              *)
LEMMA RefuseKeeps ==
  ASSUME ConnectionInv, ServerInv, NEW c \in Clients, Refuse(c)
  PROVE  Sound(c)' /\ Undisturbed(c) /\ conn'[c].permit = conn[c].permit
<1> DEFINE x == conn[c]
<1>1. Typed(x) /\ Shaped(x) /\ Caused(x) /\ LimitsTyped
  BY LimitsNat DEF ConnectionInv
<1>2. UNCHANGED setting /\ CausesKept
  BY DEF Refuse, CausesKept, Record
<1>3. conn'[c] = [x EXCEPT !.task = "dropping", !.fault = TRUE]
  BY <1>2, PutOne DEF Refuse, HeadReadable
<1>4. /\ Kept(conn'[c], x, {"task", "fault"})
      /\ conn'[c].task = "dropping"
      /\ conn'[c].fault = TRUE
  BY <1>1, <1>3 DEF Typed, Fields, Kept
<1>6. Typed(x)'
  BY <1>1, <1>2, <1>4 DEF Typed, Kept, LimitsTyped, Tasks, Places, Phases, Apps, Pumps,
      Refuse, HeadReadable
<1>7. Shaped(x)' /\ Caused(x)'
  BY <1>1, <1>2, <1>4 DEF Typed, Kept, LimitsTyped, Apps, Shaped, Fresh, Holding, Placed,
      Producing, OffTheWire, CutOff, TakenWhole, IsLive, Leaving, Caused, CausesKept,
      Refuse, HeadReadable
<1>8. Undisturbed(c) /\ conn'[c].permit = conn[c].permit
  BY <1>1, <1>4 DEF Typed, Kept, Undisturbed, IsRunning, Settled, PumpOver, AppOver,
      Shaped, Placed, Holding, Refuse, HeadReadable
<1> QED
  BY <1>6, <1>7, <1>8 DEF Sound

(* A connection on which nothing moves.                                    *)
LEMMA IdleTimeoutKeeps ==
  ASSUME ConnectionInv, ServerInv, NEW c \in Clients, IdleTimeout(c)
  PROVE  Sound(c)' /\ Undisturbed(c) /\ conn'[c].permit = conn[c].permit
<1> DEFINE x == conn[c]
<1>1. Typed(x) /\ Shaped(x) /\ Caused(x) /\ LimitsTyped
  BY LimitsNat DEF ConnectionInv
<1>2. UNCHANGED setting /\ CausesKept
  BY DEF IdleTimeout, CausesKept, Record
<1>3. conn'[c] = [x EXCEPT !.task = "dropping", !.fault = TRUE]
  BY <1>2, PutOne DEF IdleTimeout, Live
<1>4. /\ Kept(conn'[c], x, {"task", "fault"})
      /\ conn'[c].task = "dropping"
      /\ conn'[c].fault = TRUE
  BY <1>1, <1>3 DEF Typed, Fields, Kept
<1>6. Typed(x)'
  BY <1>1, <1>2, <1>4 DEF Typed, Kept, LimitsTyped, Tasks, Places, Phases, Apps, Pumps,
      IdleTimeout, Live
<1>7. Shaped(x)' /\ Caused(x)'
  BY <1>1, <1>2, <1>4 DEF Typed, Kept, LimitsTyped, Apps, Shaped, Fresh, Holding, Placed,
      Producing, OffTheWire, CutOff, TakenWhole, IsLive, Leaving, Caused, CausesKept,
      IdleTimeout, Live
<1>8. Undisturbed(c) /\ conn'[c].permit = conn[c].permit
  BY <1>1, <1>4 DEF Typed, Kept, Undisturbed, IsRunning, Settled, PumpOver, AppOver,
      Shaped, Placed, Holding, IdleTimeout, Live
<1> QED
  BY <1>6, <1>7, <1>8 DEF Sound

(* The answer of the application becomes the response.                     *)
LEMMA RespondKeeps ==
  ASSUME ConnectionInv, ServerInv, NEW c \in Clients, NEW length \in Lengths, Respond(c, length)
  PROVE  Sound(c)' /\ Undisturbed(c) /\ conn'[c].permit = conn[c].permit
<1> DEFINE x == conn[c]
<1>1. Typed(x) /\ Shaped(x) /\ Caused(x) /\ LimitsTyped
  BY LimitsNat DEF ConnectionInv
<1>2. UNCHANGED setting /\ CausesKept
  BY DEF Respond, CausesKept, Record
<1>3. conn'[c] = [x EXCEPT !.at = "responding",
          !.started = TRUE,
          !.answer = "none",
          !.app = IF (x.answer \in {"stream", "sized"}) THEN "producing" ELSE "over",
          !.sink = (x.answer \in {"stream", "sized"}),
          !.out = IF x.answer = "fixed" /\ length > 0 THEN <<"data">> ELSE <<>>,
          !.sized = (x.answer # "stream"),
          !.left = IF x.answer = "sized" THEN length ELSE 0,
          !.polled = (x.answer = "empty")]
  BY <1>2, PutOne DEF Respond, Produced, Live
<1>4. /\ Kept(conn'[c], x, {"at", "started", "answer", "app", "sink", "out", "sized",
            "left", "polled"})
      /\ conn'[c].at = "responding"
      /\ conn'[c].started = TRUE
      /\ conn'[c].answer = "none"
      /\ conn'[c].app = IF (x.answer \in {"stream", "sized"}) THEN "producing" ELSE "over"
      /\ conn'[c].sink = (x.answer \in {"stream", "sized"})
      /\ conn'[c].out = IF x.answer = "fixed" /\ length > 0 THEN <<"data">> ELSE <<>>
      /\ conn'[c].sized = (x.answer # "stream")
      /\ conn'[c].left = IF x.answer = "sized" THEN length ELSE 0
      /\ conn'[c].polled = (x.answer = "empty")
  <2>1. DOMAIN x = Fields
    BY <1>1 DEF Typed
  <2>2. Kept(conn'[c], x, {"at", "started", "answer", "app", "sink", "out", "sized",
              "left", "polled"})
    <3>1. \A k \in Fields \ {"at", "started", "answer", "app", "sink", "out", "sized",
                "left", "polled"} : conn'[c][k] = x[k]
      BY ONLY <1>3, <2>1
    <3>2. DOMAIN conn'[c] = Fields
      BY ONLY <1>3, <2>1
    <3> QED
      BY <3>1, <3>2 DEF Fields, Kept
  <2>3. /\ conn'[c].at = "responding"
        /\ conn'[c].started = TRUE
        /\ conn'[c].answer = "none"
        /\ conn'[c].app = IF (x.answer \in {"stream", "sized"}) THEN "producing" ELSE "over"
        /\ conn'[c].sink = (x.answer \in {"stream", "sized"})
        /\ conn'[c].out = IF x.answer = "fixed" /\ length > 0 THEN <<"data">> ELSE <<>>
        /\ conn'[c].sized = (x.answer # "stream")
        /\ conn'[c].left = IF x.answer = "sized" THEN length ELSE 0
        /\ conn'[c].polled = (x.answer = "empty")
    BY ONLY <1>3, <2>1 DEF Fields
  <2> QED
    BY <2>2, <2>3
<1>5. conn'[c].out \in Seq(Messages) /\ Len(conn'[c].out) <= Capacity
  BY <1>1, <1>4, ShortQueues DEF Typed, Respond, Produced
<1>6. Typed(x)'
  <2>1. /\ conn'[c].sink \in BOOLEAN /\ conn'[c].sized \in BOOLEAN
        /\ conn'[c].polled \in BOOLEAN /\ conn'[c].started \in BOOLEAN
    <3>1. /\ (x.answer \in {"stream", "sized"}) \in BOOLEAN
          /\ (x.answer # "stream") \in BOOLEAN /\ (x.answer = "empty") \in BOOLEAN
      OBVIOUS
    <3> QED
      BY <1>4, <3>1
  <2>2. conn'[c].app \in Apps /\ conn'[c].at \in Places
    BY ONLY <1>4 DEF Apps, Places
  <2> QED
    BY <1>1, <1>2, <1>4, <1>5, <2>1, <2>2 DEF Typed, Kept
<1>7. Shaped(x)' /\ Caused(x)'
  BY <1>1, <1>2, <1>4 DEF Typed, Kept, LimitsTyped, Apps, Shaped, Fresh, Holding,
      Produced, Placed, Producing, OffTheWire, CutOff, TakenWhole, IsLive, Leaving,
      Caused, CausesKept, Respond, Live
<1>8. Undisturbed(c) /\ conn'[c].permit = conn[c].permit
  BY <1>1, <1>4 DEF Typed, Kept, Undisturbed, IsRunning, Settled, PumpOver, AppOver,
      Shaped, Placed, Holding, Produced, Respond, Live
<1> QED
  BY <1>6, <1>7, <1>8 DEF Sound

(* A response that cannot be sent.                                         *)
LEMMA RespondInvalidKeeps ==
  ASSUME ConnectionInv, ServerInv, NEW c \in Clients, RespondInvalid(c)
  PROVE  Sound(c)' /\ Undisturbed(c) /\ ~conn'[c].permit
<1> DEFINE x == conn[c]
<1>1. Typed(x) /\ Shaped(x) /\ Caused(x) /\ LimitsTyped
  BY LimitsNat DEF ConnectionInv
<1>2. UNCHANGED setting /\ CausesKept
  BY DEF RespondInvalid, CausesKept, Record
<1>3. conn'[c] = [x EXCEPT !.at = "idle", !.guard = FALSE, !.app = "over",
          !.answer = "none", !.hooked = FALSE, !.permit = FALSE, !.reader = FALSE,
          !.task = "dropping", !.fault = TRUE]
  BY <1>2, PutOne DEF RespondInvalid, Live
<1>4. /\ Kept(conn'[c], x, {"at", "guard", "app", "answer", "hooked", "permit", "reader",
            "task", "fault"})
      /\ conn'[c].at = "idle"
      /\ conn'[c].guard = FALSE
      /\ conn'[c].app = "over"
      /\ conn'[c].answer = "none"
      /\ conn'[c].hooked = FALSE
      /\ conn'[c].permit = FALSE
      /\ conn'[c].reader = FALSE
      /\ conn'[c].task = "dropping"
      /\ conn'[c].fault = TRUE
  <2>1. DOMAIN x = Fields
    BY <1>1 DEF Typed
  <2>2. Kept(conn'[c], x, {"at", "guard", "app", "answer", "hooked", "permit", "reader",
              "task", "fault"})
    <3>1. \A k \in Fields \ {"at", "guard", "app", "answer", "hooked", "permit",
                "reader", "task", "fault"} : conn'[c][k] = x[k]
      BY ONLY <1>3, <2>1
    <3>2. DOMAIN conn'[c] = Fields
      BY ONLY <1>3, <2>1
    <3> QED
      BY <3>1, <3>2 DEF Fields, Kept
  <2>3. /\ conn'[c].at = "idle"
        /\ conn'[c].guard = FALSE
        /\ conn'[c].app = "over"
        /\ conn'[c].answer = "none"
        /\ conn'[c].hooked = FALSE
        /\ conn'[c].permit = FALSE
        /\ conn'[c].reader = FALSE
        /\ conn'[c].task = "dropping"
        /\ conn'[c].fault = TRUE
    BY ONLY <1>3, <2>1 DEF Fields
  <2> QED
    BY <2>2, <2>3
<1>6. Typed(x)'
  BY <1>1, <1>2, <1>4 DEF Typed, Kept, LimitsTyped, Tasks, Places, Phases, Apps, Pumps,
      RespondInvalid, Live
<1>7. Shaped(x)' /\ Caused(x)'
  BY <1>1, <1>2, <1>4 DEF Typed, Kept, LimitsTyped, Apps, Shaped, Fresh, Holding, Placed,
      Producing, OffTheWire, CutOff, TakenWhole, IsLive, Leaving, Caused, CausesKept,
      RespondInvalid, Live
<1>8. Undisturbed(c) /\ ~conn'[c].permit
  BY <1>1, <1>4 DEF Typed, Kept, Undisturbed, IsRunning, Settled, PumpOver, AppOver,
      Shaped, Placed, Holding, RespondInvalid, Live
<1> QED
  BY <1>6, <1>7, <1>8 DEF Sound

(* The application has failed.                                             *)
LEMMA RespondFailedKeeps ==
  ASSUME ConnectionInv, ServerInv, NEW c \in Clients, RespondFailed(c)
  PROVE  Sound(c)' /\ Undisturbed(c) /\ conn'[c].permit = conn[c].permit
<1> DEFINE x == conn[c]
<1>1. Typed(x) /\ Shaped(x) /\ Caused(x) /\ LimitsTyped
  BY LimitsNat DEF ConnectionInv
<1>2. UNCHANGED setting /\ CausesKept
  BY DEF RespondFailed, CausesKept, Record
<1>3. conn'[c] = [x EXCEPT !.at = "idle", !.guard = FALSE, !.cancelled = TRUE,
          !.app = "over", !.answer = "none", !.task = "dropping", !.fault = TRUE]
  BY <1>2, PutOne DEF RespondFailed, Live
<1>4. /\ Kept(conn'[c], x, {"at", "guard", "cancelled", "app", "answer", "task", "fault"})
      /\ conn'[c].at = "idle"
      /\ conn'[c].guard = FALSE
      /\ conn'[c].cancelled = TRUE
      /\ conn'[c].app = "over"
      /\ conn'[c].answer = "none"
      /\ conn'[c].task = "dropping"
      /\ conn'[c].fault = TRUE
  BY <1>1, <1>3 DEF Typed, Fields, Kept
<1>6. Typed(x)'
  BY <1>1, <1>2, <1>4 DEF Typed, Kept, LimitsTyped, Tasks, Places, Phases, Apps, Pumps,
      RespondFailed, Live
<1>7. Shaped(x)' /\ Caused(x)'
  <2>1. Fresh(x)'
    BY <1>1, <1>2, <1>4 DEF Typed, Kept, Shaped, Fresh, IsLive, RespondFailed, Live
  <2>2. Holding(x)'
    BY <1>1, <1>2, <1>4 DEF Typed, Kept, Shaped, Holding, Produced, RespondFailed, Live
  <2>3. Placed(x)'
    BY <1>1, <1>2, <1>4 DEF Typed, Kept, Shaped, Placed, Leaving, RespondFailed, Live
  <2>4. Producing(x)'
    BY <1>1, <1>2, <1>4 DEF Typed, Kept, Shaped, Producing, RespondFailed, Live
  <2>5. OffTheWire(x)'
    BY <1>1, <1>2, <1>4 DEF Typed, Kept, Shaped, OffTheWire, IsLive, Leaving,
        RespondFailed, Live
  <2>6. Caused(x)'
    BY <1>1, <1>2, <1>4 DEF Typed, Kept, Shaped, Caused, Leaving, CausesKept,
        RespondFailed, Live
  <2>7. CutOff(x)'
    BY <1>1, <1>2, <1>4 DEF Typed, Kept, Shaped, CutOff, IsLive, RespondFailed, Live
  <2> QED
    BY <2>1, <2>2, <2>3, <2>4, <2>5, <2>6, <2>7 DEF Shaped
<1>8. Undisturbed(c) /\ conn'[c].permit = conn[c].permit
  BY <1>1, <1>4 DEF Typed, Kept, Undisturbed, IsRunning, Settled, PumpOver, AppOver,
      Shaped, Placed, Holding, RespondFailed, Live
<1> QED
  BY <1>6, <1>7, <1>8 DEF Sound

(* The server ends; only when it aborts or is shut down are requests cancelled.*)
LEMMA EndingKeeps ==
  ASSUME ConnectionInv, ServerInv, NEW c \in Clients, Ending(c)
  PROVE  Sound(c)' /\ Undisturbed(c) /\ conn'[c].permit = conn[c].permit
<1> DEFINE x == conn[c]
<1>1. Typed(x) /\ Shaped(x) /\ Caused(x) /\ LimitsTyped
  BY LimitsNat DEF ConnectionInv
<1>2. UNCHANGED setting /\ CausesKept
  BY DEF Ending, CausesKept, Record
<1>3. conn'[c] = [x EXCEPT !.task = "closing",
          !.cancelled = (x.cancelled \/ (x.guard /\ (stop.abort \/ stop.shutdown)))]
  BY <1>2, PutOne DEF Ending
<1>4. /\ Kept(conn'[c], x, {"task", "cancelled"})
      /\ conn'[c].task = "closing"
      /\ conn'[c].cancelled = (x.cancelled \/ (x.guard /\ (stop.abort \/ stop.shutdown)))
  BY <1>1, <1>3 DEF Typed, Fields, Kept
<1>6. Typed(x)'
  BY <1>1, <1>2, <1>4 DEF Typed, Kept, LimitsTyped, Tasks, Places, Phases, Apps, Pumps,
      Ending
<1>7. Shaped(x)' /\ Caused(x)'
  <2>1. Fresh(x)'
    BY <1>1, <1>2, <1>4 DEF Typed, Kept, LimitsTyped, Apps, Pumps, Shaped, Fresh,
        IsLive, Ending
  <2>2. Holding(x)'
    BY <1>1, <1>2, <1>4 DEF Typed, Kept, LimitsTyped, Apps, Pumps, Shaped, Holding,
        Ending
  <2>3. Placed(x)'
    BY <1>1, <1>2, <1>4 DEF Typed, Kept, LimitsTyped, Apps, Pumps, Shaped, Placed,
        Leaving, Ending
  <2>4. Producing(x)'
    BY <1>1, <1>2, <1>4 DEF Typed, Kept, LimitsTyped, Apps, Pumps, Shaped, Producing,
        Ending
  <2>5. OffTheWire(x)'
    BY <1>1, <1>2, <1>4 DEF Typed, Kept, LimitsTyped, Apps, Pumps, Shaped, OffTheWire,
        IsLive, Leaving, Ending
  <2>6. Caused(x)'
    BY <1>1, <1>2, <1>4 DEF Typed, Kept, LimitsTyped, Apps, Pumps, Shaped, Caused,
        TakenWhole, Placed, CausesKept, Leaving, Ending
  <2>7. CutOff(x)'
    BY <1>1, <1>2, <1>4 DEF Typed, Kept, LimitsTyped, Apps, Pumps, Shaped, CutOff,
        IsLive, Leaving, Ending
  <2> QED
    BY <2>1, <2>2, <2>3, <2>4, <2>5, <2>6, <2>7 DEF Shaped
<1>8. Undisturbed(c) /\ conn'[c].permit = conn[c].permit
  BY <1>1, <1>4 DEF Typed, Kept, Undisturbed, IsRunning, Settled, PumpOver, AppOver,
      Shaped, Placed, Holding, Ending
<1> QED
  BY <1>6, <1>7, <1>8 DEF Sound

(* hyper ends the connection.                                              *)
LEMMA FinishKeeps ==
  ASSUME ConnectionInv, ServerInv, NEW c \in Clients, Finish(c)
  PROVE  Sound(c)' /\ Undisturbed(c) /\ conn'[c].permit = conn[c].permit
<1> DEFINE x == conn[c]
<1>1. Typed(x) /\ Shaped(x) /\ Caused(x) /\ LimitsTyped
  BY LimitsNat DEF ConnectionInv
<1>2. UNCHANGED setting /\ CausesKept
  BY DEF Finish, CausesKept, Record
<1>3. conn'[c] = [x EXCEPT !.task = "dropping"]
  BY <1>2, PutOne DEF Finish, Live
<1>4. /\ Kept(conn'[c], x, {"task"})
      /\ conn'[c].task = "dropping"
  BY <1>1, <1>3 DEF Typed, Fields, Kept
<1>6. Typed(x)'
  BY <1>1, <1>2, <1>4 DEF Typed, Kept, LimitsTyped, Tasks, Places, Phases, Apps, Pumps,
      Finish, Live
<1>7. Shaped(x)' /\ Caused(x)'
  BY <1>1, <1>2, <1>4 DEF Typed, Kept, LimitsTyped, Apps, Shaped, Fresh, Holding, Placed,
      Producing, OffTheWire, CutOff, TakenWhole, IsLive, Leaving, Caused, CausesKept,
      Finish, Live
<1>8. Undisturbed(c) /\ conn'[c].permit = conn[c].permit
  BY <1>1, <1>4 DEF Typed, Kept, Undisturbed, IsRunning, Settled, PumpOver, AppOver,
      Shaped, Placed, Holding, Finish, Live
<1> QED
  BY <1>6, <1>7, <1>8 DEF Sound

(* hyper notices that the client has left.                                 *)
LEMMA NoticeLeftKeeps ==
  ASSUME ConnectionInv, ServerInv, NEW c \in Clients, NoticeLeft(c)
  PROVE  Sound(c)' /\ Undisturbed(c) /\ conn'[c].permit = conn[c].permit
<1> DEFINE x == conn[c]
<1>1. Typed(x) /\ Shaped(x) /\ Caused(x) /\ LimitsTyped
  BY LimitsNat DEF ConnectionInv
<1>2. UNCHANGED setting /\ CausesKept
  BY DEF NoticeLeft, CausesKept, Record
<1>3. conn'[c] = [x EXCEPT !.task = "dropping", !.fault = ~x.started]
  BY <1>2, PutOne DEF NoticeLeft, Live
<1>4. /\ Kept(conn'[c], x, {"task", "fault"})
      /\ conn'[c].task = "dropping"
      /\ conn'[c].fault = ~x.started
  BY <1>1, <1>3 DEF Typed, Fields, Kept
<1>6. Typed(x)'
  BY <1>1, <1>2, <1>4 DEF Typed, Kept, LimitsTyped, Tasks, Places, Phases, Apps, Pumps,
      NoticeLeft, Live
<1>7. Shaped(x)' /\ Caused(x)'
  BY <1>1, <1>2, <1>4 DEF Typed, Kept, LimitsTyped, Apps, Shaped, Fresh, Holding, Placed,
      Producing, OffTheWire, CutOff, TakenWhole, IsLive, Leaving, Caused, CausesKept,
      NoticeLeft, Live
<1>8. Undisturbed(c) /\ conn'[c].permit = conn[c].permit
  BY <1>1, <1>4 DEF Typed, Kept, Undisturbed, IsRunning, Settled, PumpOver, AppOver,
      Shaped, Placed, Holding, NoticeLeft, Live
<1> QED
  BY <1>6, <1>7, <1>8 DEF Sound

(* The deadline of the graceful shutdown.                                  *)
LEMMA ConnectionDeadlineKeeps ==
  ASSUME ConnectionInv, ServerInv, NEW c \in Clients, ConnectionDeadline(c)
  PROVE  Sound(c)' /\ Undisturbed(c) /\ conn'[c].permit = conn[c].permit
<1> DEFINE x == conn[c]
<1>1. Typed(x) /\ Shaped(x) /\ Caused(x) /\ LimitsTyped
  BY LimitsNat DEF ConnectionInv
<1>2. UNCHANGED setting /\ CausesKept
  BY DEF ConnectionDeadline, CausesKept, Record
<1>3. conn'[c] = [x EXCEPT !.task = "dropping", !.fault = TRUE]
  BY <1>2, PutOne DEF ConnectionDeadline
<1>4. /\ Kept(conn'[c], x, {"task", "fault"})
      /\ conn'[c].task = "dropping"
      /\ conn'[c].fault = TRUE
  BY <1>1, <1>3 DEF Typed, Fields, Kept
<1>6. Typed(x)'
  BY <1>1, <1>2, <1>4 DEF Typed, Kept, LimitsTyped, Tasks, Places, Phases, Apps, Pumps,
      ConnectionDeadline
<1>7. Shaped(x)' /\ Caused(x)'
  BY <1>1, <1>2, <1>4 DEF Typed, Kept, LimitsTyped, Apps, Shaped, Fresh, Holding, Placed,
      Producing, OffTheWire, CutOff, TakenWhole, IsLive, Leaving, Caused, CausesKept,
      ConnectionDeadline
<1>8. Undisturbed(c) /\ conn'[c].permit = conn[c].permit
  BY <1>1, <1>4 DEF Typed, Kept, Undisturbed, IsRunning, Settled, PumpOver, AppOver,
      Shaped, Placed, Holding, ConnectionDeadline
<1> QED
  BY <1>6, <1>7, <1>8 DEF Sound

(* The task of the connection ends.                                        *)
LEMMA EndTaskKeeps ==
  ASSUME ConnectionInv, ServerInv, NEW c \in Clients, EndTask(c)
  PROVE  Sound(c)' /\ (Settled(c) => Settled(c)') /\ ~(IsRunning(conn[c]))'
         /\ conn'[c].permit = conn[c].permit /\ conn'[c].lingers = conn[c].lingers
<1> DEFINE x == conn[c]
<1>1. Typed(x) /\ Shaped(x) /\ Caused(x) /\ LimitsTyped
  BY LimitsNat DEF ConnectionInv
<1>2. UNCHANGED setting /\ CausesKept
  BY DEF EndTask, CausesKept, Record
<1>3. conn'[c] = [x EXCEPT !.task = "ended", !.gone = FALSE, !.started = FALSE,
          !.served = 0, !.phase = "head", !.fault = FALSE, !.unsent = 0]
  BY <1>2, PutOne DEF EndTask
<1>4. /\ Kept(conn'[c], x, {"task", "gone", "started", "served", "phase", "fault", "unsent"})
      /\ conn'[c].task = "ended"
      /\ conn'[c].gone = FALSE
      /\ conn'[c].started = FALSE
      /\ conn'[c].served = 0
      /\ conn'[c].phase = "head"
      /\ conn'[c].fault = FALSE
      /\ conn'[c].unsent = 0
  BY <1>1, <1>3 DEF Typed, Fields, Kept
<1>5. conn'[c].unsent \in 0..setting.chunks
  BY <1>1, <1>4 DEF Typed, LimitsTyped, Shaped, OffTheWire, EndTask
<1>6. Typed(x)'
  BY <1>1, <1>2, <1>4, <1>5 DEF Typed, Kept, LimitsTyped, Tasks, Places, Phases, Apps,
      Pumps, EndTask
<1>7. Shaped(x)' /\ Caused(x)'
  BY <1>1, <1>2, <1>4 DEF Typed, Kept, LimitsTyped, Apps, Shaped, Fresh, Holding, Placed,
      Producing, OffTheWire, CutOff, TakenWhole, IsLive, Leaving, Caused, CausesKept,
      EndTask
<1>8. /\ Settled(c) => Settled(c)'
      /\ ~(IsRunning(conn[c]))'
      /\ conn'[c].permit = conn[c].permit /\ conn'[c].lingers = conn[c].lingers
  BY <1>1, <1>4 DEF Typed, Kept, Undisturbed, IsRunning, Settled, PumpOver, AppOver,
      Shaped, Placed, Holding, EndTask
<1> QED
  BY <1>6, <1>7, <1>8 DEF Sound

(* The producer is gone and its channel empty.                             *)
LEMMA EndOfBodyKeeps ==
  ASSUME ConnectionInv, ServerInv, NEW c \in Clients, EndOfBody(c)
  PROVE  Sound(c)' /\ Undisturbed(c) /\ conn'[c].permit = conn[c].permit
<1> DEFINE x == conn[c]
<1>1. Typed(x) /\ Shaped(x) /\ Caused(x) /\ LimitsTyped
  BY LimitsNat DEF ConnectionInv
<1>2. UNCHANGED setting /\ CausesKept
  BY DEF EndOfBody, CausesKept, Record
<1>3. conn'[c] = IF x.sized THEN [x EXCEPT !.polled = TRUE, !.task = "dropping", !.fault = TRUE]
                 ELSE [x EXCEPT !.polled = TRUE]
  BY <1>2, PutOne DEF EndOfBody, Live, AppOver
<1>4. /\ Kept(conn'[c], x, {"polled", "task", "fault"})
      /\ conn'[c].polled = TRUE
      /\ conn'[c].task = IF x.sized THEN "dropping" ELSE x.task
      /\ conn'[c].fault \in BOOLEAN
  <2>1. CASE x.sized
    <3>1. conn'[c] = [x EXCEPT !.polled = TRUE, !.task = "dropping", !.fault = TRUE]
      BY <1>3, <2>1
    <3>2. /\ Kept(conn'[c], x, {"polled", "task", "fault"}) /\ conn'[c].polled = TRUE
          /\ conn'[c].task = "dropping" /\ conn'[c].fault = TRUE
      BY <1>1, <3>1 DEF Typed, Fields, Kept
    <3> QED
      BY <2>1, <3>2
  <2>2. CASE ~x.sized
    <3>1. conn'[c] = [x EXCEPT !.polled = TRUE]
      BY <1>3, <2>2
    <3> QED
      BY <1>1, <2>2, <3>1 DEF Typed, Fields, Kept
  <2> QED
    BY <2>1, <2>2
<1>5. conn'[c].task \in Tasks /\ conn'[c].polled \in BOOLEAN
  BY <1>1, <1>4 DEF Typed, Tasks
<1>6. Typed(x)'
  BY <1>1, <1>2, <1>4, <1>5 DEF Typed, Kept
<1>7. Shaped(x)' /\ Caused(x)'
  BY <1>1, <1>2, <1>4 DEF Typed, Kept, LimitsTyped, Apps, Shaped, Fresh, Holding, Placed,
      Producing, OffTheWire, CutOff, TakenWhole, IsLive, Leaving, Caused, CausesKept,
      EndOfBody, Live, AppOver
<1>8. Undisturbed(c) /\ conn'[c].permit = conn[c].permit
  BY <1>1, <1>4 DEF Typed, Kept, Undisturbed, IsRunning, Settled, PumpOver, AppOver,
      Shaped, Placed, Holding, EndOfBody, Live
<1> QED
  BY <1>6, <1>7, <1>8 DEF Sound

(* An incomplete body cancels its request.                                 *)
LEMMA DropBodyKeeps ==
  ASSUME ConnectionInv, ServerInv, NEW c \in Clients, DropBody(c)
  PROVE  Sound(c)' /\ Undisturbed(c) /\ conn'[c].permit = conn[c].permit
<1> DEFINE x == conn[c]
<1>1. Typed(x) /\ Shaped(x) /\ Caused(x) /\ LimitsTyped
  BY LimitsNat DEF ConnectionInv
<1>2. UNCHANGED setting /\ CausesKept
  BY DEF DropBody, CausesKept, Record
<1>3. Written(c) \in BOOLEAN
  BY DEF Written
<1>4. PICK whole \in BOOLEAN :
        /\ conn'[c] = [x EXCEPT !.at = "dropped", !.done = whole,
                                !.cancelled = (x.cancelled \/ ~x.polled)]
        /\ x.at = "responding" /\ (whole \/ x.task = "dropping")
  BY <1>2, <1>3, PutOne DEF DropBody
<1>5. /\ Kept(conn'[c], x, {"at", "done", "cancelled"})
      /\ conn'[c].at = "dropped"
      /\ conn'[c].done = whole
      /\ conn'[c].cancelled = (x.cancelled \/ ~x.polled)
  BY <1>1, <1>4 DEF Typed, Fields, Kept
<1>6. Typed(x)'
  BY <1>1, <1>2, <1>4, <1>5 DEF Typed, Kept, LimitsTyped, Tasks, Places, Phases, Apps, Pumps
<1>7. Shaped(x)' /\ Caused(x)'
  BY <1>1, <1>2, <1>4, <1>5 DEF Typed, Kept, LimitsTyped, Apps, Shaped, Fresh, Holding,
      Placed, Producing, OffTheWire, CutOff, TakenWhole, IsLive, Leaving, Caused, CausesKept
<1>8. Undisturbed(c) /\ conn'[c].permit = conn[c].permit
  BY <1>1, <1>4, <1>5 DEF Typed, Kept, Undisturbed, IsRunning, Settled, PumpOver, AppOver,
      Shaped, Placed, Holding
<1> QED
  BY <1>6, <1>7, <1>8 DEF Sound

(* The channel of the response closes.                                     *)
LEMMA CloseBodyKeeps ==
  ASSUME ConnectionInv, ServerInv, NEW c \in Clients, CloseBody(c)
  PROVE  Sound(c)' /\ Undisturbed(c) /\ conn'[c].permit = conn[c].permit
<1> DEFINE x == conn[c]
<1>1. Typed(x) /\ Shaped(x) /\ Caused(x) /\ LimitsTyped
  BY LimitsNat DEF ConnectionInv
<1>2. UNCHANGED setting /\ CausesKept
  BY DEF CloseBody, CausesKept, Record
<1>3. conn'[c] = [x EXCEPT !.at = "idle", !.guard = FALSE, !.sink = FALSE, !.out = <<>>]
  BY <1>2, PutOne DEF CloseBody
<1>4. /\ Kept(conn'[c], x, {"at", "guard", "sink", "out"})
      /\ conn'[c].at = "idle"
      /\ conn'[c].guard = FALSE
      /\ conn'[c].sink = FALSE
      /\ conn'[c].out = <<>>
  BY <1>1, <1>3 DEF Typed, Fields, Kept
<1>5. conn'[c].out \in Seq(Messages) /\ Len(conn'[c].out) <= Capacity
  BY <1>1, <1>4, ShortQueues DEF Typed, CloseBody, Messages
<1>6. Typed(x)'
  BY <1>1, <1>2, <1>4, <1>5 DEF Typed, Kept, LimitsTyped, Tasks, Places, Phases, Apps,
      Pumps, CloseBody
<1>7. Shaped(x)' /\ Caused(x)'
  BY <1>1, <1>2, <1>4 DEF Typed, Kept, LimitsTyped, Apps, Shaped, Fresh, Holding, Placed,
      Producing, OffTheWire, CutOff, TakenWhole, IsLive, Leaving, Caused, CausesKept,
      CloseBody
<1>8. Undisturbed(c) /\ conn'[c].permit = conn[c].permit
  BY <1>1, <1>4 DEF Typed, Kept, Undisturbed, IsRunning, Settled, PumpOver, AppOver,
      Shaped, Placed, Holding, CloseBody
<1> QED
  BY <1>6, <1>7, <1>8 DEF Sound

(* The pump of a cancelled request.                                        *)
LEMMA PumpCancelledKeeps ==
  ASSUME ConnectionInv, ServerInv, NEW c \in Clients, PumpCancelled(c)
  PROVE  Sound(c)' /\ Undisturbed(c) /\ conn'[c].permit = conn[c].permit
<1> DEFINE x == conn[c]
<1>1. Typed(x) /\ Shaped(x) /\ Caused(x) /\ LimitsTyped
  BY LimitsNat DEF ConnectionInv
<1>2. UNCHANGED setting /\ CausesKept
  BY DEF PumpCancelled, CausesKept, Record
<1>3. conn'[c] = [x EXCEPT !.pump = "over", !.phase = "head"]
  BY <1>2, PutOne DEF PumpCancelled
<1>4. /\ Kept(conn'[c], x, {"pump", "phase"})
      /\ conn'[c].pump = "over"
      /\ conn'[c].phase = "head"
  BY <1>1, <1>3 DEF Typed, Fields, Kept
<1>6. Typed(x)'
  BY <1>1, <1>2, <1>4 DEF Typed, Kept, LimitsTyped, Tasks, Places, Phases, Apps, Pumps,
      PumpCancelled
<1>7. Shaped(x)' /\ Caused(x)'
  <2>1. Fresh(x)'
    BY <1>1, <1>2, <1>4 DEF Typed, Kept, LimitsTyped, Apps, Pumps, Shaped, Fresh,
        IsLive, PumpCancelled
  <2>2. Holding(x)'
    BY <1>1, <1>2, <1>4 DEF Typed, Kept, LimitsTyped, Apps, Pumps, Shaped, Holding,
        PumpCancelled
  <2>3. Placed(x)'
    BY <1>1, <1>2, <1>4 DEF Typed, Kept, LimitsTyped, Apps, Pumps, Shaped, Placed,
        Leaving, PumpCancelled
  <2>4. Producing(x)'
    BY <1>1, <1>2, <1>4 DEF Typed, Kept, LimitsTyped, Apps, Pumps, Shaped, Producing,
        PumpCancelled
  <2>5. OffTheWire(x)'
    BY <1>1, <1>2, <1>4 DEF Typed, Kept, LimitsTyped, Apps, Pumps, Shaped, OffTheWire,
        IsLive, Leaving, PumpCancelled
  <2>6. Caused(x)'
    BY <1>1, <1>2, <1>4 DEF Typed, Kept, LimitsTyped, Apps, Pumps, Shaped, Caused,
        TakenWhole, Placed, CausesKept, Leaving, PumpCancelled
  <2>7. CutOff(x)'
    BY <1>1, <1>2, <1>4 DEF Typed, Kept, LimitsTyped, Apps, Pumps, Shaped, CutOff,
        IsLive, Leaving, PumpCancelled
  <2> QED
    BY <2>1, <2>2, <2>3, <2>4, <2>5, <2>6, <2>7 DEF Shaped
<1>8. Undisturbed(c) /\ conn'[c].permit = conn[c].permit
  BY <1>1, <1>4 DEF Typed, Kept, Undisturbed, IsRunning, Settled, PumpOver, AppOver,
      Shaped, Placed, Holding, PumpCancelled
<1> QED
  BY <1>6, <1>7, <1>8 DEF Sound

(* A chunk is taken off the connection.                                    *)
LEMMA PumpFrameKeeps ==
  ASSUME ConnectionInv, ServerInv, NEW c \in Clients, PumpFrame(c)
  PROVE  Sound(c)' /\ Undisturbed(c) /\ conn'[c].permit = conn[c].permit
<1> DEFINE x == conn[c]
<1>1. Typed(x) /\ Shaped(x) /\ Caused(x) /\ LimitsTyped
  BY LimitsNat DEF ConnectionInv
<1>2. UNCHANGED setting /\ CausesKept
  BY DEF PumpFrame, CausesKept, Record
<1>3. conn'[c] = [x EXCEPT !.unsent = x.unsent - 1, !.taken = x.taken + 1,
          !.phase = IF x.unsent = 1 THEN "await" ELSE "body",
          !.pump = IF x.taken + 1 > setting.maxBody THEN "failing" ELSE "sending"]
  BY <1>2, PutOne DEF PumpFrame, Live
<1>4. /\ Kept(conn'[c], x, {"unsent", "taken", "phase", "pump"})
      /\ conn'[c].unsent = x.unsent - 1
      /\ conn'[c].taken = x.taken + 1
      /\ conn'[c].phase = IF x.unsent = 1 THEN "await" ELSE "body"
      /\ conn'[c].pump = IF x.taken + 1 > setting.maxBody THEN "failing" ELSE "sending"
  BY <1>1, <1>3 DEF Typed, Fields, Kept
<1>5. /\ conn'[c].unsent \in 0..setting.chunks /\ conn'[c].taken \in 0..(setting.maxBody + 1)
  BY <1>1, <1>4 DEF Typed, LimitsTyped, Shaped, OffTheWire, PumpFrame
<1>6. Typed(x)'
  BY <1>1, <1>2, <1>4, <1>5 DEF Typed, Kept, LimitsTyped, Tasks, Places, Phases, Apps,
      Pumps, PumpFrame, Live
<1>7. Shaped(x)' /\ Caused(x)'
  BY <1>1, <1>2, <1>4 DEF Typed, Kept, LimitsTyped, Apps, Shaped, Fresh, Holding, Placed,
      Producing, OffTheWire, CutOff, TakenWhole, IsLive, Leaving, Caused, CausesKept,
      PumpFrame, Live
<1>8. Undisturbed(c) /\ conn'[c].permit = conn[c].permit
  BY <1>1, <1>4 DEF Typed, Kept, Undisturbed, IsRunning, Settled, PumpOver, AppOver,
      Shaped, Placed, Holding, PumpFrame, Live
<1> QED
  BY <1>6, <1>7, <1>8 DEF Sound

(* A chunk is sent to the reader, if there is one.                         *)
LEMMA PumpSendKeeps ==
  ASSUME ConnectionInv, ServerInv, NEW c \in Clients, PumpSend(c)
  PROVE  Sound(c)' /\ Undisturbed(c) /\ conn'[c].permit = conn[c].permit
<1> DEFINE x == conn[c]
<1>1. Typed(x) /\ Shaped(x) /\ Caused(x) /\ LimitsTyped
  BY LimitsNat DEF ConnectionInv
<1>2. UNCHANGED setting /\ CausesKept
  BY DEF PumpSend, CausesKept, Record
<1>3. conn'[c] = [x EXCEPT !.pump = "reading",
          !.body = IF x.reader THEN Append(x.body, "data") ELSE x.body]
  BY <1>2, PutOne DEF PumpSend
<1>4. /\ Kept(conn'[c], x, {"pump", "body"})
      /\ conn'[c].pump = "reading"
      /\ conn'[c].body = IF x.reader THEN Append(x.body, "data") ELSE x.body
  BY <1>1, <1>3 DEF Typed, Fields, Kept
<1>5. conn'[c].body \in Seq(Chunks) /\ Len(conn'[c].body) <= Capacity
  BY <1>1, <1>4, BodyGrows DEF Typed, PumpSend, Chunks
<1>6. Typed(x)'
  BY <1>1, <1>2, <1>4, <1>5 DEF Typed, Kept, LimitsTyped, Tasks, Places, Phases, Apps,
      Pumps, PumpSend
<1>7. Shaped(x)' /\ Caused(x)'
  BY <1>1, <1>2, <1>4 DEF Typed, Kept, LimitsTyped, Apps, Shaped, Fresh, Holding, Placed,
      Producing, OffTheWire, CutOff, TakenWhole, IsLive, Leaving, Caused, CausesKept,
      PumpSend
<1>8. Undisturbed(c) /\ conn'[c].permit = conn[c].permit
  BY <1>1, <1>4 DEF Typed, Kept, Undisturbed, IsRunning, Settled, PumpOver, AppOver,
      Shaped, Placed, Holding, PumpSend
<1> QED
  BY <1>6, <1>7, <1>8 DEF Sound

(* The body breaks off.                                                    *)
LEMMA PumpBrokenKeeps ==
  ASSUME ConnectionInv, ServerInv, NEW c \in Clients, PumpBroken(c)
  PROVE  Sound(c)' /\ Undisturbed(c) /\ conn'[c].permit = conn[c].permit
<1> DEFINE x == conn[c]
<1>1. Typed(x) /\ Shaped(x) /\ Caused(x) /\ LimitsTyped
  BY LimitsNat DEF ConnectionInv
<1>2. UNCHANGED setting /\ CausesKept
  BY DEF PumpBroken, CausesKept, Record
<1>3. conn'[c] = [x EXCEPT !.pump = "failing"]
  BY <1>2, PutOne DEF PumpBroken, Live
<1>4. /\ Kept(conn'[c], x, {"pump"})
      /\ conn'[c].pump = "failing"
  BY <1>1, <1>3 DEF Typed, Fields, Kept
<1>6. Typed(x)'
  BY <1>1, <1>2, <1>4 DEF Typed, Kept, LimitsTyped, Tasks, Places, Phases, Apps, Pumps,
      PumpBroken, Live
<1>7. Shaped(x)' /\ Caused(x)'
  <2>1. Fresh(x)'
    BY <1>1, <1>2, <1>4 DEF Typed, Kept, LimitsTyped, Apps, Pumps, Shaped, Fresh,
        IsLive, PumpBroken, Live
  <2>2. Holding(x)'
    BY <1>1, <1>2, <1>4 DEF Typed, Kept, LimitsTyped, Apps, Pumps, Shaped, Holding,
        PumpBroken, Live
  <2>3. Placed(x)'
    BY <1>1, <1>2, <1>4 DEF Typed, Kept, LimitsTyped, Apps, Pumps, Shaped, Placed,
        Leaving, PumpBroken, Live
  <2>4. Producing(x)'
    BY <1>1, <1>2, <1>4 DEF Typed, Kept, LimitsTyped, Apps, Pumps, Shaped, Producing,
        PumpBroken, Live
  <2>5. OffTheWire(x)'
    BY <1>1, <1>2, <1>4 DEF Typed, Kept, LimitsTyped, Apps, Pumps, Shaped, OffTheWire,
        IsLive, Leaving, PumpBroken, Live
  <2>6. Caused(x)'
    BY <1>1, <1>2, <1>4 DEF Typed, Kept, LimitsTyped, Apps, Pumps, Shaped, Caused,
        TakenWhole, Placed, CausesKept, Leaving, PumpBroken, Live
  <2>7. CutOff(x)'
    BY <1>1, <1>2, <1>4 DEF Typed, Kept, LimitsTyped, Apps, Pumps, Shaped, CutOff,
        IsLive, Leaving, PumpBroken, Live
  <2> QED
    BY <2>1, <2>2, <2>3, <2>4, <2>5, <2>6, <2>7 DEF Shaped
<1>8. Undisturbed(c) /\ conn'[c].permit = conn[c].permit
  BY <1>1, <1>4 DEF Typed, Kept, Undisturbed, IsRunning, Settled, PumpOver, AppOver,
      Shaped, Placed, Holding, PumpBroken, Live
<1> QED
  BY <1>6, <1>7, <1>8 DEF Sound

(* The pump fails, and cancels its request.                                *)
LEMMA PumpFailKeeps ==
  ASSUME ConnectionInv, ServerInv, NEW c \in Clients, PumpFail(c)
  PROVE  Sound(c)' /\ Undisturbed(c) /\ conn'[c].permit = conn[c].permit
<1> DEFINE x == conn[c]
<1>1. Typed(x) /\ Shaped(x) /\ Caused(x) /\ LimitsTyped
  BY LimitsNat DEF ConnectionInv
<1>2. UNCHANGED setting /\ CausesKept
  BY DEF PumpFail, CausesKept, Record
<1>3. conn'[c] = [x EXCEPT !.pump = "over", !.phase = "head", !.cancelled = TRUE,
          !.body = IF x.reader THEN Append(x.body, "error") ELSE x.body]
  BY <1>2, PutOne DEF PumpFail
<1>4. /\ Kept(conn'[c], x, {"pump", "phase", "cancelled", "body"})
      /\ conn'[c].pump = "over"
      /\ conn'[c].phase = "head"
      /\ conn'[c].cancelled = TRUE
      /\ conn'[c].body = IF x.reader THEN Append(x.body, "error") ELSE x.body
  BY <1>1, <1>3 DEF Typed, Fields, Kept
<1>5. conn'[c].body \in Seq(Chunks) /\ Len(conn'[c].body) <= Capacity
  BY <1>1, <1>4, BodyGrows DEF Typed, PumpFail, Chunks
<1>6. Typed(x)'
  BY <1>1, <1>2, <1>4, <1>5 DEF Typed, Kept, LimitsTyped, Tasks, Places, Phases, Apps,
      Pumps, PumpFail
<1>7. Shaped(x)' /\ Caused(x)'
  BY <1>1, <1>2, <1>4 DEF Typed, Kept, LimitsTyped, Apps, Shaped, Fresh, Holding, Placed,
      Producing, OffTheWire, CutOff, TakenWhole, IsLive, Leaving, Caused, CausesKept,
      PumpFail
<1>8. Undisturbed(c) /\ conn'[c].permit = conn[c].permit
  BY <1>1, <1>4 DEF Typed, Kept, Undisturbed, IsRunning, Settled, PumpOver, AppOver,
      Shaped, Placed, Holding, PumpFail
<1> QED
  BY <1>6, <1>7, <1>8 DEF Sound

(* No frame is left, or no connection.                                     *)
LEMMA PumpEndKeeps ==
  ASSUME ConnectionInv, ServerInv, NEW c \in Clients, PumpEnd(c)
  PROVE  Sound(c)' /\ Undisturbed(c) /\ conn'[c].permit = conn[c].permit
<1> DEFINE x == conn[c]
<1>1. Typed(x) /\ Shaped(x) /\ Caused(x) /\ LimitsTyped
  BY LimitsNat DEF ConnectionInv
<1>2. UNCHANGED setting /\ CausesKept
  BY DEF PumpEnd, CausesKept, Record
<1>3. conn'[c] = [x EXCEPT !.pump = "over", !.phase = "head"]
  BY <1>2, PutOne DEF PumpEnd, Live
<1>4. /\ Kept(conn'[c], x, {"pump", "phase"})
      /\ conn'[c].pump = "over"
      /\ conn'[c].phase = "head"
  BY <1>1, <1>3 DEF Typed, Fields, Kept
<1>6. Typed(x)'
  BY <1>1, <1>2, <1>4 DEF Typed, Kept, LimitsTyped, Tasks, Places, Phases, Apps, Pumps,
      PumpEnd, Live
<1>7. Shaped(x)' /\ Caused(x)'
  BY <1>1, <1>2, <1>4 DEF Typed, Kept, LimitsTyped, Apps, Shaped, Fresh, Holding, Placed,
      Producing, OffTheWire, CutOff, TakenWhole, IsLive, Leaving, Caused, CausesKept,
      PumpEnd, Live
<1>8. Undisturbed(c) /\ conn'[c].permit = conn[c].permit
  BY <1>1, <1>4 DEF Typed, Kept, Undisturbed, IsRunning, Settled, PumpOver, AppOver,
      Shaped, Placed, Holding, PumpEnd, Live
<1> QED
  BY <1>6, <1>7, <1>8 DEF Sound

(* A guest starts, under a permit.                                         *)
LEMMA AppStartKeeps ==
  ASSUME ConnectionInv, ServerInv, NEW c \in Clients, AppStart(c)
  PROVE  Sound(c)' /\ Undisturbed(c) /\ conn'[c].permit
<1> DEFINE x == conn[c]
<1>1. Typed(x) /\ Shaped(x) /\ Caused(x) /\ LimitsTyped
  BY LimitsNat DEF ConnectionInv
<1>2. UNCHANGED setting /\ CausesKept
  BY DEF AppStart, CausesKept, Record
<1>3. conn'[c] = [x EXCEPT !.app = "running", !.permit = TRUE, !.hooked = TRUE]
  BY <1>2, PutOne DEF AppStart
<1>4. /\ Kept(conn'[c], x, {"app", "permit", "hooked"})
      /\ conn'[c].app = "running"
      /\ conn'[c].permit = TRUE
      /\ conn'[c].hooked = TRUE
  BY <1>1, <1>3 DEF Typed, Fields, Kept
<1>6. Typed(x)'
  BY <1>1, <1>2, <1>4 DEF Typed, Kept, LimitsTyped, Tasks, Places, Phases, Apps, Pumps,
      AppStart
<1>7. Shaped(x)' /\ Caused(x)'
  BY <1>1, <1>2, <1>4 DEF Typed, Kept, LimitsTyped, Apps, Shaped, Fresh, Holding, Placed,
      Producing, OffTheWire, CutOff, TakenWhole, IsLive, Leaving, Caused, CausesKept,
      AppStart
<1>8. Undisturbed(c) /\ conn'[c].permit
  BY <1>1, <1>4 DEF Typed, Kept, Undisturbed, IsRunning, Settled, PumpOver, AppOver,
      Shaped, Placed, Holding, AppStart
<1> QED
  BY <1>6, <1>7, <1>8 DEF Sound

(* The guest reads its body.                                               *)
LEMMA NextChunkKeeps ==
  ASSUME ConnectionInv, ServerInv, NEW c \in Clients, NextChunk(c)
  PROVE  Sound(c)' /\ Undisturbed(c) /\ conn'[c].permit = conn[c].permit
<1> DEFINE x == conn[c]
<1>1. Typed(x) /\ Shaped(x) /\ Caused(x) /\ LimitsTyped
  BY LimitsNat DEF ConnectionInv
<1>2. UNCHANGED setting /\ CausesKept
  BY DEF NextChunk, CausesKept, Record
<1>3. conn'[c] = [x EXCEPT !.app = IF x.cancelled THEN "failing" ELSE "reading"]
  BY <1>2, PutOne DEF NextChunk
<1>4. /\ Kept(conn'[c], x, {"app"})
      /\ conn'[c].app = IF x.cancelled THEN "failing" ELSE "reading"
  BY <1>1, <1>3 DEF Typed, Fields, Kept
<1>6. Typed(x)'
  BY <1>1, <1>2, <1>4 DEF Typed, Kept, LimitsTyped, Tasks, Places, Phases, Apps, Pumps,
      NextChunk
<1>7. Shaped(x)' /\ Caused(x)'
  BY <1>1, <1>2, <1>4 DEF Typed, Kept, LimitsTyped, Apps, Shaped, Fresh, Holding, Placed,
      Producing, OffTheWire, CutOff, TakenWhole, IsLive, Leaving, Caused, CausesKept,
      NextChunk
<1>8. Undisturbed(c) /\ conn'[c].permit = conn[c].permit
  BY <1>1, <1>4 DEF Typed, Kept, Undisturbed, IsRunning, Settled, PumpOver, AppOver,
      Shaped, Placed, Holding, NextChunk
<1> QED
  BY <1>6, <1>7, <1>8 DEF Sound

(* The guest writes.                                                       *)
LEMMA WriteKeeps ==
  ASSUME ConnectionInv, ServerInv, NEW c \in Clients, Write(c)
  PROVE  Sound(c)' /\ Undisturbed(c) /\ conn'[c].permit = conn[c].permit
<1> DEFINE x == conn[c]
<1>1. Typed(x) /\ Shaped(x) /\ Caused(x) /\ LimitsTyped
  BY LimitsNat DEF ConnectionInv
<1>2. UNCHANGED setting /\ CausesKept
  BY DEF Write, CausesKept, Record
<1>3. conn'[c] = [x EXCEPT !.app = IF x.cancelled THEN "stopping" ELSE "sending"]
  BY <1>2, PutOne DEF Write
<1>4. /\ Kept(conn'[c], x, {"app"})
      /\ conn'[c].app = IF x.cancelled THEN "stopping" ELSE "sending"
  BY <1>1, <1>3 DEF Typed, Fields, Kept
<1>6. Typed(x)'
  BY <1>1, <1>2, <1>4 DEF Typed, Kept, LimitsTyped, Tasks, Places, Phases, Apps, Pumps,
      Write
<1>7. Shaped(x)' /\ Caused(x)'
  BY <1>1, <1>2, <1>4 DEF Typed, Kept, LimitsTyped, Apps, Shaped, Fresh, Holding, Placed,
      Producing, OffTheWire, CutOff, TakenWhole, IsLive, Leaving, Caused, CausesKept,
      Write
<1>8. Undisturbed(c) /\ conn'[c].permit = conn[c].permit
  BY <1>1, <1>4 DEF Typed, Kept, Undisturbed, IsRunning, Settled, PumpOver, AppOver,
      Shaped, Placed, Holding, Write
<1> QED
  BY <1>6, <1>7, <1>8 DEF Sound

(* The guest flushes.                                                      *)
LEMMA FlushOutKeeps ==
  ASSUME ConnectionInv, ServerInv, NEW c \in Clients, FlushOut(c)
  PROVE  Sound(c)' /\ Undisturbed(c) /\ conn'[c].permit = conn[c].permit
<1> DEFINE x == conn[c]
<1>1. Typed(x) /\ Shaped(x) /\ Caused(x) /\ LimitsTyped
  BY LimitsNat DEF ConnectionInv
<1>2. UNCHANGED setting /\ CausesKept
  BY DEF FlushOut, CausesKept, Record
<1>3. conn'[c] = [x EXCEPT !.app = "flushing"]
  BY <1>2, PutOne DEF FlushOut
<1>4. /\ Kept(conn'[c], x, {"app"})
      /\ conn'[c].app = "flushing"
  BY <1>1, <1>3 DEF Typed, Fields, Kept
<1>6. Typed(x)'
  BY <1>1, <1>2, <1>4 DEF Typed, Kept, LimitsTyped, Tasks, Places, Phases, Apps, Pumps,
      FlushOut
<1>7. Shaped(x)' /\ Caused(x)'
  BY <1>1, <1>2, <1>4 DEF Typed, Kept, LimitsTyped, Apps, Shaped, Fresh, Holding, Placed,
      Producing, OffTheWire, CutOff, TakenWhole, IsLive, Leaving, Caused, CausesKept,
      FlushOut
<1>8. Undisturbed(c) /\ conn'[c].permit = conn[c].permit
  BY <1>1, <1>4 DEF Typed, Kept, Undisturbed, IsRunning, Settled, PumpOver, AppOver,
      Shaped, Placed, Holding, FlushOut
<1> QED
  BY <1>6, <1>7, <1>8 DEF Sound

(* The engine has taken what was flushed.                                  *)
LEMMA AckedKeeps ==
  ASSUME ConnectionInv, ServerInv, NEW c \in Clients, Acked(c)
  PROVE  Sound(c)' /\ Undisturbed(c) /\ conn'[c].permit = conn[c].permit
<1> DEFINE x == conn[c]
<1>1. Typed(x) /\ Shaped(x) /\ Caused(x) /\ LimitsTyped
  BY LimitsNat DEF ConnectionInv
<1>2. UNCHANGED setting /\ CausesKept
  BY DEF Acked, CausesKept, Record
<1>3. conn'[c] = [x EXCEPT
          !.app = IF x.sink THEN "producing" ELSE IF x.cancelled THEN "stopping" ELSE "disconnected"]
  BY <1>2, PutOne DEF Acked, SinkError
<1>4. /\ Kept(conn'[c], x, {"app"})
      /\ conn'[c].app = IF x.sink THEN "producing" ELSE IF x.cancelled THEN "stopping" ELSE "disconnected"
  BY <1>1, <1>3 DEF Typed, Fields, Kept
<1>6. Typed(x)'
  BY <1>1, <1>2, <1>4 DEF Typed, Kept, LimitsTyped, Tasks, Places, Phases, Apps, Pumps,
      Acked, SinkError, Shaped, Producing
<1>7. Shaped(x)' /\ Caused(x)'
  BY <1>1, <1>2, <1>4 DEF Typed, Kept, LimitsTyped, Apps, Shaped, Fresh, Holding, Placed,
      Producing, OffTheWire, CutOff, TakenWhole, IsLive, Leaving, Caused, CausesKept,
      Acked, SinkError
<1>8. Undisturbed(c) /\ conn'[c].permit = conn[c].permit
  BY <1>1, <1>4 DEF Typed, Kept, Undisturbed, IsRunning, Settled, PumpOver, AppOver,
      Shaped, Placed, Holding, Acked, SinkError
<1> QED
  BY <1>6, <1>7, <1>8 DEF Sound

(* The error of a producer is sent.                                        *)
LEMMA SendErrorKeeps ==
  ASSUME ConnectionInv, ServerInv, NEW c \in Clients, SendError(c)
  PROVE  Sound(c)' /\ Undisturbed(c) /\ conn'[c].permit = conn[c].permit
<1> DEFINE x == conn[c]
<1>1. Typed(x) /\ Shaped(x) /\ Caused(x) /\ LimitsTyped
  BY LimitsNat DEF ConnectionInv
<1>2. UNCHANGED setting /\ CausesKept
  BY DEF SendError, CausesKept, Record
<1>3. conn'[c] = [x EXCEPT !.app = "over",
          !.out = IF x.sink THEN Append(x.out, "error") ELSE x.out]
  BY <1>2, PutOne DEF SendError
<1>4. /\ Kept(conn'[c], x, {"app", "out"})
      /\ conn'[c].app = "over"
      /\ conn'[c].out = IF x.sink THEN Append(x.out, "error") ELSE x.out
  BY <1>1, <1>3 DEF Typed, Fields, Kept
<1>5. conn'[c].out \in Seq(Messages) /\ Len(conn'[c].out) <= Capacity
  BY <1>1, <1>4, OutGrows DEF Typed, SendError, Messages
<1>6. Typed(x)'
  BY <1>1, <1>2, <1>4, <1>5 DEF Typed, Kept, LimitsTyped, Tasks, Places, Phases, Apps,
      Pumps, SendError
<1>7. Shaped(x)' /\ Caused(x)'
  BY <1>1, <1>2, <1>4 DEF Typed, Kept, LimitsTyped, Apps, Shaped, Fresh, Holding, Placed,
      Producing, OffTheWire, CutOff, TakenWhole, IsLive, Leaving, Caused, CausesKept,
      SendError
<1>8. Undisturbed(c) /\ conn'[c].permit = conn[c].permit
  BY <1>1, <1>4 DEF Typed, Kept, Undisturbed, IsRunning, Settled, PumpOver, AppOver,
      Shaped, Placed, Holding, SendError
<1> QED
  BY <1>6, <1>7, <1>8 DEF Sound

(* A client connects.                                                      *)
LEMMA ConnectKeeps ==
  ASSUME ConnectionInv, ServerInv, NEW c \in Clients, Connect(c)
  PROVE  Sound(c)' /\ Undisturbed(c) /\ conn'[c].permit = conn[c].permit
<1> DEFINE x == conn[c]
<1>1. Typed(x) /\ Shaped(x) /\ Caused(x) /\ LimitsTyped
  BY LimitsNat DEF ConnectionInv
<1>2. UNCHANGED setting /\ CausesKept
  BY DEF Connect, CausesKept, Record
<1>3. conn'[c] = [x EXCEPT !.task = "knocking"]
  BY <1>2, PutOne DEF Connect
<1>4. /\ Kept(conn'[c], x, {"task"})
      /\ conn'[c].task = "knocking"
  BY <1>1, <1>3 DEF Typed, Fields, Kept
<1>6. Typed(x)'
  BY <1>1, <1>2, <1>4 DEF Typed, Kept, LimitsTyped, Tasks, Places, Phases, Apps, Pumps,
      Connect
<1>7. Shaped(x)' /\ Caused(x)'
  BY <1>1, <1>2, <1>4 DEF Typed, Kept, LimitsTyped, Apps, Shaped, Fresh, Holding, Placed,
      Producing, OffTheWire, CutOff, TakenWhole, IsLive, Leaving, Caused, CausesKept,
      Connect
<1>8. Undisturbed(c) /\ conn'[c].permit = conn[c].permit
  BY <1>1, <1>4 DEF Typed, Kept, Undisturbed, IsRunning, Settled, PumpOver, AppOver,
      Shaped, Placed, Holding, Connect
<1> QED
  BY <1>6, <1>7, <1>8 DEF Sound

(* A client leaves.                                                        *)
LEMMA ClientLeavesKeeps ==
  ASSUME ConnectionInv, ServerInv, NEW c \in Clients, ClientLeaves(c)
  PROVE  Sound(c)' /\ Undisturbed(c) /\ conn'[c].permit = conn[c].permit
<1> DEFINE x == conn[c]
<1>1. Typed(x) /\ Shaped(x) /\ Caused(x) /\ LimitsTyped
  BY LimitsNat DEF ConnectionInv
<1>2. UNCHANGED setting /\ CausesKept
  BY DEF ClientLeaves, CausesKept, Record
<1>3. conn'[c] = [x EXCEPT !.gone = TRUE]
  BY <1>2, PutOne DEF ClientLeaves, Live
<1>4. /\ Kept(conn'[c], x, {"gone"})
      /\ conn'[c].gone = TRUE
  BY <1>1, <1>3 DEF Typed, Fields, Kept
<1>6. Typed(x)'
  BY <1>1, <1>2, <1>4 DEF Typed, Kept, LimitsTyped, Tasks, Places, Phases, Apps, Pumps,
      ClientLeaves, Live
<1>7. Shaped(x)' /\ Caused(x)'
  BY <1>1, <1>2, <1>4 DEF Typed, Kept, LimitsTyped, Apps, Shaped, Fresh, Holding, Placed,
      Producing, OffTheWire, CutOff, TakenWhole, IsLive, Leaving, Caused, CausesKept,
      ClientLeaves, Live
<1>8. Undisturbed(c) /\ conn'[c].permit = conn[c].permit
  BY <1>1, <1>4 DEF Typed, Kept, Undisturbed, IsRunning, Settled, PumpOver, AppOver,
      Shaped, Placed, Holding, ClientLeaves, Live
<1> QED
  BY <1>6, <1>7, <1>8 DEF Sound

(* A connection is accepted.                                               *)
LEMMA AcceptKeeps ==
  ASSUME ConnectionInv, ServerInv, NEW c \in Clients, Accept(c)
  PROVE  Sound(c)' /\ (IsRunning(conn[c]))' /\ conn'[c].permit = conn[c].permit
         /\ conn'[c].lingers = conn[c].lingers
<1> DEFINE x == conn[c]
<1>1. Typed(x) /\ Shaped(x) /\ Caused(x) /\ LimitsTyped
  BY LimitsNat DEF ConnectionInv
<1>2. UNCHANGED setting /\ CausesKept
  BY DEF Accept, CausesKept, Record
<1>3. conn'[c] = [x EXCEPT !.task = "open"]
  BY <1>2, PutOne DEF Accept
<1>4. /\ Kept(conn'[c], x, {"task"})
      /\ conn'[c].task = "open"
  BY <1>1, <1>3 DEF Typed, Fields, Kept
<1>6. Typed(x)'
  BY <1>1, <1>2, <1>4 DEF Typed, Kept, LimitsTyped, Tasks, Places, Phases, Apps, Pumps,
      Accept
<1>7. Shaped(x)' /\ Caused(x)'
  BY <1>1, <1>2, <1>4 DEF Typed, Kept, LimitsTyped, Apps, Shaped, Fresh, Holding, Placed,
      Producing, OffTheWire, CutOff, TakenWhole, IsLive, Leaving, Caused, CausesKept,
      Accept
<1>8. (IsRunning(conn[c]))' /\ conn'[c].permit = conn[c].permit
         /\ conn'[c].lingers = conn[c].lingers
  BY <1>1, <1>4 DEF Typed, Kept, Undisturbed, IsRunning, Settled, PumpOver, AppOver,
      Shaped, Placed, Holding, Accept
<1> QED
  BY <1>6, <1>7, <1>8 DEF Sound

(* A connection is refused.                                                *)
LEMMA AcceptRefusedKeeps ==
  ASSUME ConnectionInv, ServerInv, NEW c \in Clients, AcceptRefused(c)
  PROVE  Sound(c)' /\ Undisturbed(c) /\ conn'[c].permit = conn[c].permit
<1> DEFINE x == conn[c]
<1>1. Typed(x) /\ Shaped(x) /\ Caused(x) /\ LimitsTyped
  BY LimitsNat DEF ConnectionInv
<1>2. UNCHANGED setting /\ CausesKept
  BY DEF AcceptRefused, CausesKept, Record
<1>3. conn'[c] = [x EXCEPT !.task = "joined"]
  BY <1>2, PutOne DEF AcceptRefused
<1>4. /\ Kept(conn'[c], x, {"task"})
      /\ conn'[c].task = "joined"
  BY <1>1, <1>3 DEF Typed, Fields, Kept
<1>6. Typed(x)'
  BY <1>1, <1>2, <1>4 DEF Typed, Kept, LimitsTyped, Tasks, Places, Phases, Apps, Pumps,
      AcceptRefused
<1>7. Shaped(x)' /\ Caused(x)'
  BY <1>1, <1>2, <1>4 DEF Typed, Kept, LimitsTyped, Apps, Shaped, Fresh, Holding, Placed,
      Producing, OffTheWire, CutOff, TakenWhole, IsLive, Leaving, Caused, CausesKept,
      AcceptRefused
<1>8. Undisturbed(c) /\ conn'[c].permit = conn[c].permit
  BY <1>1, <1>4 DEF Typed, Kept, Undisturbed, IsRunning, Settled, PumpOver, AppOver,
      Shaped, Placed, Holding, AcceptRefused
<1> QED
  BY <1>6, <1>7, <1>8 DEF Sound

(* The call of a guest returns.                                            *)
LEMMA ReturnKeeps ==
  ASSUME ConnectionInv, ServerInv, NEW c \in Clients, NEW answer,
         conn[c].app \in {"queued", "running", "failing"},
         conn[c].app = "queued" => answer = "failed",
         answer = "failed" \/ ~(conn[c].hooked /\ conn[c].cancelled), Return(c, answer)
  PROVE  Sound(c)' /\ Undisturbed(c) /\ (conn'[c].permit => conn[c].permit)
<1> DEFINE x == conn[c]
<1>1. Typed(x) /\ Shaped(x) /\ Caused(x) /\ LimitsTyped
  BY LimitsNat DEF ConnectionInv
<1>2. UNCHANGED setting /\ CausesKept
  BY DEF Return, CausesKept, Record
<1>3. conn'[c] = [x EXCEPT !.app = IF x.at = "calling" THEN "returned" ELSE "over",
          !.answer = IF x.at = "calling" THEN answer ELSE "none",
          !.hooked = (answer \in {"stream", "sized"} /\ x.at = "calling" /\ x.hooked),
          !.permit = (answer \in {"stream", "sized"} /\ x.at = "calling"),
          !.reader = (answer \in {"stream", "sized"} /\ x.at = "calling")]
  BY <1>2, PutOne DEF Return, Produced
<1>4. /\ Kept(conn'[c], x, {"app", "answer", "hooked", "permit", "reader"})
      /\ conn'[c].app = IF x.at = "calling" THEN "returned" ELSE "over"
      /\ conn'[c].answer = IF x.at = "calling" THEN answer ELSE "none"
      /\ conn'[c].hooked = (answer \in {"stream", "sized"} /\ x.at = "calling" /\ x.hooked)
      /\ conn'[c].permit = (answer \in {"stream", "sized"} /\ x.at = "calling")
      /\ conn'[c].reader = (answer \in {"stream", "sized"} /\ x.at = "calling")
  BY <1>1, <1>3 DEF Typed, Fields, Kept
<1>6. Typed(x)'
  BY <1>1, <1>2, <1>4 DEF Typed, Kept, LimitsTyped, Tasks, Places, Phases, Apps, Pumps,
      Return
<1>7. Shaped(x)' /\ Caused(x)'
  <2>1. Fresh(x)'
    BY <1>1, <1>2, <1>4 DEF Typed, Kept, LimitsTyped, Apps, Pumps, Shaped, Fresh,
        IsLive, Return
  <2>2. Holding(x)'
    BY <1>1, <1>2, <1>4 DEF Typed, Kept, LimitsTyped, Apps, Pumps, Shaped, Holding,
        Produced, Return
  <2>3. Placed(x)'
    BY <1>1, <1>2, <1>4 DEF Typed, Kept, LimitsTyped, Apps, Pumps, Shaped, Placed,
        Leaving, Return
  <2>4. Producing(x)'
    BY <1>1, <1>2, <1>4 DEF Typed, Kept, LimitsTyped, Apps, Pumps, Shaped, Producing,
        Return
  <2>5. OffTheWire(x)'
    BY <1>1, <1>2, <1>4 DEF Typed, Kept, LimitsTyped, Apps, Pumps, Shaped, OffTheWire,
        IsLive, Leaving, Return
  <2>6. Caused(x)'
    BY <1>1, <1>2, <1>4 DEF Typed, Kept, LimitsTyped, Apps, Pumps, Shaped, Caused,
        TakenWhole, Placed, CausesKept, Leaving, Return
  <2>7. CutOff(x)'
    BY <1>1, <1>2, <1>4 DEF Typed, Kept, LimitsTyped, Apps, Pumps, Shaped, CutOff,
        OffTheWire, IsLive, Leaving, Return
  <2> QED
    BY <2>1, <2>2, <2>3, <2>4, <2>5, <2>6, <2>7 DEF Shaped
<1>8. Undisturbed(c) /\ (conn'[c].permit => conn[c].permit)
  BY <1>1, <1>4 DEF Typed, Kept, Undisturbed, IsRunning, Settled, PumpOver, AppOver,
      Shaped, Placed, Holding, Produced, Return
<1> QED
  BY <1>6, <1>7, <1>8 DEF Sound

(* A producer ends.                                                        *)
LEMMA EndedKeeps ==
  ASSUME ConnectionInv, ServerInv, NEW c \in Clients, CausesKept,
         NEW next \in {"over", "reporting"}, conn[c].app \in {"producing", "stopping"},
         Ended(c, next)
  PROVE  Sound(c)' /\ Undisturbed(c) /\ ~conn'[c].permit
<1> DEFINE x == conn[c]
<1>1. Typed(x) /\ Shaped(x) /\ Caused(x) /\ LimitsTyped
  BY LimitsNat DEF ConnectionInv
<1>2. UNCHANGED setting /\ CausesKept
  BY DEF Ended, CausesKept, Record
<1>3. conn'[c] = [x EXCEPT !.app = next, !.hooked = FALSE, !.permit = FALSE,
          !.reader = FALSE]
  BY <1>2, PutOne DEF Ended
<1>4. /\ Kept(conn'[c], x, {"app", "hooked", "permit", "reader"})
      /\ conn'[c].app = next
      /\ conn'[c].hooked = FALSE
      /\ conn'[c].permit = FALSE
      /\ conn'[c].reader = FALSE
  BY <1>1, <1>3 DEF Typed, Fields, Kept
<1>6. Typed(x)'
  BY <1>1, <1>2, <1>4 DEF Typed, Kept, LimitsTyped, Tasks, Places, Phases, Apps, Pumps,
      Ended
<1>7. Shaped(x)' /\ Caused(x)'
  BY <1>1, <1>2, <1>4 DEF Typed, Kept, LimitsTyped, Apps, Shaped, Fresh, Holding, Placed,
      Producing, OffTheWire, CutOff, TakenWhole, IsLive, Leaving, Caused, CausesKept,
      Ended
<1>8. Undisturbed(c) /\ ~conn'[c].permit
  BY <1>1, <1>4 DEF Typed, Kept, Undisturbed, IsRunning, Settled, PumpOver, AppOver,
      Shaped, Placed, Holding, Ended
<1> QED
  BY <1>6, <1>7, <1>8 DEF Sound

(* hyper takes data: of a body without a producer there is no more.        *)
LEMMA TakeDataKeeps ==
  ASSUME ConnectionInv, ServerInv, NEW c \in Clients, TakeMessage(c),
         Head(conn[c].out) = "data"
  PROVE  Sound(c)' /\ Undisturbed(c) /\ conn'[c].permit = conn[c].permit
<1> DEFINE x == conn[c]
<1>1. Typed(x) /\ Shaped(x) /\ Caused(x) /\ LimitsTyped
  BY LimitsNat DEF ConnectionInv
<1>2. UNCHANGED setting /\ CausesKept
  BY DEF TakeMessage, CausesKept, Record
<1>3. conn'[c] = [x EXCEPT !.out = Tail(x.out), !.polled = ~x.sink]
  BY <1>2, PutOne DEF TakeMessage, Live, AppOver
<1>4. /\ Kept(conn'[c], x, {"out", "polled"})
      /\ conn'[c].out = Tail(x.out)
      /\ conn'[c].polled = ~x.sink
  BY <1>1, <1>3 DEF Typed, Fields, Kept
<1>5. conn'[c].out \in Seq(Messages) /\ Len(conn'[c].out) <= Capacity
  BY <1>1, <1>4, TailFits DEF Typed, TakeMessage, Messages
<1>6. Typed(x)'
  BY <1>1, <1>2, <1>4, <1>5 DEF Typed, Kept, LimitsTyped, Tasks, Places, Phases, Apps,
      Pumps, TakeMessage, Live, AppOver
<1>7. Shaped(x)' /\ Caused(x)'
  BY <1>1, <1>2, <1>4 DEF Typed, Kept, LimitsTyped, Apps, Shaped, Fresh, Holding, Placed,
      Producing, OffTheWire, CutOff, TakenWhole, IsLive, Leaving, Caused, CausesKept,
      TakeMessage, Live, AppOver
<1>8. Undisturbed(c) /\ conn'[c].permit = conn[c].permit
  BY <1>1, <1>4 DEF Typed, Kept, Undisturbed, IsRunning, Settled, PumpOver, AppOver,
      Shaped, Placed, Holding, TakeMessage, Live
<1> QED
  BY <1>6, <1>7, <1>8 DEF Sound

(* hyper takes a flush.                                                    *)
LEMMA TakeFlushKeeps ==
  ASSUME ConnectionInv, ServerInv, NEW c \in Clients, TakeMessage(c),
         Head(conn[c].out) = "flush"
  PROVE  Sound(c)' /\ Undisturbed(c) /\ conn'[c].permit = conn[c].permit
<1> DEFINE x == conn[c]
<1>1. Typed(x) /\ Shaped(x) /\ Caused(x) /\ LimitsTyped
  BY LimitsNat DEF ConnectionInv
<1>2. UNCHANGED setting /\ CausesKept
  BY DEF TakeMessage, CausesKept, Record
<1>3. conn'[c] = [x EXCEPT !.out = Tail(x.out)]
  BY <1>2, PutOne DEF TakeMessage, Live
<1>4. /\ Kept(conn'[c], x, {"out"})
      /\ conn'[c].out = Tail(x.out)
  BY <1>1, <1>3 DEF Typed, Fields, Kept
<1>5. conn'[c].out \in Seq(Messages) /\ Len(conn'[c].out) <= Capacity
  BY <1>1, <1>4, TailFits DEF Typed, TakeMessage, Messages
<1>6. Typed(x)'
  BY <1>1, <1>2, <1>4, <1>5 DEF Typed, Kept, LimitsTyped, Tasks, Places, Phases, Apps,
      Pumps, TakeMessage, Live
<1>7. Shaped(x)' /\ Caused(x)'
  BY <1>1, <1>2, <1>4 DEF Typed, Kept, LimitsTyped, Apps, Shaped, Fresh, Holding, Placed,
      Producing, OffTheWire, CutOff, TakenWhole, IsLive, Leaving, Caused, CausesKept,
      TakeMessage, Live
<1>8. Undisturbed(c) /\ conn'[c].permit = conn[c].permit
  BY <1>1, <1>4 DEF Typed, Kept, Undisturbed, IsRunning, Settled, PumpOver, AppOver,
      Shaped, Placed, Holding, TakeMessage, Live
<1> QED
  BY <1>6, <1>7, <1>8 DEF Sound

(* hyper takes the error of a producer.                                    *)
LEMMA TakeErrorKeeps ==
  ASSUME ConnectionInv, ServerInv, NEW c \in Clients, TakeMessage(c),
         Head(conn[c].out) = "error"
  PROVE  Sound(c)' /\ Undisturbed(c) /\ conn'[c].permit = conn[c].permit
<1> DEFINE x == conn[c]
<1>1. Typed(x) /\ Shaped(x) /\ Caused(x) /\ LimitsTyped
  BY LimitsNat DEF ConnectionInv
<1>2. UNCHANGED setting /\ CausesKept
  BY DEF TakeMessage, CausesKept, Record
<1>3. conn'[c] = [x EXCEPT !.task = "dropping", !.fault = TRUE]
  BY <1>2, PutOne DEF TakeMessage, Live
<1>4. /\ Kept(conn'[c], x, {"task", "fault"})
      /\ conn'[c].task = "dropping"
      /\ conn'[c].fault = TRUE
  BY <1>1, <1>3 DEF Typed, Fields, Kept
<1>6. Typed(x)'
  BY <1>1, <1>2, <1>4 DEF Typed, Kept, LimitsTyped, Tasks, Places, Phases, Apps, Pumps,
      TakeMessage, Live
<1>7. Shaped(x)' /\ Caused(x)'
  BY <1>1, <1>2, <1>4 DEF Typed, Kept, LimitsTyped, Apps, Shaped, Fresh, Holding, Placed,
      Producing, OffTheWire, CutOff, TakenWhole, IsLive, Leaving, Caused, CausesKept,
      TakeMessage, Live
<1>8. Undisturbed(c) /\ conn'[c].permit = conn[c].permit
  BY <1>1, <1>4 DEF Typed, Kept, Undisturbed, IsRunning, Settled, PumpOver, AppOver,
      Shaped, Placed, Holding, TakeMessage, Live
<1> QED
  BY <1>6, <1>7, <1>8 DEF Sound

(* A connection is dropped with the result of its application.             *)
LEMMA DropReturnedKeeps ==
  ASSUME ConnectionInv, ServerInv, NEW c \in Clients, DropCall(c), conn[c].app = "returned"
  PROVE  Sound(c)' /\ Undisturbed(c) /\ ~conn'[c].permit
<1> DEFINE x == conn[c]
<1>1. Typed(x) /\ Shaped(x) /\ Caused(x) /\ LimitsTyped
  BY LimitsNat DEF ConnectionInv
<1>2. UNCHANGED setting /\ CausesKept
  BY DEF DropCall, CausesKept, Record
<1>3. conn'[c] = [x EXCEPT !.at = "idle", !.guard = FALSE, !.app = "over",
          !.answer = "none", !.hooked = FALSE, !.permit = FALSE, !.reader = FALSE]
  BY <1>2, PutOne DEF DropCall
<1>4. /\ Kept(conn'[c], x, {"at", "guard", "app", "answer", "hooked", "permit", "reader"})
      /\ conn'[c].at = "idle"
      /\ conn'[c].guard = FALSE
      /\ conn'[c].app = "over"
      /\ conn'[c].answer = "none"
      /\ conn'[c].hooked = FALSE
      /\ conn'[c].permit = FALSE
      /\ conn'[c].reader = FALSE
  BY <1>1, <1>3 DEF Typed, Fields, Kept
<1>6. Typed(x)'
  BY <1>1, <1>2, <1>4 DEF Typed, Kept, LimitsTyped, Tasks, Places, Phases, Apps, Pumps,
      DropCall
<1>7. Shaped(x)' /\ Caused(x)'
  BY <1>1, <1>2, <1>4 DEF Typed, Kept, LimitsTyped, Apps, Shaped, Fresh, Holding, Placed,
      Producing, OffTheWire, CutOff, TakenWhole, IsLive, Leaving, Caused, CausesKept,
      DropCall
<1>8. Undisturbed(c) /\ ~conn'[c].permit
  BY <1>1, <1>4 DEF Typed, Kept, Undisturbed, IsRunning, Settled, PumpOver, AppOver,
      Shaped, Placed, Holding, DropCall
<1> QED
  BY <1>6, <1>7, <1>8 DEF Sound

(* A connection is dropped before its application has a result.            *)
LEMMA DropCallingKeeps ==
  ASSUME ConnectionInv, ServerInv, NEW c \in Clients, DropCall(c), conn[c].app # "returned"
  PROVE  Sound(c)' /\ Undisturbed(c) /\ conn'[c].permit = conn[c].permit
<1> DEFINE x == conn[c]
<1>1. Typed(x) /\ Shaped(x) /\ Caused(x) /\ LimitsTyped
  BY LimitsNat DEF ConnectionInv
<1>2. UNCHANGED setting /\ CausesKept
  BY DEF DropCall, CausesKept, Record
<1>3. conn'[c] = [x EXCEPT !.at = "idle", !.guard = FALSE]
  BY <1>2, PutOne DEF DropCall
<1>4. /\ Kept(conn'[c], x, {"at", "guard"})
      /\ conn'[c].at = "idle"
      /\ conn'[c].guard = FALSE
  BY <1>1, <1>3 DEF Typed, Fields, Kept
<1>6. Typed(x)'
  BY <1>1, <1>2, <1>4 DEF Typed, Kept, LimitsTyped, Tasks, Places, Phases, Apps, Pumps,
      DropCall
<1>7. Shaped(x)' /\ Caused(x)'
  BY <1>1, <1>2, <1>4 DEF Typed, Kept, LimitsTyped, Apps, Shaped, Fresh, Holding, Placed,
      Producing, OffTheWire, CutOff, TakenWhole, IsLive, Leaving, Caused, CausesKept,
      DropCall
<1>8. Undisturbed(c) /\ conn'[c].permit = conn[c].permit
  BY <1>1, <1>4 DEF Typed, Kept, Undisturbed, IsRunning, Settled, PumpOver, AppOver,
      Shaped, Placed, Holding, DropCall
<1> QED
  BY <1>6, <1>7, <1>8 DEF Sound

(* The reader takes a chunk.                                               *)
LEMMA ReceiveChunkKeeps ==
  ASSUME ConnectionInv, ServerInv, NEW c \in Clients, Received(c), conn[c].body # <<>>
  PROVE  Sound(c)' /\ Undisturbed(c) /\ conn'[c].permit = conn[c].permit
<1> DEFINE x == conn[c]
<1>1. Typed(x) /\ Shaped(x) /\ Caused(x) /\ LimitsTyped
  BY LimitsNat DEF ConnectionInv
<1>2. UNCHANGED setting /\ CausesKept
  BY DEF Received, CausesKept, Record
<1>3. conn'[c] = [x EXCEPT !.app = IF Head(x.body) = "error" THEN "failing" ELSE "running",
          !.body = Tail(x.body)]
  BY <1>2, PutOne DEF Received
<1>4. /\ Kept(conn'[c], x, {"app", "body"})
      /\ conn'[c].app = IF Head(x.body) = "error" THEN "failing" ELSE "running"
      /\ conn'[c].body = Tail(x.body)
  BY <1>1, <1>3 DEF Typed, Fields, Kept
<1>5. conn'[c].body \in Seq(Chunks) /\ Len(conn'[c].body) <= Capacity
  BY <1>1, <1>4, BodyTailFits DEF Typed, Received, Chunks
<1>6. Typed(x)'
  BY <1>1, <1>2, <1>4, <1>5 DEF Typed, Kept, LimitsTyped, Tasks, Places, Phases, Apps,
      Pumps, Received
<1>7. Shaped(x)' /\ Caused(x)'
  BY <1>1, <1>2, <1>4 DEF Typed, Kept, LimitsTyped, Apps, Shaped, Fresh, Holding, Placed,
      Producing, OffTheWire, CutOff, TakenWhole, IsLive, Leaving, Caused, CausesKept,
      Received
<1>8. Undisturbed(c) /\ conn'[c].permit = conn[c].permit
  BY <1>1, <1>4 DEF Typed, Kept, Undisturbed, IsRunning, Settled, PumpOver, AppOver,
      Shaped, Placed, Holding, Received
<1> QED
  BY <1>6, <1>7, <1>8 DEF Sound

(* The reader finds the channel empty and its sender gone.                 *)
LEMMA ReceiveEndKeeps ==
  ASSUME ConnectionInv, ServerInv, NEW c \in Clients, Received(c), conn[c].body = <<>>
  PROVE  Sound(c)' /\ Undisturbed(c) /\ conn'[c].permit = conn[c].permit
<1> DEFINE x == conn[c]
<1>1. Typed(x) /\ Shaped(x) /\ Caused(x) /\ LimitsTyped
  BY LimitsNat DEF ConnectionInv
<1>2. UNCHANGED setting /\ CausesKept
  BY DEF Received, CausesKept, Record
<1>3. conn'[c] = [x EXCEPT !.app = "running", !.cut = TRUE]
  BY <1>2, PutOne DEF Received, PumpOver
<1>4. /\ Kept(conn'[c], x, {"app", "cut"})
      /\ conn'[c].app = "running"
      /\ conn'[c].cut = TRUE
  BY <1>1, <1>3 DEF Typed, Fields, Kept
<1>6. Typed(x)'
  BY <1>1, <1>2, <1>4 DEF Typed, Kept, LimitsTyped, Tasks, Places, Phases, Apps, Pumps,
      Received, PumpOver
<1>7. Shaped(x)' /\ Caused(x)'
  BY <1>1, <1>2, <1>4 DEF Typed, Kept, LimitsTyped, Apps, Shaped, Fresh, Holding, Placed,
      Producing, OffTheWire, CutOff, TakenWhole, IsLive, Leaving, Caused, CausesKept,
      Received, PumpOver
<1>8. Undisturbed(c) /\ conn'[c].permit = conn[c].permit
  BY <1>1, <1>4 DEF Typed, Kept, Undisturbed, IsRunning, Settled, PumpOver, AppOver,
      Shaped, Placed, Holding, Received, PumpOver
<1> QED
  BY <1>6, <1>7, <1>8 DEF Sound

(* A producer sends.                                                       *)
LEMMA SendTakenKeeps ==
  ASSUME ConnectionInv, ServerInv, NEW c \in Clients,
         conn[c].app \in {"sending", "flushing"}, NEW message \in Messages,
         NEW next \in {"producing", "acking"}, Send(c, message, next), conn[c].sink
  PROVE  Sound(c)' /\ Undisturbed(c) /\ conn'[c].permit = conn[c].permit
<1> DEFINE x == conn[c]
<1>1. Typed(x) /\ Shaped(x) /\ Caused(x) /\ LimitsTyped
  BY LimitsNat DEF ConnectionInv
<1>2. UNCHANGED setting /\ CausesKept
  BY DEF Send, CausesKept, Record
<1>3. conn'[c] = [x EXCEPT !.app = next, !.out = Append(x.out, message),
          !.left = IF message = "data" /\ x.sized THEN x.left - 1 ELSE x.left]
  BY <1>2, PutOne DEF Send
<1>4. /\ Kept(conn'[c], x, {"app", "out", "left"})
      /\ conn'[c].app = next
      /\ conn'[c].out = Append(x.out, message)
  BY ONLY <1>1, <1>3 DEF Typed, Fields, Kept
<1>5. conn'[c].out \in Seq(Messages) /\ Len(conn'[c].out) <= Capacity
  BY <1>1, <1>4, OutGrows DEF Typed, Send, Messages
<1>6. Typed(x)'
  BY <1>1, <1>2, <1>4, <1>5 DEF Typed, Kept, LimitsTyped, Tasks, Places, Phases, Apps,
      Pumps, Send
<1>7. Shaped(x)' /\ Caused(x)'
  <2>1. Fresh(x)'
    BY <1>1, <1>2, <1>4 DEF Typed, Kept, LimitsTyped, Apps, Pumps, Shaped, Fresh,
        IsLive, Send
  <2>2. Holding(x)'
    BY <1>1, <1>2, <1>4 DEF Typed, Kept, LimitsTyped, Apps, Pumps, Shaped, Holding, Send
  <2>3. Placed(x)'
    BY <1>1, <1>2, <1>4 DEF Typed, Kept, LimitsTyped, Apps, Pumps, Shaped, Placed,
        Leaving, Send
  <2>4. Producing(x)'
    BY <1>1, <1>2, <1>4 DEF Typed, Kept, LimitsTyped, Apps, Pumps, Shaped, Producing,
        Send
  <2>5. OffTheWire(x)'
    BY <1>1, <1>2, <1>4 DEF Typed, Kept, LimitsTyped, Apps, Pumps, Shaped, OffTheWire,
        IsLive, Leaving, Send
  <2>6. Caused(x)'
    BY <1>1, <1>2, <1>4 DEF Typed, Kept, LimitsTyped, Apps, Pumps, Shaped, Caused,
        TakenWhole, Placed, CausesKept, Leaving, Send
  <2>7. CutOff(x)'
    BY <1>1, <1>2, <1>4 DEF Typed, Kept, LimitsTyped, Apps, Pumps, Shaped, CutOff,
        IsLive, Leaving, Send
  <2> QED
    BY <2>1, <2>2, <2>3, <2>4, <2>5, <2>6, <2>7 DEF Shaped
<1>8. Undisturbed(c) /\ conn'[c].permit = conn[c].permit
  BY <1>1, <1>4 DEF Typed, Kept, Undisturbed, IsRunning, Settled, PumpOver, AppOver,
      Shaped, Placed, Holding, Send
<1> QED
  BY <1>6, <1>7, <1>8 DEF Sound

(* A producer sends to a channel that is closed: its request was cancelled.*)
LEMMA SendRefusedKeeps ==
  ASSUME ConnectionInv, ServerInv, NEW c \in Clients,
         conn[c].app \in {"sending", "flushing"}, NEW message \in Messages,
         NEW next \in {"producing", "acking"}, Send(c, message, next), ~conn[c].sink
  PROVE  Sound(c)' /\ Undisturbed(c) /\ conn'[c].permit = conn[c].permit
<1> DEFINE x == conn[c]
<1>1. Typed(x) /\ Shaped(x) /\ Caused(x) /\ LimitsTyped
  BY LimitsNat DEF ConnectionInv
<1>2. UNCHANGED setting /\ CausesKept
  BY DEF Send, CausesKept, Record
<1>3. conn'[c] = [x EXCEPT !.app = IF x.cancelled THEN "stopping" ELSE "disconnected"]
  BY <1>2, PutOne DEF Send, SinkError
<1>4. /\ Kept(conn'[c], x, {"app"})
      /\ conn'[c].app = IF x.cancelled THEN "stopping" ELSE "disconnected"
  BY ONLY <1>1, <1>3 DEF Typed, Fields, Kept
<1>6. Typed(x)'
  BY <1>1, <1>2, <1>4 DEF Typed, Kept, LimitsTyped, Tasks, Places, Phases, Apps, Pumps,
      Send, SinkError, Shaped, Producing
<1>7. Shaped(x)' /\ Caused(x)'
  BY <1>1, <1>2, <1>4 DEF Typed, Kept, LimitsTyped, Apps, Shaped, Fresh, Holding, Placed,
      Producing, OffTheWire, CutOff, TakenWhole, IsLive, Leaving, Caused, CausesKept,
      Send, SinkError
<1>8. Undisturbed(c) /\ conn'[c].permit = conn[c].permit
  BY <1>1, <1>4 DEF Typed, Kept, Undisturbed, IsRunning, Settled, PumpOver, AppOver,
      Shaped, Placed, Holding, Send, SinkError
<1> QED
  BY <1>6, <1>7, <1>8 DEF Sound

(* The runtime is dropped, and with it what waits or is queued.            *)
LEMMA DropTasksKeeps ==
  ASSUME ConnectionInv, ServerInv, NEW c \in Clients, DropTasks(c)
  PROVE  Sound(c)' /\ Undisturbed(c) /\ conn'[c].permit = conn[c].permit
<1> DEFINE x == conn[c]
<1>1. Typed(x) /\ Shaped(x) /\ Caused(x) /\ LimitsTyped
  BY LimitsNat DEF ConnectionInv
<1>2. UNCHANGED setting /\ CausesKept
  BY DEF DropTasks, CausesKept, Record
<1>3. conn'[c] = [x EXCEPT !.task = IF Live(c) THEN "dropping" ELSE x.task,
          !.pump = IF PumpOver(c) THEN x.pump ELSE "over",
          !.app = IF x.app = "queued" THEN "over" ELSE x.app,
          !.reader = (x.reader /\ x.app # "queued")]
  BY <1>2, PutOne DEF DropTasks, Live, PumpOver
<1>4. /\ Kept(conn'[c], x, {"task", "pump", "app", "reader"})
      /\ conn'[c].task = IF Live(c) THEN "dropping" ELSE x.task
      /\ conn'[c].pump = IF PumpOver(c) THEN x.pump ELSE "over"
      /\ conn'[c].app = IF x.app = "queued" THEN "over" ELSE x.app
      /\ conn'[c].reader = (x.reader /\ x.app # "queued")
  BY <1>1, <1>3 DEF Typed, Fields, Kept
<1>6. Typed(x)'
  BY <1>1, <1>2, <1>4 DEF Typed, Kept, LimitsTyped, Tasks, Places, Phases, Apps, Pumps,
      DropTasks, Live, PumpOver
<1>7. Shaped(x)' /\ Caused(x)'
  <2>1. Fresh(x)'
    BY <1>1, <1>2, <1>4 DEF Typed, Kept, LimitsTyped, Apps, Pumps, Shaped, Fresh,
        IsLive, DropTasks, Live, PumpOver
  <2>2. Holding(x)'
    BY <1>1, <1>2, <1>4 DEF Typed, Kept, LimitsTyped, Apps, Pumps, Shaped, Holding,
        DropTasks, Live, PumpOver
  <2>3. Placed(x)'
    BY <1>1, <1>2, <1>4 DEF Typed, Kept, LimitsTyped, Apps, Pumps, Shaped, Placed,
        Leaving, DropTasks, Live, PumpOver
  <2>4. Producing(x)'
    BY <1>1, <1>2, <1>4 DEF Typed, Kept, LimitsTyped, Apps, Pumps, Shaped, Producing,
        DropTasks, Live, PumpOver
  <2>5. OffTheWire(x)'
    BY <1>1, <1>2, <1>4 DEF Typed, Kept, LimitsTyped, Apps, Pumps, Shaped, OffTheWire,
        IsLive, Leaving, DropTasks, Live, PumpOver
  <2>6. Caused(x)'
    BY <1>1, <1>2, <1>4 DEF Typed, Kept, LimitsTyped, Apps, Pumps, Shaped, Caused,
        TakenWhole, Placed, CausesKept, Leaving, DropTasks, Live, PumpOver
  <2>7. CutOff(x)'
    BY <1>1, <1>2, <1>4 DEF Typed, Kept, LimitsTyped, Apps, Pumps, Shaped, CutOff,
        IsLive, Leaving, DropTasks, Live, PumpOver
  <2> QED
    BY <2>1, <2>2, <2>3, <2>4, <2>5, <2>6, <2>7 DEF Shaped
<1>8. Undisturbed(c) /\ conn'[c].permit = conn[c].permit
  BY <1>1, <1>4 DEF Typed, Kept, Undisturbed, IsRunning, Settled, PumpOver, AppOver,
      Shaped, Placed, Holding, DropTasks, Live, PumpOver
<1> QED
  BY <1>6, <1>7, <1>8 DEF Sound

(* What is left of a body is read as a head.                               *)
LEMMA RestArrivedKeeps ==
  ASSUME ConnectionInv, ServerInv, NEW c \in Clients, RestArrived(c)
  PROVE  Sound(c)' /\ Undisturbed(c) /\ conn'[c].permit = conn[c].permit
<1> DEFINE x == conn[c]
<1>1. Typed(x) /\ Shaped(x) /\ Caused(x) /\ LimitsTyped
  BY LimitsNat DEF ConnectionInv
<1>2. UNCHANGED setting /\ CausesKept
  BY DEF RestArrived, CausesKept
<1>3. conn'[c] = [x EXCEPT !.unsent = 0]
  BY <1>2, PutOne DEF RestArrived
<1>4. /\ Kept(conn'[c], x, {"unsent"})
      /\ conn'[c].unsent = 0
  BY <1>1, <1>3 DEF Typed, Fields, Kept
<1>5. conn'[c].unsent \in 0..setting.chunks
  BY <1>1, <1>4 DEF LimitsTyped
<1>6. Typed(x)'
  BY <1>1, <1>2, <1>4, <1>5 DEF Typed, Kept, LimitsTyped, Tasks, Places, Phases, Apps, Pumps
<1>7. Shaped(x)' /\ Caused(x)'
  BY <1>1, <1>2, <1>4 DEF Typed, Kept, LimitsTyped, Apps, Shaped, Fresh, Holding,
      Placed, Producing, OffTheWire, CutOff, TakenWhole, IsLive, Leaving, Caused, CausesKept
<1>8. Undisturbed(c) /\ conn'[c].permit = conn[c].permit
  BY <1>1, <1>4 DEF Typed, Kept, Undisturbed, IsRunning, Settled, PumpOver, AppOver
<1> QED
  BY <1>6, <1>7, <1>8 DEF Sound

(* The next request starts afresh.                                         *)
LEMMA KeepAliveKeeps ==
  ASSUME ConnectionInv, ServerInv, NEW c \in Clients, KeepAlive(c)
  PROVE  Sound(c)' /\ (Settled(c) => Settled(c)') /\ IsRunning(conn[c])' = IsRunning(conn[c])
         /\ ~conn'[c].permit /\ conn'[c].lingers = (conn[c].lingers \/ conn[c].permit)
<1> DEFINE x == conn[c]
<1>1. Typed(x) /\ Shaped(x) /\ Caused(x) /\ LimitsTyped
  BY LimitsNat DEF ConnectionInv
<1>2. UNCHANGED setting /\ CausesKept
  BY DEF KeepAlive, CausesKept, Record
<1>3. conn'[c] = [k \in DOMAIN x |-> CASE k = "lingers" -> x.lingers \/ x.permit
                                      [] k \in DOMAIN NoRequest -> NoRequest[k]
                                      [] OTHER -> x[k]]
  BY <1>2, PutOne DEF KeepAlive
<1>4. /\ Kept(conn'[c], x, {"lingers", "at", "guard", "cancelled", "hooked", "app",
            "answer", "permit", "reader", "pump", "body", "unsent", "taken", "out",
            "sink", "sized", "left", "polled", "done", "cut"})
      /\ conn'[c].lingers = (x.lingers \/ x.permit)
      /\ conn'[c].at = "idle"
      /\ conn'[c].guard = FALSE
      /\ conn'[c].cancelled = FALSE
      /\ conn'[c].hooked = FALSE
      /\ conn'[c].app = "none"
      /\ conn'[c].answer = "none"
      /\ conn'[c].permit = FALSE
      /\ conn'[c].reader = FALSE
      /\ conn'[c].pump = "none"
      /\ conn'[c].body = <<>>
      /\ conn'[c].unsent = 0
      /\ conn'[c].taken = 0
      /\ conn'[c].out = <<>>
      /\ conn'[c].sink = FALSE
      /\ conn'[c].sized = FALSE
      /\ conn'[c].left = 0
      /\ conn'[c].polled = FALSE
      /\ conn'[c].done = FALSE
      /\ conn'[c].cut = FALSE
  <2>1. DOMAIN x = Fields
    BY <1>1 DEF Typed
  <2>2. Kept(conn'[c], x, {"lingers", "at", "guard", "cancelled", "hooked", "app",
              "answer", "permit", "reader", "pump", "body", "unsent", "taken", "out",
              "sink", "sized", "left", "polled", "done", "cut"})
    <3>1. \A k \in Fields \ {"lingers", "at", "guard", "cancelled", "hooked", "app",
                "answer", "permit", "reader", "pump", "body", "unsent", "taken", "out",
                "sink", "sized", "left", "polled", "done", "cut"} : conn'[c][k] = x[k]
      BY ONLY <1>3, <2>1 DEF NoRequest
    <3>2. DOMAIN conn'[c] = Fields
      BY ONLY <1>3, <2>1
    <3> QED
      BY <3>1, <3>2 DEF Fields, Kept
  <2>3. /\ conn'[c].lingers = (x.lingers \/ x.permit)
        /\ conn'[c].at = "idle"
        /\ conn'[c].guard = FALSE
        /\ conn'[c].cancelled = FALSE
        /\ conn'[c].hooked = FALSE
        /\ conn'[c].app = "none"
        /\ conn'[c].answer = "none"
        /\ conn'[c].permit = FALSE
        /\ conn'[c].reader = FALSE
        /\ conn'[c].pump = "none"
        /\ conn'[c].body = <<>>
        /\ conn'[c].unsent = 0
        /\ conn'[c].taken = 0
        /\ conn'[c].out = <<>>
        /\ conn'[c].sink = FALSE
        /\ conn'[c].sized = FALSE
        /\ conn'[c].left = 0
        /\ conn'[c].polled = FALSE
        /\ conn'[c].done = FALSE
        /\ conn'[c].cut = FALSE
    BY ONLY <1>3, <2>1 DEF Fields, NoRequest
  <2> QED
    BY <2>2, <2>3
<1>5. /\ conn'[c].body \in Seq(Chunks) /\ conn'[c].out \in Seq(Messages)
      /\ Len(conn'[c].body) <= Capacity /\ Len(conn'[c].out) <= Capacity
      /\ 0 \in 0..setting.chunks /\ 0 \in 0..(setting.maxBody + 1)
  BY <1>1, <1>4, ShortQueues DEF LimitsTyped, Chunks
<1>6. Typed(x)'
  BY <1>1, <1>2, <1>4, <1>5 DEF Typed, Kept, LimitsTyped, Tasks, Places, Phases, Apps,
      Pumps, KeepAlive
<1>7. Shaped(x)' /\ Caused(x)'
  BY <1>1, <1>2, <1>4 DEF Typed, Kept, LimitsTyped, Apps, Shaped, Fresh, Holding, Placed,
      Producing, OffTheWire, CutOff, TakenWhole, IsLive, Leaving, Caused, CausesKept,
      KeepAlive
<1>8. /\ Settled(c) => Settled(c)'
      /\ IsRunning(conn[c])' = IsRunning(conn[c])
      /\ ~conn'[c].permit /\ conn'[c].lingers = (conn[c].lingers \/ conn[c].permit)
  BY <1>1, <1>4 DEF Typed, Kept, Undisturbed, IsRunning, Settled, PumpOver, AppOver,
      Shaped, Placed, Holding, KeepAlive
<1> QED
  BY <1>6, <1>7, <1>8 DEF Sound

----------------------------------------------------------------------------
(* From one connection to the whole server: the counters follow the steps. *)

(* A producer that its response has outlived ends.                         *)
LEMMA LingererEndsKeeps ==
  ASSUME ConnectionInv, ServerInv, NEW c \in Clients, LingererEnds(c)
  PROVE  Sound(c)' /\ (Settled(c) => Settled(c)') /\ IsRunning(conn[c])' = IsRunning(conn[c])
         /\ conn'[c].permit = conn[c].permit /\ ~conn'[c].lingers
<1> DEFINE x == conn[c]
<1>1. Typed(x) /\ Shaped(x) /\ Caused(x) /\ LimitsTyped
  BY LimitsNat DEF ConnectionInv
<1>2. UNCHANGED setting /\ CausesKept
  BY DEF LingererEnds, CausesKept, Record
<1>3. conn'[c] = [x EXCEPT !.lingers = FALSE]
  BY <1>2, PutOne DEF LingererEnds
<1>4. /\ Kept(conn'[c], x, {"lingers"})
      /\ conn'[c].lingers = FALSE
  BY <1>1, <1>3 DEF Typed, Fields, Kept
<1>6. Typed(x)'
  BY <1>1, <1>2, <1>4 DEF Typed, Kept, LimitsTyped, Tasks, Places, Phases, Apps, Pumps
<1>7. Shaped(x)' /\ Caused(x)'
  BY <1>1, <1>2, <1>4 DEF Typed, Kept, LimitsTyped, Apps, Shaped, Fresh, Holding,
      Placed, Producing, OffTheWire, CutOff, TakenWhole, IsLive, Leaving, Caused, CausesKept
<1>8. /\ Settled(c) => Settled(c)'
      /\ IsRunning(conn[c])' = IsRunning(conn[c])
      /\ conn'[c].permit = conn[c].permit /\ ~conn'[c].lingers
  BY <1>1, <1>4 DEF Typed, Kept, IsRunning, Settled, PumpOver, AppOver
<1> QED
  BY <1>6, <1>7, <1>8 DEF Sound

(* What a step on one connection leaves of the others.                     *)
LEMMA Others ==
  ASSUME NEW d \in Clients, Sound(d), conn'[d] = conn[d], CausesKept
  PROVE  Sound(d)' /\ Undisturbed(d)
<1>1. Typed(conn[d])'
  BY DEF Sound, Typed, CausesKept
<1>2. Shaped(conn[d])'
  BY DEF Sound, Shaped, Fresh, Holding, Placed, Producing, OffTheWire, CutOff, TakenWhole,
      IsLive, Leaving, CausesKept
<1>3. Caused(conn[d])'
  BY DEF Sound, Caused, CausesKept, Leaving
<1>4. Undisturbed(d)
  BY DEF Undisturbed, Settled, PumpOver, AppOver, IsRunning
<1> QED
  BY <1>1, <1>2, <1>3, <1>4 DEF Sound

(* The permits a host counts, and the connections that hold one.           *)
LEMMA CountsTyped ==
  ASSUME ServerInv
  PROVE  /\ IsFiniteSet(Clients)
         /\ IsFiniteSet(Running) /\ Cardinality(Running) \in Nat
         /\ IsFiniteSet(Permits) /\ Cardinality(Permits) \in Nat
         /\ IsFiniteSet(Lingerers) /\ Cardinality(Lingerers) \in Nat
<1>1. setting.clients \in Nat
  BY SettingsAssumption DEF ServerInv, Numbers, Switches
<1>2. IsFiniteSet(Clients)
  BY <1>1, FS_Interval DEF Clients
<1>3. Running \subseteq Clients /\ Permits \subseteq Clients /\ Lingerers \subseteq Clients
  BY DEF Running, Permits, Lingerers
<1> QED
  BY <1>2, <1>3, FS_Subset, FS_CardinalityType

(* A step that leaves every connection sound, running or not as it was.    *)
LEMMA Unmoved ==
  ASSUME UNCHANGED setting, conn' = [d \in Clients |-> conn'[d]],
         \A d \in Clients : Sound(d)' /\ Undisturbed(d) /\ conn'[d].permit = conn[d].permit
  PROVE  /\ ConnectionInv' /\ Running' = Running /\ Permits' = Permits
         /\ Lingerers' = Lingerers
         /\ (\A d \in Clients : Settled(d)) => (\A d \in Clients : Settled(d))'
<1>1. Clients' = Clients
  BY DEF Clients
<1>2. ConnectionInv'
  BY <1>1 DEF ConnectionInv, Sound
<1>3. Running' = Running
  BY <1>1 DEF Running, Undisturbed, IsRunning
<1>4. Permits' = Permits /\ Lingerers' = Lingerers
  BY <1>1 DEF Permits, Lingerers, Undisturbed
<1> QED
  BY <1>1, <1>2, <1>3, <1>4 DEF Undisturbed

(* A step on one connection leaves every other sound.                      *)
LEMMA OneConnection ==
  ASSUME ConnectionInv, NEW c \in Clients, NEW y, Put(c, y), CausesKept
  PROVE  /\ Clients' = Clients /\ conn' = [d \in Clients |-> conn'[d]]
         /\ \A d \in Clients \ {c} :
              Sound(d)' /\ Undisturbed(d) /\ conn'[d].permit = conn[d].permit
<1>1. /\ \A d \in Clients \ {c} : conn'[d] = conn[d]
      /\ Clients' = Clients /\ conn' = [d \in Clients |-> conn'[d]]
  BY PutOne DEF CausesKept
<1>2. \A d \in Clients : Sound(d)
  BY DEF ConnectionInv, Sound
<1>3. ASSUME NEW d \in Clients \ {c}
      PROVE  Sound(d)' /\ Undisturbed(d) /\ conn'[d].permit = conn[d].permit
  BY <1>1, <1>2, Others
<1> QED
  BY <1>1, <1>3

(* A step on one connection that takes no permit and gives none back.      *)
LEMMA SteadyStep ==
  ASSUME HostInv, NEW c \in Clients, NEW y, Put(c, y), CausesKept,
         UNCHANGED <<server, stop, used>>, firstError' \in {"none", "error"},
         Sound(c)', Undisturbed(c), conn'[c].permit = conn[c].permit
  PROVE  HostInv'
<1>1. ConnectionInv /\ ServerInv /\ Counted
  BY DEF HostInv
<1>2. \A d \in Clients : Sound(d)' /\ Undisturbed(d) /\ conn'[d].permit = conn[d].permit
  BY <1>1, OneConnection
<1>3. /\ ConnectionInv' /\ Running' = Running /\ Permits' = Permits /\ Lingerers' = Lingerers
      /\ (\A d \in Clients : Settled(d)) => (\A d \in Clients : Settled(d))'
  BY <1>1, <1>2, OneConnection, Unmoved DEF CausesKept
<1>4. ServerInv'
  BY <1>1, <1>3 DEF ServerInv, CausesKept
<1>5. Counted'
  BY <1>1, <1>3 DEF Counted
<1> QED
  BY <1>3, <1>4, <1>5 DEF HostInv

(* A step that gives a task permit back, if its connection has one.        *)
LEMMA ReleasingStep ==
  ASSUME HostInv, NEW c \in Clients, NEW y, Put(c, y), CausesKept,
         UNCHANGED <<server, stop>>, used' = Release(conn[c]),
         firstError' \in {"none", "error"},
         Sound(c)', Undisturbed(c), ~conn'[c].permit
  PROVE  HostInv'
<1>1. ConnectionInv /\ ServerInv /\ Counted /\ Typed(conn[c])
  BY DEF HostInv, ConnectionInv
<1>2. /\ Clients' = Clients /\ conn' = [d \in Clients |-> conn'[d]]
      /\ \A d \in Clients : Sound(d)' /\ Undisturbed(d)
      /\ \A d \in Clients \ {c} : conn'[d].permit = conn[d].permit
  BY <1>1, OneConnection
<1>3. ConnectionInv'
  BY <1>2 DEF ConnectionInv, Sound
<1>4. Running' = Running
  BY <1>2 DEF Running, Undisturbed, IsRunning
<1>5. Permits' = Permits \ {c} /\ Lingerers' = Lingerers
  BY <1>2 DEF Permits, Lingerers, Undisturbed
<1>6. (\A d \in Clients : Settled(d)) => (\A d \in Clients : Settled(d))'
  BY <1>2 DEF Undisturbed
<1>7. CASE c \in Permits
  <2>1. /\ Cardinality(Permits') = Cardinality(Permits) - 1
        /\ Cardinality(Permits') \in Nat /\ Cardinality(Lingerers) \in Nat
    BY <1>1, <1>5, <1>7, CountsTyped, FS_RemoveElement, FS_CardinalityType
  <2>2. used' = [used EXCEPT !.tasks = used.tasks - 1]
    BY <1>7 DEF Release, Permits
  <2>3. /\ used'.slots = used.slots /\ used'.connections = used.connections
        /\ used'.tasks = used.tasks - 1 /\ used.tasks \in Nat /\ setting.tasks \in Nat
        /\ used' \in [slots : Nat, connections : Nat, tasks : Int]
    BY <1>1, <2>2, SettingsAssumption DEF ServerInv, Numbers, Switches
  <2>4. used'.tasks \in Nat
    BY <1>1, <1>5, <2>1, <2>3, CountsTyped DEF Counted
  <2>5. used' \in [slots : Nat, connections : Nat, tasks : Nat]
    BY <1>1, <2>2, <2>4, <2>3 DEF ServerInv
  <2>6. ServerInv'
    BY <1>1, <1>6, <2>3, <2>5 DEF ServerInv, CausesKept
  <2>7. Counted'
    BY <1>1, <1>4, <1>5, <2>1, <2>3, CountsTyped DEF Counted
  <2> QED
    BY <1>3, <2>6, <2>7 DEF HostInv
<1>8. CASE c \notin Permits
  <2>1. used' = used
    <3>1. ~conn[c].permit
      BY <1>8 DEF Permits
    <3>2. used' = [used EXCEPT !.tasks = used.tasks - 0]
      BY <3>1 DEF Release
    <3> QED
      BY <1>1, <3>2 DEF ServerInv
  <2>2. Permits' = Permits
    BY <1>5, <1>8
  <2>3. ServerInv'
    BY <1>1, <1>6, <2>1 DEF ServerInv, CausesKept
  <2>4. Counted'
    BY <1>1, <1>4, <1>5, <2>1, <2>2 DEF Counted
  <2> QED
    BY <1>3, <2>3, <2>4 DEF HostInv
<1> QED
  BY <1>7, <1>8


(* The first of a sequence is one of its elements.                         *)
LEMMA HeadOf == \A S : \A s \in Seq(S) : s # <<>> => Head(s) \in S
  OBVIOUS

(* The steps that take no permit and give none back.                       *)
LEMMA SteadySteps ==
  ASSUME HostInv, NEW c \in Clients
  PROVE  /\ Refuse(c) \/ IdleTimeout(c) \/ RespondFailed(c) \/ Ending(c) => HostInv'
         /\ Finish(c) \/ NoticeLeft(c) \/ ConnectionDeadline(c) \/ EndOfBody(c) => HostInv'
         /\ \A length \in Lengths : Respond(c, length) => HostInv'
         /\ DropBody(c) \/ CloseBody(c) \/ RestArrived(c) => HostInv'
         /\ Connect(c) \/ ClientLeaves(c) => HostInv'
         /\ PumpFrame(c) \/ Pump(c) => HostInv'
         /\ NextChunk(c) \/ Write(c) \/ FlushOut(c) \/ Acked(c) \/ SendError(c) => HostInv'
         /\ DropTasks(c) => HostInv'
         /\ \A size \in 0..setting.chunks : Dispatch(c, size) => HostInv'
         /\ TakeMessage(c) \/ Received(c) => HostInv'
<1>0. ConnectionInv /\ ServerInv /\ firstError \in {"none", "error"}
  BY DEF HostInv, ServerInv
<1> DEFINE Steady ==
      /\ CausesKept /\ UNCHANGED <<server, stop, used>> /\ firstError' \in {"none", "error"}
      /\ \E y : Put(c, y)
<1>1. ASSUME Steady, Sound(c)', Undisturbed(c), conn'[c].permit = conn[c].permit
      PROVE  HostInv'
  BY <1>1, SteadyStep
<1>2. ASSUME Refuse(c) PROVE HostInv'
  <2>1. Steady
    BY <1>0, <1>2 DEF Refuse, CausesKept, Record
  <2> QED
    BY <1>0, <1>1, <1>2, <2>1, RefuseKeeps
<1>3. ASSUME IdleTimeout(c) PROVE HostInv'
  <2>1. Steady
    BY <1>0, <1>3 DEF IdleTimeout, CausesKept, Record
  <2> QED
    BY <1>0, <1>1, <1>3, <2>1, IdleTimeoutKeeps
<1>4. ASSUME NEW length \in Lengths, Respond(c, length) PROVE HostInv'
  <2>1. Steady
    BY <1>0, <1>4 DEF Respond, CausesKept, Record
  <2> QED
    BY <1>0, <1>1, <1>4, <2>1, RespondKeeps
<1>5. ASSUME RespondFailed(c) PROVE HostInv'
  <2>1. Steady
    BY <1>0, <1>5 DEF RespondFailed, CausesKept, Record
  <2> QED
    BY <1>0, <1>1, <1>5, <2>1, RespondFailedKeeps
<1>6. ASSUME Ending(c) PROVE HostInv'
  <2>1. Steady
    BY <1>0, <1>6 DEF Ending, CausesKept, Record
  <2> QED
    BY <1>0, <1>1, <1>6, <2>1, EndingKeeps
<1>7. ASSUME Finish(c) PROVE HostInv'
  <2>1. Steady
    BY <1>0, <1>7 DEF Finish, CausesKept, Record
  <2> QED
    BY <1>0, <1>1, <1>7, <2>1, FinishKeeps
<1>8. ASSUME NoticeLeft(c) PROVE HostInv'
  <2>1. Steady
    BY <1>0, <1>8 DEF NoticeLeft, CausesKept, Record
  <2> QED
    BY <1>0, <1>1, <1>8, <2>1, NoticeLeftKeeps
<1>9. ASSUME ConnectionDeadline(c) PROVE HostInv'
  <2>1. Steady
    BY <1>0, <1>9 DEF ConnectionDeadline, CausesKept, Record
  <2> QED
    BY <1>0, <1>1, <1>9, <2>1, ConnectionDeadlineKeeps
<1>10. ASSUME EndOfBody(c) PROVE HostInv'
  <2>1. Steady
    BY <1>0, <1>10 DEF EndOfBody, CausesKept, Record
  <2> QED
    BY <1>0, <1>1, <1>10, <2>1, EndOfBodyKeeps
<1>11. ASSUME DropBody(c) PROVE HostInv'
  <2>1. Steady
    BY <1>0, <1>11 DEF DropBody, CausesKept, Record
  <2> QED
    BY <1>0, <1>1, <1>11, <2>1, DropBodyKeeps
<1>12. ASSUME CloseBody(c) PROVE HostInv'
  <2>1. Steady
    BY <1>0, <1>12 DEF CloseBody, CausesKept, Record
  <2> QED
    BY <1>0, <1>1, <1>12, <2>1, CloseBodyKeeps
<1>13. ASSUME RestArrived(c) PROVE HostInv'
  <2>1. Steady
    BY <1>0, <1>13 DEF RestArrived, CausesKept
  <2> QED
    BY <1>0, <1>1, <1>13, <2>1, RestArrivedKeeps
<1>14. ASSUME PumpCancelled(c) PROVE HostInv'
  <2>1. Steady
    BY <1>0, <1>14 DEF PumpCancelled, CausesKept, Record
  <2> QED
    BY <1>0, <1>1, <1>14, <2>1, PumpCancelledKeeps
<1>15. ASSUME PumpFrame(c) PROVE HostInv'
  <2>1. Steady
    BY <1>0, <1>15 DEF PumpFrame, CausesKept, Record
  <2> QED
    BY <1>0, <1>1, <1>15, <2>1, PumpFrameKeeps
<1>16. ASSUME PumpSend(c) PROVE HostInv'
  <2>1. Steady
    BY <1>0, <1>16 DEF PumpSend, CausesKept, Record
  <2> QED
    BY <1>0, <1>1, <1>16, <2>1, PumpSendKeeps
<1>17. ASSUME PumpBroken(c) PROVE HostInv'
  <2>1. Steady
    BY <1>0, <1>17 DEF PumpBroken, CausesKept, Record
  <2> QED
    BY <1>0, <1>1, <1>17, <2>1, PumpBrokenKeeps
<1>18. ASSUME PumpFail(c) PROVE HostInv'
  <2>1. Steady
    BY <1>0, <1>18 DEF PumpFail, CausesKept, Record
  <2> QED
    BY <1>0, <1>1, <1>18, <2>1, PumpFailKeeps
<1>19. ASSUME PumpEnd(c) PROVE HostInv'
  <2>1. Steady
    BY <1>0, <1>19 DEF PumpEnd, CausesKept, Record
  <2> QED
    BY <1>0, <1>1, <1>19, <2>1, PumpEndKeeps
<1>20. ASSUME NextChunk(c) PROVE HostInv'
  <2>1. Steady
    BY <1>0, <1>20 DEF NextChunk, CausesKept, Record
  <2> QED
    BY <1>0, <1>1, <1>20, <2>1, NextChunkKeeps
<1>21. ASSUME Write(c) PROVE HostInv'
  <2>1. Steady
    BY <1>0, <1>21 DEF Write, CausesKept, Record
  <2> QED
    BY <1>0, <1>1, <1>21, <2>1, WriteKeeps
<1>22. ASSUME FlushOut(c) PROVE HostInv'
  <2>1. Steady
    BY <1>0, <1>22 DEF FlushOut, CausesKept, Record
  <2> QED
    BY <1>0, <1>1, <1>22, <2>1, FlushOutKeeps
<1>23. ASSUME Acked(c) PROVE HostInv'
  <2>1. Steady
    BY <1>0, <1>23 DEF Acked, CausesKept, Record
  <2> QED
    BY <1>0, <1>1, <1>23, <2>1, AckedKeeps
<1>24. ASSUME SendError(c) PROVE HostInv'
  <2>1. Steady
    BY <1>0, <1>24 DEF SendError, CausesKept, Record
  <2> QED
    BY <1>0, <1>1, <1>24, <2>1, SendErrorKeeps
<1>25. ASSUME Connect(c) PROVE HostInv'
  <2>1. Steady
    BY <1>0, <1>25 DEF Connect, CausesKept, Record
  <2> QED
    BY <1>0, <1>1, <1>25, <2>1, ConnectKeeps
<1>26. ASSUME ClientLeaves(c) PROVE HostInv'
  <2>1. Steady
    BY <1>0, <1>26 DEF ClientLeaves, CausesKept, Record
  <2> QED
    BY <1>0, <1>1, <1>26, <2>1, ClientLeavesKeeps
<1>27. ASSUME DropTasks(c) PROVE HostInv'
  <2>1. Steady
    BY <1>0, <1>27 DEF DropTasks, CausesKept, Record
  <2> QED
    BY <1>0, <1>1, <1>27, <2>1, DropTasksKeeps
<1>28. ASSUME NEW size \in 0..setting.chunks, Dispatch(c, size) PROVE HostInv'
  <2>1. Steady
    BY <1>0, <1>28 DEF Dispatch, CausesKept
  <2> QED
    BY <1>0, <1>1, <1>28, <2>1, DispatchKeeps
<1>29. ASSUME TakeMessage(c) PROVE HostInv'
  <2>1. Head(conn[c].out) \in {"data", "flush", "error"}
    BY <1>0, <1>29, HeadOf DEF TakeMessage, ConnectionInv, Typed, Messages
  <2>2. Steady
    BY <1>0, <1>29, <2>1 DEF TakeMessage, CausesKept
  <2> QED
    BY <1>0, <1>1, <1>29, <2>1, <2>2, TakeDataKeeps, TakeFlushKeeps, TakeErrorKeeps
<1>30. ASSUME Received(c) PROVE HostInv'
  <2>1. Steady
    BY <1>0, <1>30 DEF Received, CausesKept
  <2> QED
    BY <1>0, <1>1, <1>30, <2>1, ReceiveChunkKeeps, ReceiveEndKeeps
<1> QED
  BY <1>2, <1>3, <1>4, <1>5, <1>6, <1>7, <1>8, <1>9, <1>10, <1>11, <1>12, <1>13,
     <1>14, <1>15, <1>16, <1>17, <1>18, <1>19, <1>20, <1>21, <1>22, <1>23,
     <1>24, <1>25, <1>26, <1>27, <1>28, <1>29, <1>30 DEF Pump

(* The steps that give a permit back.                                      *)
LEMMA ReleasingSteps ==
  ASSUME HostInv, NEW c \in Clients
  PROVE  /\ RespondInvalid(c) \/ DropCall(c) => HostInv'
         /\ AppRefused(c) \/ Answer(c) \/ Interrupted(c) => HostInv'
         /\ ProduceOk(c) \/ ProduceErr(c) \/ ProduceCancelled(c) \/ ProduceDisconnected(c)
              => HostInv'
         /\ SendData(c) \/ SendFlush(c) => HostInv'
<1>0. ConnectionInv /\ ServerInv /\ firstError \in {"none", "error"} /\ Typed(conn[c])
  BY DEF HostInv, ServerInv, ConnectionInv
<1> DEFINE Quiet ==
      /\ CausesKept /\ UNCHANGED <<server, stop>> /\ firstError' \in {"none", "error"}
      /\ \E y : Put(c, y)
<1>1. ASSUME Quiet, UNCHANGED used, Sound(c)', Undisturbed(c),
             conn'[c].permit = conn[c].permit
      PROVE  HostInv'
  BY <1>1, SteadyStep
<1>2. ASSUME Quiet, used' = Release(conn[c]), Sound(c)', Undisturbed(c), ~conn'[c].permit
      PROVE  HostInv'
  BY <1>2, ReleasingStep
<1>3. ASSUME RespondInvalid(c) PROVE HostInv'
  <2>1. Quiet /\ used' = Release(conn[c])
    BY <1>0, <1>3 DEF RespondInvalid, CausesKept, Record
  <2> QED
    BY <1>0, <1>2, <1>3, <2>1, RespondInvalidKeeps
<1>4. ASSUME DropCall(c) PROVE HostInv'
  <2>1. Quiet
    BY <1>0, <1>4 DEF DropCall, CausesKept
  <2>2. CASE conn[c].app = "returned"
    <3>1. used' = Release(conn[c])
      BY <1>4, <2>2 DEF DropCall
    <3> QED
      BY <1>0, <1>2, <1>4, <2>1, <2>2, <3>1, DropReturnedKeeps
  <2>3. CASE conn[c].app # "returned"
    <3>1. UNCHANGED used
      BY <1>4, <2>3 DEF DropCall
    <3> QED
      BY <1>0, <1>1, <1>4, <2>1, <2>3, <3>1, DropCallingKeeps
  <2> QED
    BY <2>2, <2>3
<1>5. ASSUME NEW answer \in {"empty", "fixed", "stream", "sized", "failed"}, Return(c, answer),
             answer = "failed" \/ ~(conn[c].hooked /\ conn[c].cancelled),
             conn[c].app \in {"queued", "running", "failing"},
             conn[c].app = "queued" => answer = "failed"
      PROVE  HostInv'
  <2>1. Quiet
    BY <1>0, <1>5 DEF Return, CausesKept
  <2>2. /\ Sound(c)' /\ Undisturbed(c)
        /\ conn'[c].permit => conn[c].permit
    BY <1>0, <1>5, ReturnKeeps
  <2>3. conn'[c].permit = (answer \in {"stream", "sized"} /\ conn[c].at = "calling")
    <3>1. conn'[c] = [conn[c] EXCEPT
              !.app = IF conn[c].at = "calling" THEN "returned" ELSE "over",
              !.answer = IF conn[c].at = "calling" THEN answer ELSE "none",
              !.hooked = (answer \in {"stream", "sized"} /\ conn[c].at = "calling" /\ conn[c].hooked),
              !.permit = (answer \in {"stream", "sized"} /\ conn[c].at = "calling"),
              !.reader = (answer \in {"stream", "sized"} /\ conn[c].at = "calling")]
      BY <1>0, <1>5, PutOne DEF Return, Produced
    <3> QED
      BY <1>0, <3>1 DEF Typed, Fields
  <2>4. CASE answer \in {"stream", "sized"} /\ conn[c].at = "calling"
    <3>1. UNCHANGED used /\ conn'[c].permit = conn[c].permit
      BY <1>0, <1>5, <2>2, <2>3, <2>4 DEF Return, Produced, Typed
    <3> QED
      BY <1>1, <2>1, <2>2, <3>1
  <2>5. CASE ~(answer \in {"stream", "sized"} /\ conn[c].at = "calling")
    <3>1. used' = Release(conn[c]) /\ ~conn'[c].permit
      BY <1>5, <2>3, <2>5 DEF Return, Produced
    <3> QED
      BY <1>2, <2>1, <2>2, <3>1
  <2> QED
    BY <2>4, <2>5
<1>6. ASSUME AppRefused(c) \/ Answer(c) \/ Interrupted(c) PROVE HostInv'
  BY <1>5, <1>6 DEF AppRefused, Answer, Interrupted, TokenCancelled
<1>7. ASSUME NEW next \in {"over", "reporting"}, Ended(c, next), CausesKept,
             conn[c].app \in {"producing", "stopping"}, firstError' \in {"none", "error"}
      PROVE  HostInv'
  <2>1. Quiet /\ used' = Release(conn[c])
    BY <1>7 DEF Ended
  <2> QED
    BY <1>0, <1>2, <1>7, <2>1, EndedKeeps
<1>8. ASSUME ProduceOk(c) \/ ProduceErr(c) \/ ProduceCancelled(c) PROVE HostInv'
  <2>1. CausesKept /\ firstError' \in {"none", "error"}
    BY <1>0, <1>8 DEF ProduceOk, ProduceErr, ProduceCancelled, Ended, CausesKept, Record
  <2> QED
    BY <1>7, <1>8, <2>1 DEF ProduceOk, ProduceErr, ProduceCancelled
<1>9. ~ProduceDisconnected(c)
  BY <1>0 DEF ProduceDisconnected, Typed, Apps
<1>10. ASSUME NEW message \in Messages, NEW next \in {"producing", "acking"},
              conn[c].app \in {"sending", "flushing"}, Send(c, message, next)
       PROVE  HostInv'
  <2>1. Quiet /\ UNCHANGED used
    BY <1>0, <1>10 DEF Send, CausesKept
  <2>2. CASE conn[c].sink
    BY <1>0, <1>1, <1>10, <2>1, <2>2, SendTakenKeeps
  <2>3. CASE ~conn[c].sink
    BY <1>0, <1>1, <1>10, <2>1, <2>3, SendRefusedKeeps
  <2> QED
    BY <2>2, <2>3
<1>11. ASSUME SendData(c) \/ SendFlush(c) PROVE HostInv'
  BY <1>10, <1>11 DEF SendData, SendFlush, Messages
<1> QED
  BY <1>3, <1>4, <1>6, <1>8, <1>9, <1>11

(* Reaping what has ended.                                                 *)
LEMMA JoinedKeeps ==
  ASSUME ConnectionInv, CausesKept, conn' = Joined
  PROVE  /\ conn' = [d \in Clients |-> conn'[d]]
         /\ \A d \in Clients : Sound(d)' /\ Undisturbed(d) /\ conn'[d].permit = conn[d].permit
<1>1. conn' = [d \in Clients |-> conn'[d]]
  BY DEF Joined
<1>2. ASSUME NEW d \in Clients
      PROVE  Sound(d)' /\ Undisturbed(d) /\ conn'[d].permit = conn[d].permit
  <2> DEFINE x == conn[d]
  <2>1. Typed(x) /\ Shaped(x) /\ Caused(x)
    BY DEF ConnectionInv
  <2>2. CASE x.task # "ended"
    <3>1. conn'[d] = conn[d]
      BY <2>2 DEF Joined
    <3> QED
      BY <2>1, <3>1, Others DEF Sound
  <2>3. CASE x.task = "ended"
    <3>1. conn'[d] = [x EXCEPT !.task = "joined"]
      BY <2>3 DEF Joined
    <3>2. Kept(conn'[d], x, {"task"}) /\ conn'[d].task = "joined"
      BY <2>1, <3>1 DEF Typed, Fields, Kept
    <3>3. Typed(x)'
      BY <2>1, <3>2 DEF Typed, Kept, CausesKept, Tasks
    <3>4. Shaped(x)' /\ Caused(x)'
      BY <2>1, <2>3, <3>2 DEF Typed, Kept, Shaped, Fresh, Holding, Placed, Producing,
          OffTheWire, CutOff, TakenWhole, IsLive, Leaving, Caused, CausesKept
    <3>5. Undisturbed(d) /\ conn'[d].permit = conn[d].permit
      BY <2>1, <2>3, <3>2
      DEF Kept, Undisturbed, IsRunning, Settled, PumpOver, AppOver
    <3> QED
      BY <3>3, <3>4, <3>5 DEF Sound
  <2> QED
    BY <2>2, <2>3
<1> QED
  BY <1>1, <1>2

(* abort_all drops every connection that is live.                          *)
LEMMA AbortedKeeps ==
  ASSUME ConnectionInv, CausesKept, CleanupDeadline
  PROVE  /\ conn' = [d \in Clients |-> conn'[d]]
         /\ \A d \in Clients : Sound(d)' /\ Undisturbed(d) /\ conn'[d].permit = conn[d].permit
<1>1. conn' = [d \in Clients |-> conn'[d]]
  BY DEF CleanupDeadline
<1>2. ASSUME NEW d \in Clients
      PROVE  Sound(d)' /\ Undisturbed(d) /\ conn'[d].permit = conn[d].permit
  <2> DEFINE x == conn[d]
  <2>1. Typed(x) /\ Shaped(x) /\ Caused(x)
    BY DEF ConnectionInv
  <2>2. CASE ~Live(d)
    <3>1. conn'[d] = conn[d]
      BY <2>2 DEF CleanupDeadline
    <3> QED
      BY <2>1, <3>1, Others DEF Sound
  <2>3. CASE Live(d)
    <3>1. conn'[d] = [x EXCEPT !.task = "dropping"]
      BY <2>3 DEF CleanupDeadline
    <3>2. Kept(conn'[d], x, {"task"}) /\ conn'[d].task = "dropping"
      BY <2>1, <3>1 DEF Typed, Fields, Kept
    <3>3. Typed(x)'
      BY <2>1, <3>2 DEF Typed, Kept, CausesKept, Tasks
    <3>4. Shaped(x)' /\ Caused(x)'
      BY <2>1, <2>3, <3>2 DEF Typed, Kept, Shaped, Fresh, Holding, Placed, Producing,
          OffTheWire, CutOff, TakenWhole, IsLive, Leaving, Caused, CausesKept, Live
    <3>5. Undisturbed(d) /\ conn'[d].permit = conn[d].permit
      BY <2>1, <2>3, <3>2
      DEF Kept, Undisturbed, IsRunning, Settled, PumpOver, AppOver, Live
    <3> QED
      BY <3>3, <3>4, <3>5 DEF Sound
  <2> QED
    BY <2>2, <2>3
<1> QED
  BY <1>1, <1>2

(* A step of the accept loop that touches no counter.                      *)
LEMMA LoopStep ==
  ASSUME HostInv, CausesKept, UNCHANGED used,
         conn' = [d \in Clients |-> conn'[d]],
         \A d \in Clients : Sound(d)' /\ Undisturbed(d) /\ conn'[d].permit = conn[d].permit,
         server' \in [pc : Stages, permit : BOOLEAN], server'.permit = server.permit,
         server'.permit <=> server'.pc = "accept",
         server'.pc = "returned" => \A d \in Clients : Settled(d),
         stop' \in [shutdown : BOOLEAN, cancel : BOOLEAN, abort : BOOLEAN],
         firstError' \in {"none", "error"}
  PROVE  HostInv'
<1>1. ConnectionInv /\ ServerInv /\ Counted
  BY DEF HostInv
<1>2. /\ ConnectionInv' /\ Running' = Running /\ Permits' = Permits /\ Lingerers' = Lingerers
      /\ (\A d \in Clients : Settled(d)) => (\A d \in Clients : Settled(d))'
  BY Unmoved DEF CausesKept
<1>3. ServerInv'
  BY <1>1, <1>2 DEF ServerInv, CausesKept
<1>4. Counted'
  BY <1>1, <1>2 DEF Counted
<1> QED
  BY <1>2, <1>3, <1>4 DEF HostInv

(* A step of the accept loop that leaves every connection alone.           *)
LEMMA Untouched ==
  ASSUME ConnectionInv, CausesKept, UNCHANGED conn
  PROVE  /\ conn' = [d \in Clients |-> conn'[d]]
         /\ \A d \in Clients : Sound(d)' /\ Undisturbed(d) /\ conn'[d].permit = conn[d].permit
<1>1. \A d \in Clients : Sound(d)
  BY DEF ConnectionInv, Sound
<1>2. conn' = [d \in Clients |-> conn'[d]]
  BY DEF ConnectionInv
<1> QED
  BY <1>1, <1>2, Others

(* The accept loop, as long as it takes no permit and accepts nobody.      *)
LEMMA LoopSteps ==
  ASSUME HostInv
  PROVE  /\ Turn \/ PermitRetry \/ Stop \/ Cleanup => HostInv'
         /\ CleanupDeadline \/ Leave \/ Shutdown => HostInv'
         /\ \A c \in Clients : RestRefused(c) => HostInv'
<1>0. /\ ConnectionInv /\ ServerInv /\ firstError \in {"none", "error"}
      /\ server \in [pc : Stages, permit : BOOLEAN] /\ (server.permit <=> server.pc = "accept")
      /\ stop \in [shutdown : BOOLEAN, cancel : BOOLEAN, abort : BOOLEAN]
  BY DEF HostInv, ServerInv
<1> DEFINE Steady == CausesKept /\ UNCHANGED used /\ firstError' \in {"none", "error"}
           Going ==
             /\ server' \in [pc : Stages, permit : BOOLEAN] /\ server'.permit = server.permit
             /\ server'.permit <=> server'.pc = "accept"
             /\ stop' \in [shutdown : BOOLEAN, cancel : BOOLEAN, abort : BOOLEAN]
<1>1. ASSUME Turn PROVE HostInv'
  <2>1. Steady
    BY <1>0, <1>1 DEF Turn, CausesKept
  <2>2. Going /\ server'.pc # "returned"
    BY <1>0, <1>1 DEF Turn, Goto, Stages
  <2>3. conn' = conn \/ conn' = Joined
    BY <1>1 DEF Turn
  <2> QED
    BY <1>0, <2>1, <2>2, <2>3, LoopStep, Untouched, JoinedKeeps
<1>2. ASSUME PermitRetry PROVE HostInv'
  <2>1. Steady /\ UNCHANGED conn
    BY <1>0, <1>2 DEF PermitRetry, CausesKept
  <2>2. Going /\ server'.pc # "returned"
    BY <1>0, <1>2 DEF PermitRetry, Goto, Stages
  <2> QED
    BY <1>0, <2>1, <2>2, LoopStep, Untouched
<1>3. ASSUME Stop PROVE HostInv'
  <2>1. Steady /\ UNCHANGED conn
    BY <1>0, <1>3 DEF Stop, CausesKept
  <2>2. Going /\ server'.pc # "returned"
    BY <1>0, <1>3 DEF Stop, Goto, Stages
  <2> QED
    BY <1>0, <2>1, <2>2, LoopStep, Untouched
<1>4. ASSUME Cleanup PROVE HostInv'
  <2>1. Steady /\ conn' = Joined
    BY <1>0, <1>4 DEF Cleanup, CausesKept, Record
  <2>2. Going /\ server'.pc # "returned"
    BY <1>0, <1>4 DEF Cleanup, Goto, Stages
  <2> QED
    BY <1>0, <2>1, <2>2, LoopStep, JoinedKeeps
<1>5. ASSUME CleanupDeadline PROVE HostInv'
  <2>1. Steady
    BY <1>0, <1>5 DEF CleanupDeadline, CausesKept
  <2>2. Going /\ server'.pc # "returned"
    BY <1>0, <1>5 DEF CleanupDeadline, Goto, Stages
  <2> QED
    BY <1>0, <1>5, <2>1, <2>2, LoopStep, AbortedKeeps
<1>6. ASSUME Leave PROVE HostInv'
  <2>1. Steady /\ UNCHANGED conn
    BY <1>0, <1>6 DEF Leave, CausesKept
  <2>2. Going /\ \A d \in Clients : Settled(d)
    BY <1>0, <1>6 DEF Leave, Goto, Stages
  <2> QED
    BY <1>0, <2>1, <2>2, LoopStep, Untouched
<1>7. ASSUME Shutdown PROVE HostInv'
  <2>1. Steady /\ UNCHANGED conn
    BY <1>0, <1>7 DEF Shutdown, CausesKept
  <2>2. Going /\ server'.pc # "returned"
    BY <1>0, <1>7 DEF Shutdown, Stages
  <2> QED
    BY <1>0, <2>1, <2>2, LoopStep, Untouched
<1>8. ASSUME NEW c \in Clients, RestRefused(c) PROVE HostInv'
  <2>1. Steady /\ UNCHANGED <<conn, server, stop>>
    BY <1>0, <1>8 DEF RestRefused, CausesKept, Record
  <2>2. server'.pc = "returned" => \A d \in Clients : Settled(d)
    BY <1>0, <2>1 DEF ServerInv
  <2> QED
    BY <1>0, <2>1, <2>2, LoopStep, Untouched
<1> QED
  BY <1>1, <1>2, <1>3, <1>4, <1>5, <1>6, <1>7, <1>8

(* The steps that take a permit, and the end of a connection's task.       *)
LEMMA PermitSteps ==
  ASSUME HostInv
  PROVE  /\ AcquirePermit \/ AcceptRetry => HostInv'
         /\ \A c \in Clients :
              Accept(c) \/ AcceptRefused(c) \/ AppStart(c) \/ EndTask(c) => HostInv'
         /\ \A c \in Clients : KeepAlive(c) \/ LingererEnds(c) => HostInv'
<1>0. /\ ConnectionInv /\ ServerInv /\ Counted /\ firstError \in {"none", "error"}
      /\ server \in [pc : Stages, permit : BOOLEAN] /\ (server.permit <=> server.pc = "accept")
      /\ stop \in [shutdown : BOOLEAN, cancel : BOOLEAN, abort : BOOLEAN]
      /\ used \in [slots : Nat, connections : Nat, tasks : Nat]
      /\ used.connections <= setting.connections /\ used.tasks <= setting.tasks
      /\ setting.slots # 0 => used.slots <= setting.slots
  BY DEF HostInv, ServerInv
<1>1. /\ IsFiniteSet(Running) /\ Cardinality(Running) \in Nat
      /\ IsFiniteSet(Permits) /\ Cardinality(Permits) \in Nat
      /\ IsFiniteSet(Lingerers) /\ Cardinality(Lingerers) \in Nat
      /\ setting.slots \in Nat /\ setting.connections \in Nat /\ setting.tasks \in Nat
  BY <1>0, CountsTyped, SettingsAssumption DEF ServerInv, Numbers, Switches
<1>2. ASSUME AcquirePermit PROVE HostInv'
  <2>1. /\ CausesKept /\ UNCHANGED <<conn, setting, stop, firstError>>
        /\ server' = [pc |-> "accept", permit |-> TRUE] /\ ~server.permit
        /\ used' = [used EXCEPT !.slots = used.slots + 1]
        /\ setting.slots = 0 \/ used.slots < setting.slots
    BY <1>0, <1>2 DEF AcquirePermit, CausesKept
  <2>2. ConnectionInv' /\ Running' = Running /\ Permits' = Permits /\ Lingerers' = Lingerers
    BY <1>0, <2>1, Untouched, Unmoved
  <2>3. /\ used' \in [slots : Nat, connections : Nat, tasks : Nat]
        /\ used'.slots = used.slots + 1
        /\ used'.connections = used.connections /\ used'.tasks = used.tasks
    BY <1>0, <2>1
  <2>4. ServerInv'
    BY <1>0, <1>1, <2>1, <2>3 DEF ServerInv, Stages
  <2>5. Counted'
    BY <1>0, <1>1, <2>1, <2>2, <2>3 DEF Counted
  <2> QED
    BY <2>2, <2>4, <2>5 DEF HostInv
<1>3. ASSUME AcceptRetry PROVE HostInv'
  <2>1. /\ CausesKept /\ UNCHANGED <<conn, setting, stop, firstError>>
        /\ server' = [pc |-> "turn", permit |-> FALSE] /\ server.permit
        /\ used' = [used EXCEPT !.slots = used.slots - 1]
    BY <1>0, <1>3 DEF AcceptRetry, CausesKept
  <2>2. ConnectionInv' /\ Running' = Running /\ Permits' = Permits /\ Lingerers' = Lingerers
    BY <1>0, <2>1, Untouched, Unmoved
  <2>3. used.slots - 1 = Cardinality(Running)
    BY <1>0, <1>1, <2>1 DEF Counted
  <2>4. /\ used' \in [slots : Nat, connections : Nat, tasks : Nat]
        /\ used'.slots = used.slots - 1
        /\ used'.connections = used.connections /\ used'.tasks = used.tasks
    BY <1>0, <1>1, <2>1, <2>3
  <2>5. ServerInv'
    BY <1>0, <1>1, <2>1, <2>4 DEF ServerInv, Stages
  <2>6. Counted'
    BY <1>0, <1>1, <2>1, <2>2, <2>3, <2>4 DEF Counted
  <2> QED
    BY <2>2, <2>5, <2>6 DEF HostInv
<1>4. ASSUME NEW c \in Clients, Accept(c) PROVE HostInv'
  <2>1. /\ CausesKept /\ UNCHANGED <<setting, stop, firstError>>
        /\ server' = [pc |-> "turn", permit |-> FALSE] /\ server.permit
        /\ used' = [used EXCEPT !.connections = used.connections + 1]
        /\ used.connections < setting.connections
        /\ Put(c, [conn[c] EXCEPT !.task = "open"])
    BY <1>0, <1>4 DEF Accept, CausesKept
  <2>2. /\ Sound(c)' /\ (IsRunning(conn[c]))' /\ conn'[c].permit = conn[c].permit
        /\ conn'[c].lingers = conn[c].lingers
    BY <1>0, <1>4, AcceptKeeps
  <2>3. /\ Clients' = Clients /\ conn' = [d \in Clients |-> conn'[d]]
        /\ \A d \in Clients \ {c} :
             Sound(d)' /\ Undisturbed(d) /\ conn'[d].permit = conn[d].permit
    BY <1>0, <2>1, OneConnection
  <2>4. ConnectionInv' /\ Permits' = Permits /\ Lingerers' = Lingerers
    BY <2>2, <2>3 DEF ConnectionInv, Sound, Permits, Lingerers, Undisturbed
  <2>5. c \notin Running /\ Running' = Running \cup {c}
    BY <1>4, <2>2, <2>3 DEF Accept, Running, Undisturbed, IsRunning
  <2>6. Cardinality(Running') = Cardinality(Running) + 1
    BY <1>1, <2>5, FS_AddElement
  <2>7. /\ used' \in [slots : Nat, connections : Nat, tasks : Nat]
        /\ used'.slots = used.slots /\ used'.connections = used.connections + 1
        /\ used'.tasks = used.tasks
    BY <1>0, <2>1
  <2>8. ServerInv'
    BY <1>0, <1>1, <2>1, <2>7 DEF ServerInv, Stages
  <2>9. Counted'
    BY <1>0, <1>1, <2>1, <2>4, <2>6, <2>7 DEF Counted
  <2> QED
    BY <2>4, <2>8, <2>9 DEF HostInv
<1>5. ASSUME NEW c \in Clients, AcceptRefused(c) PROVE HostInv'
  <2>1. /\ CausesKept /\ UNCHANGED <<setting, stop>> /\ firstError' \in {"none", "error"}
        /\ server' = [pc |-> "leave", permit |-> FALSE] /\ server.permit
        /\ used' = [used EXCEPT !.slots = used.slots - 1]
        /\ Put(c, [conn[c] EXCEPT !.task = "joined"])
    BY <1>0, <1>5 DEF AcceptRefused, CausesKept, Record
  <2>2. Sound(c)' /\ Undisturbed(c) /\ conn'[c].permit = conn[c].permit
    BY <1>0, <1>5, AcceptRefusedKeeps
  <2>3. /\ conn' = [d \in Clients |-> conn'[d]]
        /\ \A d \in Clients : Sound(d)' /\ Undisturbed(d) /\ conn'[d].permit = conn[d].permit
    BY <1>0, <2>1, <2>2, OneConnection
  <2>4. ConnectionInv' /\ Running' = Running /\ Permits' = Permits /\ Lingerers' = Lingerers
    BY <2>1, <2>3, Unmoved
  <2>5. used.slots - 1 = Cardinality(Running)
    BY <1>0, <1>1, <2>1 DEF Counted
  <2>6. /\ used' \in [slots : Nat, connections : Nat, tasks : Nat]
        /\ used'.slots = used.slots - 1
        /\ used'.connections = used.connections /\ used'.tasks = used.tasks
    BY <1>0, <1>1, <2>1, <2>5
  <2>7. ServerInv'
    BY <1>0, <1>1, <2>1, <2>6 DEF ServerInv, Stages
  <2>8. Counted'
    BY <1>0, <1>1, <2>1, <2>4, <2>5, <2>6 DEF Counted
  <2> QED
    BY <2>4, <2>7, <2>8 DEF HostInv
<1>6. ASSUME NEW c \in Clients, AppStart(c) PROVE HostInv'
  <2>1. /\ CausesKept /\ UNCHANGED <<setting, server, stop, firstError>>
        /\ used' = [used EXCEPT !.tasks = used.tasks + 1]
        /\ used.tasks < setting.tasks
        /\ Put(c, [conn[c] EXCEPT !.app = "running", !.permit = TRUE, !.hooked = TRUE])
    BY <1>0, <1>6 DEF AppStart, CausesKept
  <2>2. Sound(c)' /\ Undisturbed(c) /\ conn'[c].permit
    BY <1>0, <1>6, AppStartKeeps
  <2>3. /\ Clients' = Clients /\ conn' = [d \in Clients |-> conn'[d]]
        /\ \A d \in Clients : Sound(d)' /\ Undisturbed(d)
        /\ \A d \in Clients \ {c} : conn'[d].permit = conn[d].permit
    BY <1>0, <2>1, <2>2, OneConnection
  <2>4. ConnectionInv' /\ Running' = Running /\ Lingerers' = Lingerers
    BY <2>3 DEF ConnectionInv, Sound, Running, Lingerers, Undisturbed, IsRunning
  <2>5. ~conn[c].permit
    BY <1>0, <1>6 DEF AppStart, ConnectionInv, Shaped, Holding
  <2>6. c \notin Permits /\ Permits' = Permits \cup {c}
    BY <2>2, <2>3, <2>5 DEF Permits
  <2>7. Cardinality(Permits') = Cardinality(Permits) + 1
    BY <1>1, <2>6, FS_AddElement
  <2>8. /\ used' \in [slots : Nat, connections : Nat, tasks : Nat]
        /\ used'.slots = used.slots /\ used'.connections = used.connections
        /\ used'.tasks = used.tasks + 1
    BY <1>0, <2>1
  <2>9. (\A d \in Clients : Settled(d)) => (\A d \in Clients : Settled(d))'
    BY <2>3 DEF Undisturbed
  <2>10. ServerInv'
    BY <1>0, <1>1, <2>1, <2>8, <2>9 DEF ServerInv
  <2>11. Counted'
    BY <1>0, <1>1, <2>1, <2>4, <2>7, <2>8 DEF Counted
  <2> QED
    BY <2>4, <2>10, <2>11 DEF HostInv
<1>7. ASSUME NEW c \in Clients, EndTask(c) PROVE HostInv'
  <2>1. /\ CausesKept /\ UNCHANGED <<setting, server, stop>> /\ firstError' \in {"none", "error"}
        /\ used' = [used EXCEPT !.slots = used.slots - 1,
                                !.connections = used.connections - 1]
        /\ conn[c].task = "dropping" /\ \E y : Put(c, y)
    BY <1>0, <1>7 DEF EndTask, CausesKept, Record
  <2>2. /\ Sound(c)' /\ (Settled(c) => Settled(c)') /\ ~(IsRunning(conn[c]))'
        /\ conn'[c].permit = conn[c].permit /\ conn'[c].lingers = conn[c].lingers
    BY <1>0, <1>7, EndTaskKeeps
  <2>3. /\ Clients' = Clients /\ conn' = [d \in Clients |-> conn'[d]]
        /\ \A d \in Clients \ {c} :
             Sound(d)' /\ Undisturbed(d) /\ conn'[d].permit = conn[d].permit
    BY <1>0, <2>1, OneConnection
  <2>4. ConnectionInv' /\ Permits' = Permits /\ Lingerers' = Lingerers
    BY <2>2, <2>3 DEF ConnectionInv, Sound, Permits, Lingerers, Undisturbed
  <2>5. c \in Running /\ Running' = Running \ {c}
    BY <2>1, <2>2, <2>3 DEF Running, Undisturbed, IsRunning
  <2>6. Cardinality(Running') = Cardinality(Running) - 1 /\ Cardinality(Running') \in Nat
    BY <1>1, <2>5, FS_RemoveElement, FS_CardinalityType
  <2>7. /\ used.slots - 1 \in Nat /\ used.connections - 1 \in Nat
    BY <1>0, <1>1, <2>6 DEF Counted
  <2>8. /\ used' \in [slots : Nat, connections : Nat, tasks : Nat]
        /\ used'.slots = used.slots - 1 /\ used'.connections = used.connections - 1
        /\ used'.tasks = used.tasks
    BY <1>0, <2>1, <2>7
  <2>9. (\A d \in Clients : Settled(d)) => (\A d \in Clients : Settled(d))'
    BY <2>2, <2>3 DEF Undisturbed
  <2>10. ServerInv'
    BY <1>0, <1>1, <2>1, <2>8, <2>9 DEF ServerInv
  <2>11. Counted'
    BY <1>0, <1>1, <2>1, <2>4, <2>6, <2>8 DEF Counted
  <2> QED
    BY <2>4, <2>10, <2>11 DEF HostInv
<1>8. ASSUME NEW c \in Clients, KeepAlive(c) PROVE HostInv'
  <2>1. /\ CausesKept /\ UNCHANGED <<setting, server, stop, firstError, used>>
        /\ \E y : Put(c, y)
        /\ ~(conn[c].lingers /\ conn[c].permit)
    BY <1>0, <1>8 DEF KeepAlive, CausesKept
  <2>2. /\ Sound(c)' /\ (Settled(c) => Settled(c)') /\ IsRunning(conn[c])' = IsRunning(conn[c])
        /\ ~conn'[c].permit /\ conn'[c].lingers = (conn[c].lingers \/ conn[c].permit)
    BY <1>0, <1>8, KeepAliveKeeps
  <2>3. /\ Clients' = Clients /\ conn' = [d \in Clients |-> conn'[d]]
        /\ \A d \in Clients \ {c} :
             Sound(d)' /\ Undisturbed(d) /\ conn'[d].permit = conn[d].permit
    BY <1>0, <2>1, OneConnection
  <2>4. ConnectionInv' /\ Running' = Running
    BY <2>2, <2>3 DEF ConnectionInv, Sound, Running, Undisturbed, IsRunning
  <2>5. Cardinality(Permits') + Cardinality(Lingerers')
          = Cardinality(Permits) + Cardinality(Lingerers)
    <3>1. CASE conn[c].permit
      <4>1. /\ c \in Permits /\ Permits' = Permits \ {c}
            /\ c \notin Lingerers /\ Lingerers' = Lingerers \cup {c}
        BY <2>1, <2>2, <2>3, <3>1 DEF Permits, Lingerers, Undisturbed
      <4>2. Cardinality(Permits') = Cardinality(Permits) - 1
        BY <1>1, <4>1, FS_RemoveElement
      <4>3. Cardinality(Lingerers') = Cardinality(Lingerers) + 1
        BY <1>1, <4>1, FS_AddElement
      <4> QED
        BY <1>1, <4>2, <4>3
    <3>2. CASE ~conn[c].permit
      <4>1. Permits' = Permits /\ Lingerers' = Lingerers
        BY <2>2, <2>3, <3>2 DEF Permits, Lingerers, Undisturbed
      <4> QED
        BY <4>1
    <3> QED
      BY <3>1, <3>2
  <2>6. (\A d \in Clients : Settled(d)) => (\A d \in Clients : Settled(d))'
    BY <2>2, <2>3 DEF Undisturbed
  <2>7. ServerInv'
    BY <1>0, <2>1, <2>6 DEF ServerInv
  <2>8. Counted'
    BY <1>0, <2>1, <2>4, <2>5 DEF Counted
  <2> QED
    BY <2>4, <2>7, <2>8 DEF HostInv
<1>9. ASSUME NEW c \in Clients, LingererEnds(c) PROVE HostInv'
  <2>1. /\ CausesKept /\ UNCHANGED <<setting, server, stop>> /\ firstError' \in {"none", "error"}
        /\ used' = [used EXCEPT !.tasks = used.tasks - 1]
        /\ conn[c].lingers /\ \E y : Put(c, y)
    BY <1>0, <1>9 DEF LingererEnds, CausesKept, Record
  <2>2. /\ Sound(c)' /\ (Settled(c) => Settled(c)') /\ IsRunning(conn[c])' = IsRunning(conn[c])
        /\ conn'[c].permit = conn[c].permit /\ ~conn'[c].lingers
    BY <1>0, <1>9, LingererEndsKeeps
  <2>3. /\ Clients' = Clients /\ conn' = [d \in Clients |-> conn'[d]]
        /\ \A d \in Clients \ {c} :
             Sound(d)' /\ Undisturbed(d) /\ conn'[d].permit = conn[d].permit
    BY <1>0, <2>1, OneConnection
  <2>4. ConnectionInv' /\ Running' = Running /\ Permits' = Permits
    BY <2>2, <2>3 DEF ConnectionInv, Sound, Running, Permits, Undisturbed, IsRunning
  <2>5. c \in Lingerers /\ Lingerers' = Lingerers \ {c}
    BY <2>1, <2>2, <2>3 DEF Lingerers, Undisturbed
  <2>6. Cardinality(Lingerers') = Cardinality(Lingerers) - 1 /\ Cardinality(Lingerers') \in Nat
    BY <1>1, <2>5, FS_RemoveElement, FS_CardinalityType
  <2>7. used.tasks - 1 \in Nat /\ used.tasks - 1 <= setting.tasks
    BY <1>0, <1>1, <2>6 DEF Counted
  <2>8. /\ used' \in [slots : Nat, connections : Nat, tasks : Nat]
        /\ used'.slots = used.slots /\ used'.connections = used.connections
        /\ used'.tasks = used.tasks - 1
    BY <1>0, <2>1, <2>7
  <2>9. (\A d \in Clients : Settled(d)) => (\A d \in Clients : Settled(d))'
    BY <2>2, <2>3 DEF Undisturbed
  <2>10. ServerInv'
    BY <1>0, <1>1, <2>1, <2>7, <2>8, <2>9 DEF ServerInv
  <2>11. Counted'
    BY <1>0, <1>1, <2>1, <2>4, <2>6, <2>8 DEF Counted
  <2> QED
    BY <2>4, <2>10, <2>11 DEF HostInv
<1> QED
  BY <1>2, <1>3, <1>4, <1>5, <1>6, <1>7, <1>8, <1>9

----------------------------------------------------------------------------
(* serve_async begins: no connection, no permit, no cancellation.          *)
LEMMA HostInitially == Init => HostInv
<1> SUFFICES ASSUME Init PROVE HostInv
  OBVIOUS
<1>1. setting \in Settings /\ server = [pc |-> "turn", permit |-> FALSE]
      /\ stop = [shutdown |-> FALSE, cancel |-> FALSE, abort |-> FALSE]
      /\ used = [slots |-> 0, connections |-> 0, tasks |-> 0] /\ firstError = "none"
  BY DEF Init
<1>2. /\ setting.clients \in Nat /\ setting.slots \in Nat /\ setting.connections \in Nat
      /\ setting.tasks \in Nat /\ setting.maxBody \in Nat /\ setting.chunks \in Nat
  BY <1>1, SettingsAssumption DEF Numbers, Switches
<1>3. ASSUME NEW c \in Clients
      PROVE  Typed(conn[c]) /\ Shaped(conn[c]) /\ Caused(conn[c]) /\ ~conn[c].permit
             /\ ~conn[c].lingers /\ conn[c].task = "unborn"
  <2> DEFINE x == conn[c]
  <2>1. x = NoConnection
    BY DEF Init
  <2>2. DOMAIN x = Fields
    BY <2>1 DEF NoConnection, NoConnectionState, NoRequest, Fields
  <2>3. /\ x.task = "unborn" /\ ~x.gone /\ ~x.started /\ x.phase = "head" /\ ~x.fault
        /\ x.lingers = FALSE
        /\ x.gone \in BOOLEAN /\ x.started \in BOOLEAN /\ x.fault \in BOOLEAN
    BY <2>1 DEF NoConnection, NoConnectionState, NoRequest
  <2>4. /\ x.at = "idle" /\ x.guard = FALSE /\ x.cancelled = FALSE /\ x.hooked = FALSE
        /\ x.app = "none" /\ x.answer = "none" /\ x.permit = FALSE /\ x.reader = FALSE
        /\ x.pump = "none" /\ x.body = <<>> /\ x.unsent = 0 /\ x.taken = 0
        /\ x.out = <<>> /\ x.sink = FALSE /\ x.sized = FALSE /\ x.polled = FALSE
        /\ x.done = FALSE /\ x.cut = FALSE
    BY <2>1 DEF NoConnection, NoConnectionState, NoRequest
  <2>5. /\ x.body \in Seq(Chunks) /\ x.out \in Seq(Messages)
        /\ Len(x.body) <= Capacity /\ Len(x.out) <= Capacity
    BY <2>4, ShortQueues
  <2>6. Typed(x)
    <3>1. x.unsent \in 0..setting.chunks /\ x.taken \in 0..(setting.maxBody + 1)
      BY ONLY <1>2, <2>4
    <3>2. /\ x.guard \in BOOLEAN /\ x.cancelled \in BOOLEAN /\ x.hooked \in BOOLEAN
          /\ x.permit \in BOOLEAN /\ x.reader \in BOOLEAN /\ x.sink \in BOOLEAN
          /\ x.done \in BOOLEAN /\ x.cut \in BOOLEAN /\ x.lingers \in BOOLEAN
          /\ x.sized \in BOOLEAN /\ x.polled \in BOOLEAN
      BY ONLY <2>3, <2>4
    <3>3. /\ x.task \in Tasks /\ x.at \in Places /\ x.phase \in Phases
          /\ x.app \in Apps /\ x.pump \in Pumps
      BY ONLY <2>3, <2>4 DEF Tasks, Places, Phases, Apps, Pumps
    <3> HIDE DEF x
    <3> QED
      BY ONLY <2>2, <2>3, <2>5, <3>1, <3>2, <3>3 DEF Typed
  <2>7. Shaped(x) /\ Caused(x)
    BY <2>3, <2>4 DEF Shaped, Fresh, Holding, Placed, Producing, OffTheWire, CutOff,
        TakenWhole, IsLive, Leaving, Caused
  <2> QED
    BY <2>3, <2>4, <2>6, <2>7
<1>4. ConnectionInv
  <2>1. conn = [c \in Clients |-> conn[c]]
    BY DEF Init
  <2> QED
    BY <1>3, <2>1 DEF ConnectionInv
<1>5. ServerInv
  BY <1>1, <1>2 DEF ServerInv, Stages
<1>6. Counted
  <2>1. Running = {} /\ Permits = {} /\ Lingerers = {}
    BY <1>3 DEF Running, Permits, Lingerers
  <2>2. Cardinality(Running) = 0 /\ Cardinality(Permits) = 0 /\ Cardinality(Lingerers) = 0
    BY <2>1, FS_EmptySet
  <2> QED
    BY <1>1, <2>2 DEF Counted
<1> QED
  BY <1>4, <1>5, <1>6 DEF HostInv

(* A step of the accept loop, of a connection's task, of a request's pump  *)
(* or blocking thread, of a guest, of a client or of the server's owner.   *)
LEMMA HostStepwise == HostInv /\ [Next]_vars => HostInv'
<1> SUFFICES ASSUME HostInv, [Next]_vars PROVE HostInv'
  OBVIOUS
<1>1. CASE Serve
  <2>1. CASE Turn \/ PermitRetry \/ Stop \/ Cleanup \/ CleanupDeadline \/ Leave
    BY <2>1, LoopSteps
  <2>2. CASE AcquirePermit \/ AcceptRetry
    BY <2>2, PermitSteps
  <2>3. CASE \E c \in Clients : Accept(c) \/ AcceptRefused(c)
    BY <2>3, PermitSteps
  <2>4. CASE \E c \in Clients : DropTasks(c)
    BY <2>4, SteadySteps
  <2> QED
    BY <1>1, <2>1, <2>2, <2>3, <2>4 DEF Serve
<1>2. CASE Shutdown
  BY <1>2, LoopSteps
<1>3. ASSUME NEW c \in Clients, Connection(c) PROVE HostInv'
  <2>1. CASE \/ (\E length \in Lengths : Respond(c, length)) \/ RespondFailed(c) \/ Ending(c)
             \/ Finish(c) \/ NoticeLeft(c) \/ ConnectionDeadline(c)
             \/ EndOfBody(c) \/ DropBody(c) \/ CloseBody(c)
    BY <2>1, SteadySteps
  <2>2. CASE DropCall(c)
    BY <2>2, ReleasingSteps
  <2>3. CASE EndTask(c) \/ KeepAlive(c)
    BY <2>3, PermitSteps
  <2> QED
    BY <1>3, <2>1, <2>2, <2>3 DEF Connection
<1>4. ASSUME NEW c \in Clients, Pump(c) PROVE HostInv'
  BY <1>4, SteadySteps
<1>5. ASSUME NEW c \in Clients, Thread(c) PROVE HostInv'
  <2>1. CASE AppStart(c) \/ LingererEnds(c)
    BY <2>1, PermitSteps
  <2>2. CASE Received(c) \/ Acked(c) \/ SendError(c)
    BY <2>2, SteadySteps
  <2>3. CASE \/ AppRefused(c) \/ Interrupted(c) \/ SendData(c) \/ SendFlush(c)
             \/ ProduceCancelled(c) \/ ProduceDisconnected(c)
    BY <2>3, ReleasingSteps
  <2> QED
    BY <1>5, <2>1, <2>2, <2>3 DEF Thread
<1>6. ASSUME NEW c \in Clients, Guest(c) PROVE HostInv'
  <2>1. CASE NextChunk(c) \/ Write(c) \/ FlushOut(c)
    BY <2>1, SteadySteps
  <2>2. CASE Answer(c) \/ ProduceOk(c) \/ ProduceErr(c)
    BY <2>2, ReleasingSteps
  <2> QED
    BY <1>6, <2>1, <2>2 DEF Guest
<1>7. ASSUME NEW c \in Clients, Client(c) PROVE HostInv'
  <2>1. CASE \/ Connect(c) \/ ClientLeaves(c) \/ Refuse(c) \/ IdleTimeout(c)
             \/ TakeMessage(c) \/ PumpFrame(c) \/ RestArrived(c)
    BY <2>1, SteadySteps
  <2>2. CASE RespondInvalid(c)
    BY <2>2, ReleasingSteps
  <2>3. CASE RestRefused(c)
    BY <2>3, LoopSteps
  <2>4. ASSUME NEW size \in {0} \cup (setting.fewest..setting.chunks), Dispatch(c, size)
        PROVE  HostInv'
    <3>1. setting.chunks \in Nat /\ setting.fewest \in Nat
      BY SettingsAssumption DEF HostInv, ServerInv, Numbers, Switches
    <3>2. size \in 0..setting.chunks
      BY <3>1
    <3> QED
      BY <2>4, <3>2, SteadySteps
  <2> QED
    BY <1>7, <2>1, <2>2, <2>3, <2>4 DEF Client
<1>8. CASE UNCHANGED vars
  <2>1. UNCHANGED <<setting, server, stop, firstError, used, conn>> /\ Clients' = Clients
    BY <1>8 DEF vars, Clients
  <2>2. CausesKept
    BY <2>1 DEF CausesKept
  <2>3. ConnectionInv /\ ServerInv /\ Counted
    BY DEF HostInv
  <2>4. /\ conn' = [d \in Clients |-> conn'[d]]
        /\ \A d \in Clients : Sound(d)' /\ Undisturbed(d) /\ conn'[d].permit = conn[d].permit
    BY <2>1, <2>2, <2>3, Untouched
  <2>5. server'.pc = "returned" => \A d \in Clients : Settled(d)
    BY <2>1, <2>3 DEF ServerInv
  <2> QED
    BY <2>1, <2>2, <2>3, <2>4, <2>5, LoopStep DEF ServerInv
<1> QED
  BY <1>1, <1>2, <1>3, <1>4, <1>5, <1>6, <1>7, <1>8 DEF Next

(* The invariant of the server, whatever its setting.                      *)
LEMMA HostAlways == Spec => []HostInv
  BY HostInitially, HostStepwise, PTL DEF Spec

(* serve_async: a permit of the semaphore is held by the accept loop or by *)
(* one connection's task, a task permit by one request's thread, by what   *)
(* its guest has returned, or by the producer its response has outlived,   *)
(* and nothing else counts.  When Http.run has returned, every permit has  *)
(* come back, for any number of clients and whatever they, the guests and  *)
(* the timeouts have done.                                                 *)
THEOREM PermitsComeBack == Spec => []Accounted
<1>1. HostInv => Accounted
  <2> SUFFICES ASSUME HostInv PROVE Accounted
    OBVIOUS
  <2>1. ConnectionInv /\ ServerInv /\ Counted
    BY DEF HostInv
  <2>2. \A c \in Clients : AppOver(c) => ~conn[c].permit
    BY <2>1 DEF ConnectionInv, Shaped, Holding, AppOver
  <2>3. ASSUME server.pc = "returned"
        PROVE  used = [slots |-> 0, connections |-> 0, tasks |-> 0]
    <3>1. \A c \in Clients : Settled(c)
      BY <2>1, <2>3 DEF ServerInv
    <3>2. Running = {} /\ Permits = {} /\ Lingerers = {}
      BY <2>2, <3>1 DEF Running, Permits, Lingerers, Settled
    <3>3. Cardinality(Running) = 0 /\ Cardinality(Permits) = 0 /\ Cardinality(Lingerers) = 0
      BY <3>2, FS_EmptySet
    <3>4. ~server.permit
      BY <2>1, <2>3 DEF ServerInv
    <3>5. used.slots = 0 /\ used.connections = 0 /\ used.tasks = 0
      BY <2>1, <3>3, <3>4 DEF Counted
    <3>6. used \in [slots : Nat, connections : Nat, tasks : Nat]
      BY <2>1 DEF ServerInv
    <3> QED
      BY <3>5, <3>6
  <2> QED
    BY <2>1, <2>2, <2>3 DEF Accounted, Counted, Permits, Lingerers
<1> QED
  BY <1>1, HostAlways, PTL

(* serve_connection and the pumps: the channels hold what they may and the *)
(* counters stay within the limits of the budget; what is left of a body   *)
(* is read as a head only when the body was over the limit, the server is  *)
(* being stopped, or hyper had taken whole a response of a known length;   *)
(* and no response is made by a guest that was told a body had ended which *)
(* was cut short, though such a guest may well be told so.                 *)
THEOREM BodiesStayApart == Spec => []WireSound
<1>1. HostInv => WireSound
  <2> SUFFICES ASSUME HostInv PROVE WireSound
    OBVIOUS
  <2>1. ConnectionInv /\ ServerInv
    BY DEF HostInv
  <2>2. DOMAIN NoConnection = Fields
    BY DEF NoConnection, NoConnectionState, NoRequest, Fields
  <2>3. /\ server.pc \in Stages /\ firstError \in {"none", "error"}
        /\ used.connections <= setting.connections /\ used.tasks <= setting.tasks
        /\ setting.slots # 0 => used.slots <= setting.slots
    BY <2>1 DEF ServerInv
  <2>4. ASSUME NEW c \in Clients
        PROVE  /\ DOMAIN conn[c] = DOMAIN NoConnection
               /\ Len(conn[c].body) <= Capacity /\ Len(conn[c].out) <= Capacity
               /\ conn[c].unsent \in 0..setting.chunks
               /\ conn[c].taken <= setting.maxBody + 1
    <3>1. Typed(conn[c]) /\ LimitsTyped
      BY <2>1, LimitsNat DEF ConnectionInv
    <3> QED
      BY <2>2, <3>1 DEF Typed, LimitsTyped
  <2>5. TypeOK
    BY <2>3, <2>4 DEF TypeOK, Stages
  <2>6. BodyOffTheWire
    BY <2>1 DEF BodyOffTheWire, ConnectionInv, Shaped, OffTheWire, Caused, Leaving
  <2>7. NoEarlyEnd
    BY <2>1 DEF NoEarlyEnd, ConnectionInv, Shaped, OffTheWire, CutOff, IsLive, Live
  <2> QED
    BY <2>5, <2>6, <2>7 DEF WireSound
<1> QED
  BY <1>1, HostAlways, PTL

(* A request is cancelled because its client left, its body was over the   *)
(* limit, its connection is being dropped, hyper had all of a response of  *)
(* a known length, or the server was shut down or aborted, and for nothing *)
(* else; and no producer takes its client's leaving for an error of the    *)
(* server.                                                                 *)
THEOREM CausesAreReal == Spec => []CauseSound
<1>1. HostInv => CauseSound
  BY DEF HostInv, ConnectionInv, ServerInv, CauseSound, ConnectionLocal, CancelledForCause,
         Caused, Leaving
<1> QED
  BY <1>1, HostAlways, PTL
=============================================================================
