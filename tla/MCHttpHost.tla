----------------------------- MODULE MCHttpHost -----------------------------
(***************************************************************************)
(* Instances of HttpHost for TLC.                                          *)
(***************************************************************************)
EXTENDS HttpHost, TLC

Base == [clients |-> 1, leaving |-> 1, requests |-> 0, slots |-> 0, connections |-> 1,
         tasks |-> 1, maxBody |-> 4, fewest |-> 1, chunks |-> 0,
         streams |-> FALSE, reads |-> FALSE, again |-> FALSE, idle |-> FALSE, faults |-> TRUE,
         stops |-> TRUE]

(* Bodies longer than the channel, and longer than the limit, read or not. *)
Bodies == [maxBody |-> 3, fewest |-> 3, chunks |-> 4, reads |-> TRUE] @@ Base

(* Streams whose guest leaves a body unread that fills the channel, and    *)
(* streams that a shutdown meets.                                          *)
Streams == [streams |-> TRUE, fewest |-> 3, chunks |-> 3, stops |-> FALSE] @@ Base
Stopped == [streams |-> TRUE] @@ Base

(* A connection used again, with a request limit, and the only one.        *)
Again == [again |-> TRUE, requests |-> 1, slots |-> 1, chunks |-> 1,
          idle |-> TRUE] @@ Base

(* Used again while the last response's producer still runs.               *)
Lingering == [again |-> TRUE, streams |-> TRUE, faults |-> FALSE, leaving |-> 0] @@ Base

(* Two clients, who may leave, share a task permit; and two, one of whom   *)
(* may leave, a connection permit.                                         *)
Pair == [clients |-> 2, leaving |-> 2, connections |-> 2, stops |-> FALSE] @@ Base
Refused == [clients |-> 2, faults |-> FALSE] @@ Base

Servers == {Bodies, Streams, Stopped, Again, Lingering, Pair, Refused}
=============================================================================
