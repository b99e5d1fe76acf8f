----------------------------- MODULE FileHandle -----------------------------
(***************************************************************************)
(* hell_runtime::native_handle::FileHandle: the file, what is pending for  *)
(* it and the buffering mode, behind two mutexes, and the budget permit.   *)
(* Every thread of a program that shares the handle writes, changes the    *)
(* mode, reads or hands a copy to a child process; a cancelled scope and   *)
(* its closing close it from threads of their own.  A write carries one    *)
(* unit, named by the order in which the handle accepted it; a unit may    *)
(* hold a newline.  The operating system may accept a part only of what it *)
(* is given and answer an error.                                           *)
(***************************************************************************)
EXTENDS Integers, Sequences, SequencesExt

CONSTANTS
  Writers,    \* the threads that share the handle
  Modes,      \* subset of {"none", "line", "block"}: buffering modes used
  Block,      \* units that fill a block of a block-buffered handle
  MaxUnits,   \* bound: units written in all
  MaxFaults   \* bound: writes the operating system refuses

ASSUME HandleAssumption ==
  /\ Block \in Nat \ {0} /\ MaxUnits \in Nat /\ MaxFaults \in Nat
  /\ "block" \in Modes /\ Modes \subseteq {"none", "line", "block"}

VARIABLES
  mode,       \* the buffering mode
  open,       \* FileState.file is there
  pending,    \* FileState.pending: units
  file,       \* what the file has received, units
  permitted,  \* the handle holds its budget permit
  writing,    \* the mode a thread read before it takes the state mutex, or "no"
  accepted,   \* units of the writes whose answer was Ok
  units,      \* units given to the handle so far
  refused,    \* faults so far
  excused     \* a fault, or a write in a mode since changed, left units pending

handleVars ==
  <<mode, open, pending, file, permitted, writing, accepted, units, refused, excused>>

HandleInit ==
  /\ mode = "block" /\ open = TRUE /\ permitted = TRUE
  /\ pending = <<>> /\ file = <<>> /\ accepted = {}
  /\ writing = [w \in Writers |-> "no"]
  /\ units = 0 /\ refused = 0 /\ excused = FALSE

Newline(unit) == unit % 2 = 0

(* flush_pending and flush_complete_blocks hand the first n pending units  *)
(* to the file.  All of them arrive, and leave the buffer; or a part only, *)
(* an error is answered and all of them stay in the buffer.                *)
Arrive(n, buffer, late) ==
  /\ pending' = SubSeq(buffer, n + 1, Len(buffer))
  /\ file' = file \o SubSeq(buffer, 1, n)
  /\ excused' = (n < Len(buffer) /\ (excused \/ late))
  /\ UNCHANGED refused

(* Mutant of Fault: the buffer is taken before it is written.              *)
FaultDropping(n, buffer) ==
  /\ n > 0 /\ refused < MaxFaults
  /\ refused' = refused + 1
  /\ \E part \in 0..(n - 1) : file' = file \o SubSeq(buffer, 1, part)
  /\ pending' = <<>>
  /\ excused' = TRUE

Fault(n, buffer) ==
  /\ n > 0 /\ refused < MaxFaults
  /\ refused' = refused + 1
  /\ \E part \in 0..(n - 1) : file' = file \o SubSeq(buffer, 1, part)
  /\ pending' = buffer
  /\ excused' = TRUE

FlushPending == Arrive(Len(pending), pending, FALSE)
FlushFails   == Fault(Len(pending), pending)

(* How many units a write in a mode hands over: all, or the full blocks.   *)
Due(m, buffer) ==
  CASE m = "none"  -> Len(buffer)
    [] m = "line"  -> IF Newline(units + 1) THEN Len(buffer) ELSE 0
    [] m = "block" -> (Len(buffer) \div Block) * Block

(* write_all reads the mode, lets go of its mutex, and takes the state's.  *)
ReadMode(w) ==
  /\ writing[w] = "no" /\ units < MaxUnits
  /\ writing' = [writing EXCEPT ![w] = mode]
  /\ UNCHANGED <<mode, open, pending, file, permitted, accepted, units, refused, excused>>

Write(w) ==
  /\ writing[w] # "no" /\ units < MaxUnits
  /\ writing' = [writing EXCEPT ![w] = "no"]
  /\ IF ~open
       THEN UNCHANGED <<pending, file, accepted, units, refused, excused>>
       ELSE LET buffer == Append(pending, units + 1)
                n == Due(writing[w], buffer)
            IN /\ units' = units + 1
               /\ \/ Arrive(n, buffer, writing[w] # mode) /\ accepted' = accepted \cup {units + 1}
                  \/ Fault(n, buffer) /\ UNCHANGED accepted
  /\ UNCHANGED <<mode, open, permitted>>

(* read_up_to and try_clone_file flush, then answer from the file; either  *)
(* is refused on a closed handle.                                          *)
FlushAndUse(w) ==
  /\ writing[w] = "no" /\ open
  /\ FlushPending \/ FlushFails
  /\ UNCHANGED <<mode, open, permitted, writing, accepted, units>>

(* Mutant of SetBuffering: what is pending is not flushed.                 *)
SetBufferingOnly(w, m) ==
  /\ writing[w] = "no" /\ m # mode
  /\ mode' = m
  /\ UNCHANGED <<open, pending, file, permitted, writing, accepted, units, refused, excused>>

(* set_buffering flushes and changes the mode, under both mutexes.         *)
SetBuffering(w, m) ==
  /\ writing[w] = "no" /\ m # mode
  /\ \/ FlushPending /\ mode' = m
     \/ FlushFails /\ UNCHANGED mode
  /\ UNCHANGED <<open, permitted, writing, accepted, units>>

(* Mutant of Close: the permit goes whether or not the flush succeeds.     *)
CloseCarelessly ==
  /\ \/ FlushPending /\ open' = FALSE
     \/ FlushFails /\ UNCHANGED open
  /\ permitted' = FALSE
  /\ UNCHANGED <<mode, writing, accepted, units>>

(* close, by the program, a process that is done with it, the cancellation *)
(* or the closing of the scope: a failed flush leaves the handle open.     *)
Close ==
  /\ \/ FlushPending /\ open' = FALSE /\ permitted' = FALSE
     \/ FlushFails /\ UNCHANGED <<open, permitted>>
  /\ UNCHANGED <<mode, writing, accepted, units>>

HandleNext ==
  \/ \E w \in Writers : ReadMode(w) \/ Write(w) \/ FlushAndUse(w)
  \/ \E w \in Writers, m \in Modes : SetBuffering(w, m)
  \/ Close

HandleSpec == HandleInit /\ [][HandleNext]_handleVars

----------------------------------------------------------------------------

HandleTypeOK ==
  /\ mode \in Modes /\ open \in BOOLEAN /\ permitted \in BOOLEAN
  /\ pending \in Seq(1..MaxUnits) /\ file \in Seq(1..MaxUnits)
  /\ writing \in [Writers -> Modes \cup {"no"}]
  /\ accepted \subseteq 1..units /\ units \in 0..MaxUnits /\ refused \in 0..MaxFaults
  /\ excused \in BOOLEAN

(* The file receives the units in the order the handle accepted them, and  *)
(* no write that answered Ok is dropped: it is in the file or pending, and *)
(* in the file once the handle is closed.  Only a refused write makes the  *)
(* file receive a unit again, as write_all restarts from the whole buffer. *)
NothingLost ==
  LET received == file \o pending
  IN /\ accepted \subseteq ToSet(received)
     /\ ~open => pending = <<>>
     /\ refused = 0 => received = [i \in 1..units |-> i]

(* A handle gives its permit back when it is closed, never before, and a   *)
(* failed flush at closing keeps both, so that closing again can succeed.  *)
PermitWithFile == permitted = open

(* Nothing waits in the buffer longer than the mode allows: nothing at all *)
(* without buffering, no newline with line buffering, less than a block    *)
(* with block buffering.  A refused write excuses the units it leaves, and *)
(* so does a write that had read the mode before it was changed.           *)
Prompt ==
  ~excused => CASE mode = "none"  -> pending = <<>>
                [] mode = "line"  -> ~\E unit \in ToSet(pending) : Newline(unit)
                [] mode = "block" -> Len(pending) < Block

(* A handle loses no unit it has accepted, keeps its permit while it is    *)
(* open, and flushes when its mode says (native_handle.rs:58-138).         *)
HandleSound == HandleTypeOK /\ NothingLost /\ PermitWithFile /\ Prompt
=============================================================================
