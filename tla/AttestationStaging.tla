------------------------- MODULE AttestationStaging -------------------------
(***************************************************************************)
(* hell_ci::release::publish::stage_attestations: reads the registry and   *)
(* the two bundles it names while other steps of the job may still write   *)
(* them, and installs the bundles under two new names, or neither.  A run  *)
(* may be killed anywhere and started again.                               *)
(*                                                                         *)
(* A file's body is a sequence of pieces, its time that of the last write, *)
(* by a clock that may stand still between two writes; a number of a file  *)
(* is used again when nothing names it or holds it open.  What the texts   *)
(* say is a choice to refuse them.                                         *)
(***************************************************************************)
EXTENDS Integers, Sequences, FiniteSets

CONSTANTS
  MaxPieces,    \* the size limit, in pieces
  MaxTime,      \* bound: clock ticks
  MaxChanges,   \* bound: what others do to the files and the destination
  MaxRuns       \* bound: runs of the command

ASSUME StagingAssumption == {MaxPieces, MaxTime, MaxChanges, MaxRuns} \subseteq Nat

VARIABLES
  clock, changes,
  disk,         \* the files there are, by number
  named,        \* the file each source names, or NoFile
  inside,       \* the sources that resolve to a place below RUNNER_TEMP
  moves,        \* how often one has begun or ceased to
  racy,         \* the files written twice at one time of the clock
  seen,         \* what the run noted of the file it reads
  accepted,     \* what it has read
  runs, at,     \* the runs so far; what this one does next
  place,        \* the directory the destination names
  noted,        \* the directory the run has examined
  entries,      \* what the directories hold
  installed,    \* the destinations the run has installed
  disturbed,    \* whether others interfered with what it has installed
  stuck         \* whether a file could not be removed

sourceVars == <<clock, disk, named, inside, moves, racy>>
readerVars == <<seen, accepted>>
targetVars == <<place, entries, disturbed>>
installVars == <<noted, installed, stuck>>
stagingVars == <<sourceVars, readerVars, targetVars, installVars, changes, runs, at>>

Sources == <<"registry", "bundle_1", "bundle_2">>
Registry == "registry"
SourceNames == {Sources[i] : i \in 1..3}
Targets == {1, 2}
NoFile == 0
FileNumbers == 1..4

Entry(dir, name, temporary, by) == [dir |-> dir, name |-> name, temporary |-> temporary, by |-> by]
Others == 0

Observed(n) == [number |-> n, size |-> Len(disk[n].body), time |-> disk[n].time]

(* Mutant of SameObservation: the times are not compared.                  *)
SameObservationTimeless(l, r) == l.number = r.number /\ l.size = r.size

SameObservation(l, r) == l = r

----------------------------------------------------------------------------
(* Reading one source.                                                     *)

Source == Sources[Len(accepted) + 1]
AtRead(step) == at = <<"read", step>>
Refuse == at' = <<"refused">>
KeepRest == UNCHANGED <<sourceVars, targetVars, installVars, changes, runs>>

(* The registry itself is not resolved.                                    *)
Resolve ==
  /\ AtRead("resolve")
  /\ at' = IF Source = Registry \/ (Source \in inside /\ named[Source] # NoFile)
             THEN <<"read", "examine">> ELSE <<"refused">>
  /\ KeepRest /\ UNCHANGED readerVars

Examine ==
  /\ AtRead("examine")
  /\ LET n == named[Source]
     IN IF n # NoFile /\ Len(disk[n].body) <= MaxPieces
          THEN /\ seen' = [before |-> Observed(n), opened |-> Observed(n), bytes |-> <<>>,
                           body |-> <<>>, below |-> FALSE]
               /\ at' = <<"read", "open">>
          ELSE Refuse /\ UNCHANGED seen
  /\ KeepRest /\ UNCHANGED accepted

Open ==
  /\ AtRead("open")
  /\ LET n == named[Source]
     IN IF n = NoFile THEN Refuse /\ UNCHANGED seen
        ELSE /\ seen' = [seen EXCEPT !.opened.number = n, !.below = Source \in inside]
             /\ at' = <<"read", "inspect">>
  /\ KeepRest /\ UNCHANGED accepted

Inspect ==
  /\ AtRead("inspect")
  /\ LET opened == Observed(seen.opened.number)
     IN IF SameObservation(seen.before, opened)
          THEN /\ seen' = [seen EXCEPT !.opened = opened, !.body = disk[opened.number].body]
               /\ at' = <<"read", "piece">>
          ELSE Refuse /\ UNCHANGED seen
  /\ KeepRest /\ UNCHANGED accepted

(* One piece more than the limit shows that there are too many.            *)
ReadPiece ==
  /\ AtRead("piece")
  /\ LET body == disk[seen.opened.number].body
         next == Len(seen.bytes) + 1
     IN IF next <= Len(body) /\ next <= MaxPieces + 1
          THEN seen' = [seen EXCEPT !.bytes = Append(@, body[next])] /\ UNCHANGED at
          ELSE /\ at' = IF Len(seen.bytes) <= MaxPieces THEN <<"read", "recheck">>
                                                       ELSE <<"refused">>
               /\ UNCHANGED seen
  /\ KeepRest /\ UNCHANGED accepted

Recheck ==
  /\ AtRead("recheck")
  /\ LET n == named[Source]
     IN at' = IF /\ n # NoFile /\ SameObservation(seen.opened, Observed(n))
                 /\ Len(seen.bytes) = seen.opened.size
                THEN <<"read", "resolve_again">> ELSE <<"refused">>
  /\ KeepRest /\ UNCHANGED readerVars

(* Both answers of the texts' own checks are possible.                     *)
Accept ==
  /\ AtRead("resolve_again")
  /\ \/ Refuse /\ UNCHANGED readerVars
     \/ /\ Source = Registry \/ (Source \in inside /\ named[Source] # NoFile)
        /\ accepted' = Append(accepted, [number |-> seen.opened.number, bytes |-> seen.bytes,
                                         body |-> seen.body, below |-> seen.below])
        /\ seen' = <<>>
        /\ at' = IF Len(accepted') = Len(Sources) THEN <<"note">> ELSE <<"read", "resolve">>
  /\ KeepRest

ReadStep == Resolve \/ Examine \/ Open \/ Inspect \/ ReadPiece \/ Recheck \/ Accept

----------------------------------------------------------------------------
(* Installing the bundles.  Every path goes through the destination's name.*)

There(name, temporary) ==
  {e \in entries : e.dir = place /\ e.name = name /\ e.temporary = temporary
                     /\ (temporary => e.by = runs)}
KeepReads == UNCHANGED <<sourceVars, readerVars, changes, runs, place, disturbed>>

Note ==
  /\ at = <<"note">>
  /\ noted' = place /\ at' = <<"absent">>
  /\ KeepReads /\ UNCHANGED <<entries, installed, stuck>>

LookForTargets ==
  /\ at = <<"absent">>
  /\ at' = IF \A k \in Targets : There(k, FALSE) = {} THEN <<"same", 1>> ELSE <<"refused">>
  /\ KeepReads /\ UNCHANGED <<entries, installVars>>

(* A destination that has changed ends the run; nothing is rolled back.    *)
SameDirectory ==
  /\ at \in {<<"same", k>> : k \in 1..3}
  /\ at' = IF place # noted THEN <<"refused">>
           ELSE IF at[2] = 3 THEN <<"staged">> ELSE <<"create", at[2]>>
  /\ KeepReads /\ UNCHANGED <<entries, installVars>>

CreateTemporary(k) ==
  /\ at = <<"create", k>>
  /\ \/ /\ entries' = entries \cup {Entry(place, k, TRUE, runs)}
        /\ at' = <<"write", k>>
     \/ at' = <<"roll_back">> /\ UNCHANGED entries
  /\ KeepReads /\ UNCHANGED installVars

(* Removing what a name stands for succeeds or not.                        *)
Removes(name, temporary) ==
  \/ /\ There(name, temporary) # {}
     /\ entries' = entries \ There(name, temporary)
     /\ UNCHANGED stuck
  \/ /\ stuck' = (stuck \/ ~temporary)
     /\ UNCHANGED entries

WriteTemporary(k) ==
  /\ at = <<"write", k>>
  /\ \/ at' = <<"link", k>> /\ UNCHANGED <<entries, stuck>>
     \/ at' = <<"roll_back">> /\ Removes(k, TRUE)
  /\ KeepReads /\ UNCHANGED <<noted, installed>>

(* Mutant of Linked: the file takes the place of whatever is there.        *)
LinkedByRename(k) ==
  /\ There(k, TRUE) # {}
  /\ entries' = (entries \ There(k, FALSE)) \cup {Entry(place, k, FALSE, runs)}

(* A link is made only where there is no file of that name.                *)
Linked(k) ==
  /\ There(k, TRUE) # {} /\ There(k, FALSE) = {}
  /\ entries' = entries \cup {Entry(place, k, FALSE, runs)}

(* Mutant of LinkTarget: a name that is taken does not end the run.        *)
LinkTargetOrGoOn(k) ==
  /\ at = <<"link", k>>
  /\ \/ Linked(k) /\ at' = <<"unlink", k>> /\ UNCHANGED stuck
     \/ at' = <<"same", k + 1>> /\ Removes(k, TRUE)
  /\ KeepReads /\ UNCHANGED <<noted, installed>>

LinkTarget(k) ==
  /\ at = <<"link", k>>
  /\ \/ Linked(k) /\ at' = <<"unlink", k>> /\ UNCHANGED stuck
     \/ at' = <<"roll_back">> /\ Removes(k, TRUE)
  /\ KeepReads /\ UNCHANGED <<noted, installed>>

UnlinkTemporary(k) ==
  /\ at = <<"unlink", k>>
  /\ \/ /\ There(k, TRUE) # {} /\ entries' = entries \ There(k, TRUE)
        /\ installed' = installed \cup {k} /\ at' = <<"same", k + 1>>
     \/ /\ at' = <<"undo", k>> /\ UNCHANGED <<entries, installed>>
  /\ KeepReads /\ UNCHANGED <<noted, stuck>>

(* The temporary name stays; the installed one goes.                       *)
UndoLink(k) ==
  /\ at = <<"undo", k>>
  /\ at' = <<"roll_back">> /\ Removes(k, FALSE)
  /\ KeepReads /\ UNCHANGED <<noted, installed>>

(* Mutant of RollBack: the run stops where it is.                          *)
RollBackNothing ==
  /\ at = <<"roll_back">>
  /\ Refuse /\ KeepReads /\ UNCHANGED <<entries, installVars>>

(* The first removal that fails ends it.                                   *)
RollBack ==
  /\ at = <<"roll_back">>
  /\ \/ installed = {} /\ Refuse /\ UNCHANGED <<entries, stuck, installed>>
     \/ \E k \in installed :
          /\ \A j \in installed : k <= j
          /\ Removes(k, FALSE)
          /\ installed' = installed \ {k}
          /\ at' = IF entries' = entries THEN <<"refused">> ELSE at
  /\ KeepReads /\ UNCHANGED noted

InstallStep ==
  \/ Note \/ LookForTargets \/ SameDirectory \/ RollBack
  \/ \E k \in Targets : CreateTemporary(k) \/ WriteTemporary(k) \/ LinkTarget(k) \/ UnlinkTemporary(k) \/ UndoLink(k)

----------------------------------------------------------------------------
(* Everyone else.                                                          *)

Held == IF at[1] = "read" /\ at[2] \notin {"resolve", "examine", "open"}
          THEN {seen.opened.number} ELSE {}
Running == at[1] \notin {"refused", "staged"}

Change == changes < MaxChanges /\ Running /\ changes' = changes + 1
KeepStage == UNCHANGED <<readerVars, installVars, runs, at>>

(* Bound: the sources are changed in the first run only.                   *)
ChangeSource == Change /\ runs = 1 /\ at[1] = "read"

Tick ==
  /\ clock < MaxTime /\ runs = 1 /\ at[1] = "read"
  /\ clock' = clock + 1
  /\ UNCHANGED <<disk, named, inside, moves, racy, targetVars, changes>> /\ KeepStage

(* A piece is written over, added or cut off.                              *)
WriteInPlace(s) ==
  LET n == named[s]
      body == disk[n].body
  IN /\ ChangeSource /\ n # NoFile
     /\ \E new \in {[body EXCEPT ![i] = 1] : i \in DOMAIN body}
                     \cup {Append(body, 1)} \cup {SubSeq(body, 1, Len(body) - 1)} :
          /\ Len(new) \in 1..(MaxPieces + 1)
          /\ disk' = [disk EXCEPT ![n] = [body |-> new, time |-> clock]]
     /\ racy' = IF disk[n].time = clock THEN racy \cup {n} ELSE racy
     /\ UNCHANGED <<clock, named, inside, moves, targetVars>> /\ KeepStage

(* Another file, perhaps an older one, takes the name.                     *)
Replace(s) ==
  LET free == FileNumbers \ ({named[r] : r \in SourceNames} \cup Held)
  IN /\ ChangeSource
     /\ \E n \in free, t \in 0..clock :
          /\ disk' = [disk EXCEPT ![n] = [body |-> [i \in 1..MaxPieces |-> 2], time |-> t]]
          /\ named' = [named EXCEPT ![s] = n]
     /\ UNCHANGED <<clock, inside, moves, racy, targetVars>> /\ KeepStage

RemoveSource(s) ==
  /\ ChangeSource
  /\ named' = [named EXCEPT ![s] = NoFile]
  /\ UNCHANGED <<clock, disk, inside, moves, racy, targetVars>> /\ KeepStage

(* A directory on the way is exchanged for another, or back.               *)
Move(s) ==
  /\ ChangeSource
  /\ inside' = IF s \in inside THEN inside \ {s} ELSE inside \cup {s}
  /\ moves' = moves + 1
  /\ UNCHANGED <<clock, disk, named, racy, targetVars>> /\ KeepStage

FreshDisk == [n \in FileNumbers |-> [body |-> [i \in 1..MaxPieces |-> 0], time |-> 0]]
FreshNames == [s \in SourceNames |-> CHOOSE i \in 1..3 : Sources[i] = s]

ChangeTarget == Change /\ UNCHANGED sourceVars /\ KeepStage

Intrude(k) ==
  /\ ChangeTarget /\ at[1] # "read" /\ There(k, FALSE) = {}
  /\ entries' = entries \cup {Entry(place, k, FALSE, Others)}
  /\ UNCHANGED <<place, disturbed>>

Clear(k) ==
  /\ ChangeTarget /\ There(k, FALSE) # {}
  /\ entries' = entries \ There(k, FALSE)
  /\ disturbed' = (disturbed \/ at[1] # "read")
  /\ UNCHANGED place

ExchangeDirectory ==
  /\ ChangeTarget /\ at[1] # "read"
  /\ place' = 3 - place /\ disturbed' = TRUE
  /\ UNCHANGED entries

(* The command ends, or is killed, and is run again on sources made anew.  *)
Rerun ==
  /\ runs < MaxRuns
  /\ runs' = runs + 1 /\ at' = <<"read", "resolve">>
  /\ seen' = <<>> /\ accepted' = <<>> /\ noted' = 0 /\ installed' = {}
  /\ disturbed' = FALSE /\ stuck' = FALSE
  /\ clock' = 1 /\ disk' = FreshDisk /\ named' = FreshNames
  /\ inside' = SourceNames /\ moves' = 0 /\ racy' = {}
  /\ UNCHANGED <<place, entries, changes>>

StagingInit ==
  /\ clock = 1 /\ disk = FreshDisk /\ named = FreshNames
  /\ inside = SourceNames /\ moves = 0 /\ racy = {}
  /\ seen = <<>> /\ accepted = <<>> /\ runs = 1 /\ at = <<"read", "resolve">>
  /\ place = 1 /\ noted = 0 /\ entries = {} /\ installed = {}
  /\ changes = 0 /\ disturbed = FALSE /\ stuck = FALSE

StagingNext ==
  \/ ReadStep \/ InstallStep \/ Rerun \/ Tick \/ ExchangeDirectory
  \/ \E s \in SourceNames : WriteInPlace(s) \/ Replace(s) \/ RemoveSource(s) \/ Move(s)
  \/ \E k \in Targets : Intrude(k) \/ Clear(k)

StagingSpec == StagingInit /\ [][StagingNext]_stagingVars

----------------------------------------------------------------------------

(* What is accepted of a source is what its file held when it was opened,  *)
(* however it was written meanwhile, and a bundle was then below           *)
(* RUNNER_TEMP: unless two writes share one time of the clock, or the      *)
(* source was moved away and back.                                         *)
ReadsWhole ==
  \A i \in DOMAIN accepted :
    /\ accepted[i].bytes = accepted[i].body \/ accepted[i].number \in racy
    /\ Sources[i] = Registry \/ accepted[i].below \/ moves > 1

(* A run that is refused leaves nothing it has installed, unless it could   *)
(* not be removed or others have interfered.                               *)
AllOrNothing ==
  at = <<"refused">> /\ ~stuck /\ ~disturbed =>
    \A e \in entries : e.by = runs => e.temporary

(* A run that answers success has installed both bundles.                  *)
StagedIsComplete ==
  [][at' = <<"staged">> /\ at # at' =>
       disturbed \/ \A k \in Targets : Entry(place, k, FALSE, runs) \in entries]_stagingVars

(* A run removes and replaces nothing but what it has put there itself,    *)
(* unless others have interfered with that.                                *)
OthersKept ==
  [][InstallStep /\ ~disturbed => \A e \in entries \ entries' : e.by = runs]_stagingVars
(* What is accepted was read whole, and a refused run takes back what it   *)
(* has installed (publish.rs:37-258).                                      *)
StagedSound == ReadsWhole /\ AllOrNothing

(* A run that succeeds has installed both bundles, and no run touches what *)
(* is not its own (publish.rs:60-110, manifest.rs:94-136).                 *)
InstallsSafely == StagedIsComplete /\ OthersKept
=============================================================================
