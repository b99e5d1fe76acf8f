-------------------------- MODULE ReleasePublisher --------------------------
(***************************************************************************)
(* The publication of one planned release by crates/hell-ci: the           *)
(* admission check of remote_state.rs, then publish_with_client of         *)
(* publish.rs, over the requests of github.rs.                             *)
(*                                                                         *)
(* The publisher keeps nothing between two attempts: what it knows is what *)
(* the repository shows.  A request that writes may be applied and its     *)
(* answer lost, may never arrive, or may be applied after the client gave  *)
(* up on it (the client waits 30 seconds); an attempt may be killed        *)
(* between any two requests; other people move the branch, make the tag    *)
(* and edit releases meanwhile.  Attempts follow each other, they do not   *)
(* overlap (the release workflow is one concurrency group).                *)
(*                                                                         *)
(* Abstracted: the content of an asset is a number, a release body is who  *)
(* its markers say owns it and whether the notes are in it, and an asset's *)
(* identifier is its name and content.  Releases of other tags, pages of   *)
(* the listing and chains of annotated tags are not told apart.            *)
(***************************************************************************)
EXTENDS Naturals, FiniteSets

CONSTANTS
    Planned,      \* names of the planned assets, numbered in their order
    Unplanned,    \* names that are not in the plan
    Settings,     \* bounds of each instance, see SettingsAssumption
    MaxReleases   \* bound: releases ever created for the tag

ASSUME NamesAssumption ==
    /\ Planned \subseteq Nat
    /\ Unplanned \subseteq Nat
    /\ Planned \cap Unplanned = {}

(* attempts, faults and what other people do are counted; late says        *)
(* whether a request may be applied after the client gave up on it, remade *)
(* which planned assets every attempt makes anew (the attestations, when   *)
(* the whole publishing job runs again).                                   *)
ASSUME SettingsAssumption ==
    /\ Settings \subseteq [attempts : Nat, faults : Nat, outside : Nat,
                           late : BOOLEAN, remade : SUBSET Planned]
    /\ MaxReleases \in Nat \ {0}

VARIABLES
    releases, \* what the repository holds for the planned tag, by identifier
    made,     \* releases created so far
    tag,      \* the planned tag: "none", "candidate" or "other"
    branch,   \* the candidate branch: "candidate" or "moved"
    feature,  \* whether the repository makes published releases immutable
    late,     \* requests the client gave up on that may still be applied
    pc,       \* the request the publisher sends next
    attempt,  \* attempts started
    direct,   \* attempts publish without the admission check of the workflow
    admission,\* the state of the admission report
    obs,      \* the release as last observed: its identifier (0: none), itself
    round,    \* passes of reconcile_assets
    dels,     \* assets it still has to delete
    ups,      \* assets it still has to upload
    result,   \* how the last attempt ended
    touched,  \* releases other people edited, for the properties
    setting,  \* the bounds of this instance
    faults,   \* requests lost, attempts killed
    outside   \* things other people did

remote == <<releases, made, tag, branch, feature>>
bounds == <<setting, faults, outside>>
vars == <<releases, made, tag, branch, feature, late, pc, attempt, direct,
          admission, obs, round, dels, ups, result, touched,
          setting, faults, outside>>

-----------------------------------------------------------------------------
Names == Planned \cup Unplanned
Ids == 1..MaxReleases

Absent == 0
Foreign == 1
Original == 2
Local(a) == [n \in Names |-> IF n \notin Planned THEN Absent
                             ELSE IF n \in setting.remade THEN Original + a ELSE Original]
Contents(a) == 0..(Original + a)

NoAssets == [n \in Names |-> Absent]
(* owner: what the markers in the body and the identity fields say.        *)
(* "plan": the exact marker, tag, target and prerelease flag; "stale": one *)
(* marker of the publisher, of another plan; "human": anything else.       *)
Release(state, owner, assets) ==
    [state |-> state, owner |-> owner, notes |-> FALSE, immutable |-> FALSE,
     assets |-> assets]
NoRelease == Release("none", "human", NoAssets)
Drafted(owner) == Release("draft", owner, NoAssets)

Nothing == [id |-> 0, release |-> NoRelease]
Seen(id) == [id |-> id, release |-> releases[id]]

(* Mutants: an unmarked draft is taken for a stale one; a draft counts     *)
(* only with all its assets; a mutable release counts as published.        *)
ClassifyUnmarkedAsStale(r) ==
    CASE r.state = "draft" -> IF r.owner = "plan" THEN "matching_draft" ELSE "stale_draft"
      [] r.state = "published" ->
            IF r.immutable /\ r.owner = "plan" /\ r.assets = Local(attempt)
            THEN "matching_immutable" ELSE "conflict"
      [] OTHER -> "none"
ClassifyDraftByAssets(r) ==
    CASE r.state = "draft" /\ r.owner = "plan" /\ r.assets \in {NoAssets, Local(attempt)} ->
            "matching_draft"
      [] r.state = "draft" /\ r.owner = "stale" -> "stale_draft"
      [] r.state = "published" ->
            IF r.immutable /\ r.owner = "plan" /\ r.assets = Local(attempt)
            THEN "matching_immutable" ELSE "conflict"
      [] OTHER -> IF r.state = "none" THEN "none" ELSE "conflict"
ClassifyIgnoringImmutable(r) ==
    CASE r.state = "draft" /\ r.owner = "plan" -> "matching_draft"
      [] r.state = "draft" /\ r.owner = "stale" -> "stale_draft"
      [] r.state = "published" ->
            IF r.owner = "plan" /\ r.assets = Local(attempt)
            THEN "matching_immutable" ELSE "conflict"
      [] OTHER -> IF r.state = "none" THEN "none" ELSE "conflict"

-----------------------------------------------------------------------------
(* ExistingReleaseState.  For a draft, whether the assets match plays no   *)
(* part in it.                                                             *)
Classify(r) ==
    CASE r.state = "draft" /\ r.owner = "plan" -> "matching_draft"
      [] r.state = "draft" /\ r.owner = "stale" -> "stale_draft"
      [] r.state = "draft" /\ r.owner = "human" -> "conflict"
      [] r.state = "published" ->
            IF r.immutable /\ r.owner = "plan" /\ r.assets = Local(attempt)
            THEN "matching_immutable" ELSE "conflict"
      [] OTHER -> "none"

ExactMetadata(r) == r.notes

(* Mutant: names outside the plan are uploaded as well.                    *)
ToUploadAny(r) == {n \in Names : r.assets[n] # Local(attempt)[n]}

(* Assets whose remote size or digest differs from the local file go, the  *)
(* planned ones that are then not there are uploaded.                      *)
ToDelete(r) == {n \in Names : r.assets[n] # Absent /\ r.assets[n] # Local(attempt)[n]}
ToUpload(r) == {n \in Planned : r.assets[n] # Local(attempt)[n]}

-----------------------------------------------------------------------------
(* The repository: which writes it accepts and what they do.  A request    *)
(* names the release, the asset and its content.                           *)
Request(op, id, name, content) ==
    [op |-> op, id |-> id, name |-> name, content |-> content]
NoName == 0

Shown == {id \in Ids : releases[id].state # "none"}
Mutable(r) == r.state = "draft" \/ (r.state = "published" /\ ~r.immutable)

Accepts(q) ==
    CASE q.op = "create" -> made < MaxReleases
      [] q.op = "delete_release" -> q.id \in Shown
      [] q.op = "delete_asset" ->
            Mutable(releases[q.id]) /\ releases[q.id].assets[q.name] = q.content
      [] q.op = "upload" ->
            Mutable(releases[q.id]) /\ releases[q.id].assets[q.name] = Absent
      [] q.op = "publish" ->
            q.id \in Shown /\ \A id \in Shown \ {q.id} : releases[id].state = "draft"

(* Publishing makes the tag, where there is none, at the release's target. *)
Published(r) ==
    [r EXCEPT !.state = "published", !.notes = TRUE, !.owner = "plan",
              !.immutable = IF r.state = "published" THEN r.immutable ELSE feature]

Apply(q) ==
    /\ releases' =
        CASE q.op = "create" -> [releases EXCEPT ![made + 1] = Drafted("plan")]
          [] q.op = "delete_release" -> [releases EXCEPT ![q.id] = NoRelease]
          [] q.op = "delete_asset" -> [releases EXCEPT ![q.id].assets[q.name] = Absent]
          [] q.op = "upload" -> [releases EXCEPT ![q.id].assets[q.name] = q.content]
          [] q.op = "publish" -> [releases EXCEPT ![q.id] = Published(@)]
    /\ made' = IF q.op = "create" THEN made + 1 ELSE made
    /\ tag' = IF q.op = "publish" /\ tag = "none" THEN "candidate" ELSE tag
    /\ UNCHANGED <<branch, feature>>

-----------------------------------------------------------------------------
(* A read that gets no answer ends the attempt wherever it is made; a      *)
(* write that gets none may have been applied, may be applied later, or    *)
(* never.                                                                  *)
Fault == faults < setting.faults /\ faults' = faults + 1 /\ UNCHANGED <<setting, outside>>

End(r) ==
    /\ pc' = "idle"
    /\ result' = r
    /\ UNCHANGED <<obs, round, dels, ups>>
Fail == End("failed")

Goto(at) ==
    /\ pc' = at
    /\ UNCHANGED <<obs, round, dels, ups, result>>

Observe(at, o) ==
    /\ pc' = at
    /\ obs' = o
    /\ UNCHANGED <<round, dels, ups, result>>

(* What every step of the publisher leaves alone, and what a read does.    *)
Steady == UNCHANGED <<attempt, direct, touched>>
Reads == UNCHANGED <<remote, late, bounds, admission>> /\ Steady

Answered(q) ==
    /\ Accepts(q)
    /\ Apply(q)
    /\ UNCHANGED <<late, bounds, admission>>
    /\ Steady

Unanswered(q) ==
    /\ \/ ~Accepts(q) /\ UNCHANGED <<remote, late, bounds>>
       \/ Accepts(q) /\ Apply(q) /\ Fault /\ UNCHANGED late
       \/ UNCHANGED <<remote, late>> /\ Fault
       \/ setting.late /\ UNCHANGED remote /\ Fault /\ late' = late \cup {q}
    /\ UNCHANGED admission
    /\ Steady

(* Mutant: drafts are not looked for.                                      *)
ByTagPublishedOnly ==
    LET found == {id \in Shown : releases[id].state = "published"}
    IN IF found = {} THEN Nothing ELSE Seen(CHOOSE id \in found : TRUE)

(* release_state_by_tag lists drafts too and refuses two releases of one   *)
(* tag; release_by_tag sees published ones only.                           *)
Listed == Cardinality(Shown) <= 1
ByTag == IF Shown = {} THEN Nothing ELSE Seen(CHOOSE id \in Shown : TRUE)
PublishedIds == {id \in Shown : releases[id].state = "published"}
PublishedByTag ==
    IF PublishedIds = {} THEN Nothing ELSE Seen(CHOOSE id \in PublishedIds : TRUE)


-----------------------------------------------------------------------------
(* One attempt.  The state of the repository it starts from is anything an *)
(* earlier plan, an earlier attempt or a person may have left.             *)
Found(r) ==
    /\ releases = [id \in Ids |-> IF id = 1 THEN r ELSE NoRelease]
    /\ made = IF r = NoRelease THEN 0 ELSE 1
    /\ tag = IF r.state = "published" THEN "other" ELSE "none"
Init ==
    /\ \/ Found(NoRelease)
       \/ Found(Drafted("human"))
       \/ \E owner \in {"plan", "stale"}, n \in Names, c \in {Absent, Foreign, Original} :
             Found(Release("draft", owner, [NoAssets EXCEPT ![n] = c]))
       \/ Found([Release("published", "human", NoAssets) EXCEPT !.immutable = TRUE])
    /\ branch = "candidate"
    /\ feature = TRUE
    /\ late = {}
    /\ pc = "idle"
    /\ attempt = 0
    /\ direct \in BOOLEAN
    /\ admission = "none"
    /\ obs = Nothing
    /\ round = 1
    /\ dels = {}
    /\ ups = {}
    /\ result = "none"
    /\ touched = {}
    /\ setting \in Settings
    /\ faults = 0
    /\ outside = 0

Start ==
    /\ pc = "idle"
    /\ attempt < setting.attempts
    /\ attempt' = attempt + 1
    /\ pc' = IF direct THEN "feature" ELSE "check_branch"
    /\ result' = "none"
    /\ admission' = "none"
    /\ obs' = Nothing
    /\ round' = 1
    /\ dels' = {}
    /\ ups' = {}
    /\ UNCHANGED <<remote, late, direct, touched, bounds>>

(* check_with_client writes what it found and answers Ok for one state.    *)
CheckBranch ==
    /\ pc = "check_branch"
    /\ admission' = IF branch = "moved" THEN "moved" ELSE "stable"
    /\ Goto("check_tag")
    /\ UNCHANGED <<remote, late, bounds>> /\ Steady

CheckTag ==
    /\ pc = "check_tag"
    /\ admission' = IF admission = "moved" THEN "moved"
                    ELSE IF tag # "none" THEN "tag_exists" ELSE "stable"
    /\ IF admission' = "stable" THEN Goto("feature") ELSE End("refused")
    /\ UNCHANGED <<remote, late, bounds>> /\ Steady

CheckUnanswered ==
    /\ pc \in {"check_branch", "check_tag"}
    /\ Fault
    /\ admission' = "query_failed"
    /\ End("refused")
    /\ UNCHANGED <<remote, late>> /\ Steady

ReadPcs == {"feature", "branch", "list", "tag", "list_after_delete",
            "list_after_second_delete", "branch_before_create",
            "tag_before_create", "list_after_create",
            "list_after_reconcile_failed", "list_after_reconcile",
            "branch_before_publish", "tag_before_publish",
            "get_after_publish", "get_published", "tag_after_publish"}
ReadUnanswered ==
    /\ pc \in ReadPcs
    /\ Fault
    /\ Fail
    /\ UNCHANGED <<remote, late, admission>> /\ Steady

ReadFeature ==
    /\ pc = "feature"
    /\ IF feature THEN Goto("branch") ELSE Fail
    /\ Reads

(* require_stable_branch, at its three places.                             *)
ReadBranch(at, next) ==
    /\ pc = at
    /\ IF branch = "candidate" THEN Goto(next) ELSE Fail
    /\ Reads

(* require_remote_tag and require_absent_tag.                              *)
TagAllows(r) == tag = IF r.state = "published" THEN "candidate" ELSE "none"

List ==
    /\ pc = "list"
    /\ IF ~Listed THEN Fail
       ELSE Observe(IF ByTag = Nothing THEN "branch_before_create" ELSE "tag", ByTag)
    /\ Reads

(* The tag of the release that is there, then what that release is.        *)
Decide ==
    /\ pc = "tag"
    /\ LET state == Classify(obs.release)
       IN IF ~TagAllows(obs.release) THEN Fail
          ELSE CASE state = "matching_immutable" ->
                        IF ExactMetadata(obs.release) THEN Goto("report_known") ELSE Fail
                 [] state = "matching_draft" -> Goto("begin_reconcile")
                 [] state = "stale_draft" -> Goto("delete")
                 [] OTHER -> Fail
    /\ Reads

-----------------------------------------------------------------------------
(* A stale draft goes; when the answer is lost it is looked for again and, *)
(* if it still is a stale draft, deleted once more.                        *)
DeleteStale ==
    /\ pc = "delete"
    /\ LET q == Request("delete_release", obs.id, NoName, Absent)
       IN \/ Answered(q) /\ Goto("branch_before_create")
          \/ Unanswered(q) /\ Goto("list_after_delete")

ListAfterDelete ==
    /\ pc = "list_after_delete"
    /\ IF ~Listed THEN Fail
       ELSE IF ByTag = Nothing THEN Observe("branch_before_create", Nothing)
       ELSE IF Classify(ByTag.release) = "stale_draft" THEN Observe("delete_again", ByTag)
       ELSE Fail
    /\ Reads

DeleteAgain ==
    /\ pc = "delete_again"
    /\ LET q == Request("delete_release", obs.id, NoName, Absent)
       IN \/ Answered(q) /\ Goto("list_after_second_delete")
          \/ Unanswered(q) /\ Fail

ListAfterSecondDelete ==
    /\ pc = "list_after_second_delete"
    /\ IF Listed /\ ByTag = Nothing THEN Goto("branch_before_create") ELSE Fail
    /\ Reads

ReadTagBeforeCreate ==
    /\ pc = "tag_before_create"
    /\ IF tag = "none" THEN Goto("create") ELSE Fail
    /\ Reads

(* The answer to a create shows the release it made.                       *)
Create ==
    /\ pc = "create"
    /\ LET q == Request("create", 0, NoName, Absent)
       IN \/ Answered(q) /\ Observe("begin_reconcile",
                                   [id |-> made', release |-> releases'[made']])
          \/ Unanswered(q) /\ Goto("list_after_create")

ListAfterCreate ==
    /\ pc = "list_after_create"
    /\ IF Listed /\ Classify(ByTag.release) = "matching_draft"
       THEN Observe("begin_reconcile", ByTag) ELSE Fail
    /\ Reads

-----------------------------------------------------------------------------
(* reconcile_assets works from the release as observed: first what differs *)
(* goes, in the order of the names, then what is missing is uploaded.  An  *)
(* error in the first pass is answered by looking again and a second pass. *)
BeginReconcile ==
    /\ pc = "begin_reconcile"
    /\ pc' = "reconcile"
    /\ dels' = ToDelete(obs.release)
    /\ ups' = ToUpload(obs.release)
    /\ UNCHANGED <<obs, round, result>>
    /\ Reads

ReconcileFailed ==
    IF round = 1 THEN Goto("list_after_reconcile_failed") ELSE Fail

(* The first of the names that are left.                                   *)
FirstOf(n, names) == \A m \in names : n <= m

DeleteAsset ==
    /\ pc = "reconcile"
    /\ \E n \in dels :
          /\ FirstOf(n, dels)
          /\ LET q == Request("delete_asset", obs.id, n, obs.release.assets[n])
             IN \/ /\ Answered(q)
                   /\ dels' = dels \ {n}
                   /\ UNCHANGED <<pc, obs, round, ups, result>>
                \/ Unanswered(q) /\ ReconcileFailed

Upload ==
    /\ pc = "reconcile"
    /\ dels = {}
    /\ \E n \in ups :
          /\ FirstOf(n, ups)
          /\ LET q == Request("upload", obs.id, n, Local(attempt)[n])
             IN \/ /\ Answered(q)
                   /\ ups' = ups \ {n}
                   /\ UNCHANGED <<pc, obs, round, dels, result>>
                \/ Unanswered(q) /\ ReconcileFailed

(* Mutant: no second pass after an error.                                  *)
ListAfterReconcileFailedOnce ==
    /\ pc = "list_after_reconcile_failed"
    /\ IF Listed /\ Classify(ByTag.release) = "matching_draft"
       THEN Observe("branch_before_publish", ByTag) ELSE Fail
    /\ Reads

EndReconcile ==
    /\ pc = "reconcile"
    /\ dels = {} /\ ups = {}
    /\ Goto("list_after_reconcile")
    /\ Reads

ListAfterReconcileFailed ==
    /\ pc = "list_after_reconcile_failed"
    /\ IF Listed /\ Classify(ByTag.release) = "matching_draft"
       THEN /\ pc' = "begin_reconcile"
            /\ obs' = ByTag
            /\ round' = 2
            /\ UNCHANGED <<dels, ups, result>>
       ELSE Fail
    /\ Reads

ListAfterReconcile ==
    /\ pc = "list_after_reconcile"
    /\ IF Listed /\ Classify(ByTag.release) = "matching_draft"
       THEN Observe("branch_before_publish", ByTag) ELSE Fail
    /\ Reads

-----------------------------------------------------------------------------
ReadTagBeforePublish ==
    /\ pc = "tag_before_publish"
    /\ IF TagAllows(obs.release) THEN Goto("publish") ELSE Fail
    /\ Reads

Publish ==
    /\ pc = "publish"
    /\ LET q == Request("publish", obs.id, NoName, Absent)
       IN \/ Answered(q) /\ Goto("get_published")
          \/ Unanswered(q) /\ Goto("get_after_publish")

GetAfterPublish ==
    /\ pc = "get_after_publish"
    /\ IF PublishedByTag = Nothing THEN Fail ELSE Goto("get_published")
    /\ Reads

GetPublished ==
    /\ pc = "get_published"
    /\ LET r == PublishedByTag.release
       IN IF Classify(r) = "matching_immutable" /\ ExactMetadata(r)
          THEN Observe("tag_after_publish", PublishedByTag) ELSE Fail
    /\ Reads

ReadTagAfterPublish ==
    /\ pc = "tag_after_publish"
    /\ IF TagAllows(obs.release) THEN Goto("report_new") ELSE Fail
    /\ Reads

(* write_report may fail after all is done.                                *)
Report ==
    /\ pc \in {"report_known", "report_new"}
    /\ \/ /\ End(IF pc = "report_known" THEN "already" ELSE "published")
          /\ UNCHANGED bounds
       \/ Fault /\ Fail
    /\ UNCHANGED <<remote, late, admission>> /\ Steady

(* The job is cancelled, or its runner lost.                               *)
Killed ==
    /\ pc # "idle"
    /\ Fault
    /\ Fail
    /\ UNCHANGED <<remote, late, admission>> /\ Steady


-----------------------------------------------------------------------------
(* A request the client gave up on reaches the repository after all.       *)
Land ==
    /\ \E q \in late :
          /\ Accepts(q)
          /\ Apply(q)
          /\ late' = late \ {q}
    /\ UNCHANGED <<pc, attempt, direct, admission, obs, round, dels, ups,
                   result, touched, bounds>>

(* Other people: they make a tag, move the branch, switch the feature off, *)
(* write a release of their own, edit, take over, publish or delete a      *)
(* draft.  Nobody changes an immutable release or its tag.                 *)
Act ==
    /\ outside < setting.outside
    /\ outside' = outside + 1
    /\ UNCHANGED <<late, pc, attempt, direct, admission, obs, round, dels, ups,
                   result, setting, faults>>
Edit(id, r) ==
    /\ releases' = [releases EXCEPT ![id] = r]
    /\ touched' = touched \cup {id}
    /\ UNCHANGED <<made, tag, branch, feature>>

MoveBranch ==
    /\ Act
    /\ branch' = "moved"
    /\ UNCHANGED <<releases, made, tag, feature, touched>>
MakeTag ==
    /\ Act
    /\ tag = "none"
    /\ tag' \in {"candidate", "other"}
    /\ UNCHANGED <<releases, made, branch, feature, touched>>
SwitchOff ==
    /\ Act
    /\ feature' = FALSE
    /\ UNCHANGED <<releases, made, tag, branch, touched>>
WriteRelease ==
    /\ Act
    /\ made < MaxReleases
    /\ made' = made + 1
    /\ releases' = [releases EXCEPT ![made'] = Drafted("human")]
    /\ UNCHANGED <<tag, branch, feature, touched>>
EditDraft ==
    /\ Act
    /\ \E id \in Shown :
          LET r == releases[id]
          IN /\ r.state = "draft"
             /\ \/ \E n \in Names, c \in {Absent, Foreign} :
                       Edit(id, [r EXCEPT !.assets[n] = c])
                \/ Edit(id, [r EXCEPT !.owner = "human"])
                \/ Edit(id, NoRelease)
PublishDraft ==
    /\ Act
    /\ PublishedIds = {}
    /\ \E id \in Shown :
          /\ releases' = [releases EXCEPT ![id].state = "published",
                                          ![id].immutable = feature]
          /\ touched' = touched \cup {id}
    /\ tag' = IF tag = "none" THEN "candidate" ELSE tag
    /\ UNCHANGED <<made, branch, feature>>

Reading ==
    \/ ReadFeature \/ List \/ Decide
    \/ ReadBranch("branch", "list")
    \/ ReadBranch("branch_before_create", "tag_before_create")
    \/ ReadBranch("branch_before_publish", "tag_before_publish")
    \/ ListAfterDelete \/ ListAfterSecondDelete \/ ReadTagBeforeCreate
    \/ ListAfterCreate \/ BeginReconcile \/ EndReconcile
    \/ ListAfterReconcileFailed \/ ListAfterReconcile
    \/ ReadTagBeforePublish \/ GetAfterPublish \/ GetPublished
    \/ ReadTagAfterPublish
Writing ==
    DeleteStale \/ DeleteAgain \/ Create \/ DeleteAsset \/ Upload \/ Publish
Publisher ==
    \/ Start \/ CheckBranch \/ CheckTag \/ CheckUnanswered \/ ReadUnanswered
    \/ Reading \/ Writing \/ Report
People ==
    MoveBranch \/ MakeTag \/ SwitchOff \/ WriteRelease \/ EditDraft \/ PublishDraft

Next == Publisher \/ Killed \/ Land \/ People

Spec == Init /\ [][Next]_vars

(* The publisher goes on while it runs, and is run again.                  *)
FairSpec == Spec /\ WF_vars(Publisher)


-----------------------------------------------------------------------------
(* Type invariant: the remote store, the publisher and the bounds.         *)
TypeOK ==
    /\ releases \in [Ids -> [state : {"none", "draft", "published"},
                             owner : {"plan", "stale", "human"},
                             notes : BOOLEAN, immutable : BOOLEAN,
                             assets : [Names -> Contents(attempt)]]]
    /\ made \in 0..MaxReleases
    /\ tag \in {"none", "candidate", "other"}
    /\ branch \in {"candidate", "moved"}
    /\ feature \in BOOLEAN
    /\ attempt \in 0..setting.attempts
    /\ obs.id \in 0..MaxReleases
    /\ round \in {1, 2}
    /\ dels \subseteq Names /\ ups \subseteq Planned
    /\ faults \in 0..setting.faults /\ outside \in 0..setting.outside
    /\ touched \subseteq Ids

Succeeded == result \in {"published", "already"}
Whole(id, a) ==
    releases[id] = [state |-> "published", owner |-> "plan", notes |-> TRUE,
                    immutable |-> TRUE, assets |-> Local(a)]

(* An attempt that answers Ok leaves the release immutable, with exactly   *)
(* the files of that attempt and the notes of the plan, and the tag at the *)
(* candidate, whatever was lost, late or changed by others on the way.     *)
SuccessIsExact ==
    Succeeded => tag = "candidate" /\ \E id \in Ids : Whole(id, attempt)

(* The publisher never shows the public half a release: what is published  *)
(* and was not edited by others has the whole set of files of one attempt. *)
(* Excluded are the two ways it does happen when requests are applied      *)
(* late, because no check of a draft looks at its assets: a publish lands  *)
(* while the next attempt replaces the attestations, and a create lands    *)
(* beside the filled draft, which a person then removes.                   *)
PublishedIsWhole ==
    ~setting.late \/ (setting.remade = {} /\ touched = {}) =>
        \A id \in PublishedIds \ touched :
            releases[id].owner = "plan" =>
                \E a \in 1..attempt : releases[id].assets = Local(a)

(* Nothing is littered: unless a create was applied late or other people   *)
(* wrote a release, the tag never has two of them, after any number of     *)
(* lost answers and reruns.                                                *)
OneRelease == ~setting.late /\ outside = 0 => Cardinality(Shown) <= 1

(* The publisher and its late requests never change the draft of a person, *)
(* and never rewrite or delete an immutable release (publish.rs:284-420,   *)
(* spec/release-assurance.md:185); only a release that others edited after *)
(* the publisher looked at it can be hit.                                  *)
KeepsHumanAndImmutable ==
    [][\A id \in Shown \ touched' :
          /\ releases[id].owner = "human" => releases'[id] = releases[id]
          /\ releases[id].immutable => releases'[id] = releases[id]]_vars

(* Run often enough after lost answers and kills, with nobody interfering, *)
(* the publisher gets the release published as planned, and, where the     *)
(* files are the same again and the admission check is not repeated, says  *)
(* so.                                                                     *)
Calm ==
    /\ setting.outside = 0 /\ ~setting.late
    /\ setting.attempts > setting.faults
    /\ \A id \in Shown : releases[id].owner # "human"
Converges ==
    Calm => /\ <>(\E id \in Ids : \E a \in 1..attempt : Whole(id, a))
            /\ direct /\ setting.remade = {} => <>Succeeded

(* What a tag shows the public is one release, and a whole one             *)
(* (publish.rs:284-420).                                                   *)
ReleasesSound == TypeOK /\ PublishedIsWhole /\ OneRelease
=============================================================================
