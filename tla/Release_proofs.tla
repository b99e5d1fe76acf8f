--------------------------- MODULE Release_proofs ---------------------------
(***************************************************************************)
(* Proofs about ReleasePublisher, and at the end AttestationStaging, for   *)
(* any plan, files and bounds.  Of the publisher first, for any number     *)
(* of attempts, lost requests, late requests and things other people do.   *)
(*                                                                         *)
(* PublisherInv says what the publisher knows.  Its base holds wherever    *)
(* the publisher is: the releases it means to delete, itself or by a late  *)
(* request, and those it means to publish are apart, and as long as nobody *)
(* edits them the first are stale drafts and the second its own; a release *)
(* seen published, immutable and with its notes stays as it was seen.  The *)
(* rest is about its place: which releases there can be when it is about   *)
(* to create one, how far the assets are while it reconciles them, and     *)
(* that they are all there when it asks for the release to be published.   *)
(*                                                                         *)
(* A write is applied at once, later or never; the lemmas up to            *)
(* PeopleChange are about what it then does to each release, the later     *)
(* ones about the places.                                                  *)
(***************************************************************************)
EXTENDS ReleasePublisher, AttestationStaging, FiniteSetTheorems, SequenceTheorems, TLAPS

(* What the variables hold, for any plan and any bounds.                   *)
Steps == ReadPcs \cup
    {"idle", "check_branch", "check_tag", "delete", "delete_again", "create",
     "begin_reconcile", "reconcile", "publish", "report_known", "report_new"}
States == {"none", "draft", "published"}
Owners == {"plan", "stale", "human"}
Releases ==
    [state : States, owner : Owners, notes : BOOLEAN, immutable : BOOLEAN,
     assets : [Names -> Contents(attempt)]]
WorkOps == {"delete_asset", "upload", "publish"}
Ops == {"create", "delete_release"} \cup WorkOps

PublisherTyped ==
    /\ setting \in Settings
    /\ pc \in Steps
    /\ attempt \in 0..setting.attempts /\ (pc # "idle" \/ late # {} => attempt # 0)
    /\ obs.id \in 0..MaxReleases /\ obs.release \in Releases
    /\ obs.id = 0 => obs = Nothing
    /\ round \in {1, 2} /\ dels \subseteq Names /\ ups \subseteq Planned
    /\ result \in {"none", "failed", "refused", "published", "already"}
    /\ faults \in 0..setting.faults /\ outside \in 0..setting.outside

RemoteTyped ==
    /\ releases \in [Ids -> Releases]
    /\ made \in 0..MaxReleases
    /\ tag \in {"none", "candidate", "other"} /\ branch \in {"candidate", "moved"}
    /\ feature \in BOOLEAN /\ touched \subseteq 1..made
    /\ \A id \in Ids : id > made => releases[id] = NoRelease
    /\ \A id \in Ids : releases[id].immutable => releases[id].state = "published"
    /\ \A id \in PublishedIds \ touched : releases[id].owner = "plan" => releases[id].notes

(* A request is of one of five kinds, and names what its kind requires.    *)
Formed(q) ==
    /\ q = Request(q.op, q.id, q.name, q.content)
    /\ q.op \in Ops
    /\ q.op # "create" => q.id \in Ids
    /\ q.op \in {"delete_asset", "upload"} => q.name \in Names
    /\ q.op = "upload" => q.content \in Contents(attempt)

LateTyped == (\A q \in late : Formed(q)) /\ (late # {} => setting.late)

(* Releases the publisher means to delete, and those it means to publish:  *)
(* as it last saw them, or by a request that may still be applied.         *)
StaleSeen == obs.release.state = "draft" /\ obs.release.owner = "stale"
PlanSeen == obs.release.owner = "plan"
Doomed ==
    {id \in Ids : \/ \E q \in late : q.op = "delete_release" /\ q.id = id
                  \/ StaleSeen /\ obs.id = id}
Chosen ==
    {id \in Ids : \/ \E q \in late : q.op \in WorkOps /\ q.id = id
                  \/ PlanSeen /\ obs.id = id}

(* As long as nobody else has edited it, a release that is to be deleted   *)
(* is a stale draft, and one that is to be published belongs to the plan;  *)
(* and none is ever both, whoever edits it.                                *)
DoomedIsStale ==
    \A id \in Doomed \cap Shown :
        /\ releases[id].owner # "plan"
        /\ id \notin touched => releases[id].state = "draft" /\ releases[id].owner = "stale"
ChosenIsPlanned ==
    \A id \in Chosen :
        /\ id \in Shown => releases[id].owner # "stale"
        /\ id \notin touched => id \in Shown /\ releases[id].owner = "plan"
Aimed ==
    /\ DoomedIsStale /\ ChosenIsPlanned
    /\ Doomed \cap Chosen = {} /\ Doomed \subseteq 1..made

(* A release that is public, immutable, of the plan and with its notes: it *)
(* stays as it is, so what the publisher has seen of it is still true.     *)
Frozen(r) == r.state = "published" /\ r.immutable /\ r.owner = "plan" /\ r.notes
Verified == Frozen(obs.release) /\ obs.release.assets = Local(attempt)
Reported ==
    /\ pc \in {"report_known", "tag_after_publish", "report_new"} => Verified
    /\ pc \in {"report_known", "report_new"} => tag = "candidate"
    /\ Succeeded => pc = "idle" /\ SuccessIsExact

(* Where the publisher knows of no release of the plan, and where it works *)
(* on one.                                                                 *)
Deleting == {"delete", "list_after_delete", "delete_again"}
Creating == {"branch_before_create", "tag_before_create", "create"}
Finished == {"list_after_reconcile", "branch_before_publish", "tag_before_publish", "publish"}
Working == Finished \cup {"begin_reconcile", "reconcile", "list_after_reconcile_failed"}
Seeing == pc \in Deleting \/ (pc = "tag" /\ StaleSeen)
DraftSeen == pc \in Working \/ (pc = "tag" /\ PlanSeen /\ obs.release.state = "draft")

SeenWell ==
    /\ pc \in Deleting => StaleSeen
    /\ pc \in Working => PlanSeen
    /\ pc = "tag" => obs.id \in Ids

(* Without late requests: the publisher's own releases are few.            *)
Ours == {id \in Shown \ touched : releases[id].owner = "plan"}
OwnFew ==
    ~setting.late =>
        /\ Seeing \/ pc \in Creating \/ pc = "list_after_second_delete" => Ours = {}
        /\ DraftSeen => Ours \subseteq {obs.id}
        /\ DraftSeen /\ obs.id \notin touched => releases[obs.id].state = "draft"
        /\ outside = 0 =>
             /\ Seeing => Shown \subseteq {obs.id}
             /\ pc \in Creating => Shown = {}
FewShown == ~setting.late /\ outside = 0 => \A i, j \in Shown : i = j

(* How far the assets are: right ones stay, and the passes of the          *)
(* reconciliation leave only right ones.                                   *)
Guarded == ~setting.late \/ (setting.remade = {} /\ touched = {})
Right(id, n) == releases[id].assets[n] = Local(attempt)[n]
LateRight ==
    \A q \in late :
        /\ q.op = "delete_asset" => q.content # Absent /\ q.content # Local(attempt)[q.name]
        /\ q.op = "upload" => q.content = Local(attempt)[q.name]
        /\ q.op = "publish" => \A n \in Names : Right(q.id, n)
Reconciled ==
    DraftSeen /\ obs.id \notin touched =>
        /\ pc \in {"tag", "begin_reconcile"} =>
             \A n \in Names : obs.release.assets[n] = Local(attempt)[n] => Right(obs.id, n)
        /\ pc = "reconcile" => \A n \in Names \ (dels \cup ups) : Right(obs.id, n)
        /\ pc \in Finished => \A n \in Names : Right(obs.id, n)
Passes ==
    pc = "reconcile" =>
        /\ \A n \in dels : obs.release.assets[n] \notin {Absent, Local(attempt)[n]}
        /\ dels = {} \/ dels \cap Planned \subseteq ups

(* What does not depend on where the publisher is, and what does.          *)
Base ==
    /\ RemoteTyped /\ LateTyped /\ Aimed
    /\ PublisherTyped
    /\ Frozen(obs.release) => obs.id \in Ids /\ releases[obs.id] = obs.release
    /\ Guarded => LateRight
    /\ PublishedIsWhole
Placed == Reported /\ SeenWell /\ OwnFew /\ Passes /\ (Guarded => Reconciled)

PublisherInv == Base /\ FewShown /\ Placed
----------------------------------------------------------------------------
(* Facts about the values of the model.                                    *)

(* What a step of the repository, of the publisher's or by others, owes    *)
(* each of the releases.                                                   *)
StaleOnly(id) ==
    id \in Shown =>
        /\ releases[id].owner # "plan"
        /\ id \notin touched => releases[id].state = "draft" /\ releases[id].owner = "stale"
PlanOnly(id) ==
    /\ id \in Shown => releases[id].owner # "stale"
    /\ id \notin touched => id \in Shown /\ releases[id].owner = "plan"
WholeAt(id) ==
    id \in PublishedIds \ touched /\ releases[id].owner = "plan" =>
        \E a \in 1..attempt : releases[id].assets = Local(a)
ShapedAt(id) ==
    /\ releases[id] \in Releases
    /\ id > made => releases[id] = NoRelease
    /\ releases[id].immutable => releases[id].state = "published"
    /\ id \in PublishedIds \ touched /\ releases[id].owner = "plan" => releases[id].notes

PermittedAt(id) ==
    /\ ShapedAt(id)'
    /\ Frozen(releases[id]) => releases'[id] = releases[id]
    /\ id \in Doomed => StaleOnly(id)'
    /\ id \in Chosen => PlanOnly(id)'
    /\ Guarded' => WholeAt(id)'
    /\ Guarded' /\ id \in Shown' \ touched' => \A n \in Names : Right(id, n) => Right(id, n)'
    /\ id \in Shown \ touched' =>
         /\ releases[id].owner = "human" => releases'[id] = releases[id]
         /\ releases[id].immutable => releases'[id] = releases[id]

Permitted ==
    /\ UNCHANGED <<setting, attempt>>
    /\ releases' = [id \in Ids |-> releases'[id]]
    /\ made' \in 0..MaxReleases /\ made <= made'
    /\ tag' \in {"none", "candidate", "other"} /\ (tag # "none" => tag' = tag)
    /\ branch' \in {"candidate", "moved"} /\ feature' \in BOOLEAN
    /\ touched \subseteq touched' /\ touched' \subseteq 1..made'
    /\ \A id \in Ids : PermittedAt(id)

(* The limits are numbers, and the first identifier is one.                *)
LEMMA LimitsTyped ==
  ASSUME setting \in Settings
  PROVE  /\ setting.attempts \in Nat /\ setting.faults \in Nat /\ setting.outside \in Nat
         /\ setting.late \in BOOLEAN /\ setting.remade \subseteq Planned
         /\ MaxReleases \in Nat /\ 1 \in Ids
  BY SettingsAssumption DEF Ids

(* The files of an attempt.                                                *)
LEMMA LocalTyped ==
  ASSUME setting \in Settings, NEW a \in Nat
  PROVE  /\ Local(a) \in [Names -> Contents(a)]
         /\ \A n \in Names \ Planned : Local(a)[n] = Absent
         /\ \A n \in Planned : n \in Names /\ Local(a)[n] # Absent
         /\ NoAssets \in [Names -> Contents(a)]
         /\ Absent \in Contents(a) /\ Foreign \in Contents(a) /\ Original \in Contents(a)
<1>1. Original \in Nat /\ Original + a \in Nat /\ Original + a >= 2
  BY DEF Original
<1>2. Absent \in Contents(a) /\ Foreign \in Contents(a) /\ Original \in Contents(a)
      /\ Original + a \in Contents(a) /\ Original # Absent /\ Original + a # Absent
  BY <1>1 DEF Contents, Absent, Foreign, Original
<1> QED
  BY <1>2 DEF Local, NoAssets, Names

(* Where nothing is made anew, all attempts have the same files.           *)
LEMMA LocalSame ==
  ASSUME NEW a, NEW b, setting.remade = {}
  PROVE  Local(a) = Local(b)
  BY DEF Local

(* A later attempt's files are numbered higher.                            *)
LEMMA ContentsGrow ==
  ASSUME NEW a \in Nat
  PROVE  Contents(a) \subseteq Contents(a + 1)
  BY DEF Contents, Original

(* The releases the model starts and ends with.                            *)
LEMMA ReleasesTyped ==
  ASSUME setting \in Settings, attempt \in Nat
  PROVE  /\ NoRelease \in Releases /\ NoRelease.state = "none" /\ NoRelease.owner = "human"
         /\ ~NoRelease.immutable /\ ~NoRelease.notes /\ NoRelease.assets = NoAssets
         /\ \A o \in {"plan", "human"} :
              /\ Drafted(o) \in Releases /\ Drafted(o).state = "draft" /\ Drafted(o).owner = o
              /\ ~Drafted(o).immutable /\ ~Drafted(o).notes /\ Drafted(o).assets = NoAssets
         /\ Nothing.id = 0 /\ Nothing.release = NoRelease
<1>1. NoAssets \in [Names -> Contents(attempt)]
  BY LocalTyped
<1> QED
  BY <1>1 DEF NoRelease, Drafted, Release, Releases, Nothing, States, Owners

(* The base, for one release.                                              *)
LEMMA Each ==
  ASSUME Base, NEW id \in Ids
  PROVE  /\ releases[id] \in Releases /\ ShapedAt(id)
         /\ id \in Doomed => StaleOnly(id)
         /\ id \in Chosen => PlanOnly(id)
         /\ id \in Doomed => id \notin Chosen
         /\ Guarded => WholeAt(id)
  BY DEF Base, RemoteTyped, ShapedAt, Aimed, DoomedIsStale, ChosenIsPlanned, StaleOnly,
         PlanOnly, PublishedIsWhole, Guarded, WholeAt, PublishedIds, Shown

(* A release that a step leaves alone.                                     *)
LEMMA Unaltered ==
  ASSUME Base, UNCHANGED <<setting, attempt>>, touched \subseteq touched', made <= made',
         made \in Nat, made' \in Nat,
         NEW id \in Ids, releases'[id] = releases[id]
  PROVE  PermittedAt(id)
<1>1. /\ ShapedAt(id) /\ (Guarded => WholeAt(id))
      /\ id \in Doomed => StaleOnly(id)
      /\ id \in Chosen => PlanOnly(id)
  BY Each
<1>2. /\ Guarded' => Guarded
      /\ id \in Shown' <=> id \in Shown
      /\ id \in PublishedIds' <=> id \in PublishedIds
      /\ id \notin touched' => id \notin touched
  BY DEF Guarded, Shown, PublishedIds, Ids
<1>3. ShapedAt(id)'
  <2>1. Releases' = Releases
    BY DEF Releases, Contents
  <2>2. id > made' => id > made
    BY LimitsTyped DEF Ids, Base, PublisherTyped
  <2>3. releases'[id] \in Releases'
    BY <1>1, <2>1 DEF ShapedAt
  <2>4. id > made' => releases'[id] = NoRelease
    BY <1>1, <2>2 DEF ShapedAt
  <2> QED
    BY <1>1, <1>2, <2>3, <2>4 DEF ShapedAt
<1>4. id \in Doomed => StaleOnly(id)'
  BY <1>1, <1>2 DEF StaleOnly
<1>5. id \in Chosen => PlanOnly(id)'
  BY <1>1, <1>2 DEF PlanOnly
<1>6. Guarded' => WholeAt(id)'
  <2>1. \A a \in 1..attempt : Local(a)' = Local(a)
    BY DEF Local
  <2> QED
    BY <1>1, <1>2, <2>1 DEF WholeAt
<1>7. \A n \in Names : Right(id, n) => Right(id, n)'
  BY DEF Right, Local
<1> QED
  BY <1>3, <1>4, <1>5, <1>6, <1>7 DEF PermittedAt
----------------------------------------------------------------------------
(* What the requests do to the repository.                                 *)

(* A request that may be sent: it is for a release the publisher means to  *)
(* delete, or works on; and what it writes is right, as far as nobody else *)
(* has interfered.                                                         *)
Meant(q) ==
    /\ Formed(q) /\ attempt # 0
    /\ q.op = "delete_release" => q.id \in Doomed
    /\ q.op \in WorkOps => q.id \in Chosen
    /\ Guarded =>
         /\ q.op = "delete_asset" => q.content # Absent /\ q.content # Local(attempt)[q.name]
         /\ q.op = "upload" => q.content = Local(attempt)[q.name]
         /\ q.op = "publish" /\ q.id \notin touched => \A n \in Names : Right(q.id, n)
         /\ ~setting.late /\ q.op \in WorkOps /\ q.id \notin touched =>
              releases[q.id].state = "draft"

With(r, n, content) == [r EXCEPT !.assets = [r.assets EXCEPT ![n] = content]]
Aim(q) == IF q.op = "create" THEN made + 1 ELSE q.id

(* What a request that is accepted writes.                                 *)
LEMMA Written ==
  ASSUME Base, NEW q, Formed(q), Accepts(q), Apply(q)
  PROVE  /\ releases' = [id \in Ids |-> releases'[id]]
         /\ Aim(q) \in Ids /\ \A id \in Ids \ {Aim(q)} : releases'[id] = releases[id]
         /\ made \in Nat /\ made' = (IF q.op = "create" THEN made + 1 ELSE made)
         /\ made' \in 0..MaxReleases
         /\ q.op = "create" => /\ releases'[Aim(q)] = Drafted("plan")
                               /\ releases[Aim(q)] = NoRelease
         /\ q.op = "delete_release" => releases'[Aim(q)] = NoRelease /\ Aim(q) \in Shown
         /\ q.op = "delete_asset" =>
              /\ releases'[Aim(q)] = With(releases[Aim(q)], q.name, Absent)
              /\ Mutable(releases[Aim(q)]) /\ releases[Aim(q)].assets[q.name] = q.content
         /\ q.op = "upload" =>
              /\ releases'[Aim(q)] = With(releases[Aim(q)], q.name, q.content)
              /\ Mutable(releases[Aim(q)]) /\ releases[Aim(q)].assets[q.name] = Absent
         /\ q.op = "publish" =>
              releases'[Aim(q)] = Published(releases[Aim(q)]) /\ Aim(q) \in Shown
         /\ UNCHANGED <<branch, feature>> /\ (tag # "none" => tag' = tag)
         /\ tag' \in {"none", "candidate", "other"}
<1>1. /\ setting \in Settings /\ attempt \in Nat /\ made \in 0..MaxReleases
      /\ releases \in [Ids -> Releases] /\ tag \in {"none", "candidate", "other"}
      /\ MaxReleases \in Nat
  BY LimitsTyped DEF Base, PublisherTyped, RemoteTyped
<1>2. q.op \in Ops /\ (q.op # "create" => q.id \in Ids)
      /\ (q.op \in {"delete_asset", "upload"} => q.name \in Names)
  BY DEF Formed
<1>3. /\ UNCHANGED <<branch, feature>> /\ (tag # "none" => tag' = tag)
      /\ tag' \in {"none", "candidate", "other"}
      /\ made' = (IF q.op = "create" THEN made + 1 ELSE made)
  BY <1>1 DEF Apply
<1>4. ASSUME NEW r, Aim(q) \in Ids, releases' = [releases EXCEPT ![Aim(q)] = r]
      PROVE  /\ releases' = [id \in Ids |-> releases'[id]] /\ releases'[Aim(q)] = r
             /\ \A id \in Ids \ {Aim(q)} : releases'[id] = releases[id]
  BY <1>1, <1>4
<1>5. made \in Nat /\ (q.op # "create" => made' \in 0..MaxReleases)
  BY <1>1, <1>3
<1>6. CASE q.op = "create"
  <2>1. made < MaxReleases /\ releases' = [releases EXCEPT ![made + 1] = Drafted("plan")]
    BY <1>6 DEF Accepts, Apply
  <2>2. Aim(q) = made + 1 /\ made' = made + 1
    BY <1>3, <1>6 DEF Aim
  <2>3. Aim(q) \in Ids /\ made' \in 0..MaxReleases /\ Aim(q) > made
    BY <1>1, <2>1, <2>2 DEF Ids
  <2>4. releases[Aim(q)] = NoRelease
    BY <2>3 DEF Base, RemoteTyped
  <2> QED
    BY <1>3, <1>4, <1>5, <1>6, <2>1, <2>2, <2>3, <2>4
<1>7. CASE q.op = "delete_release"
  <2>1. q.id \in Shown /\ releases' = [releases EXCEPT ![q.id] = NoRelease]
    BY <1>7 DEF Accepts, Apply
  <2>2. Aim(q) = q.id /\ Aim(q) \in Ids
    BY <1>2, <1>7 DEF Aim
  <2> QED
    BY <1>3, <1>4, <1>5, <1>7, <2>1, <2>2
<1>8. CASE q.op = "delete_asset"
  <2>1. /\ Mutable(releases[q.id]) /\ releases[q.id].assets[q.name] = q.content
        /\ releases' = [releases EXCEPT ![q.id].assets[q.name] = Absent]
    BY <1>8 DEF Accepts, Apply
  <2>2. Aim(q) = q.id /\ Aim(q) \in Ids
    BY <1>2, <1>8 DEF Aim
  <2>3. releases' = [releases EXCEPT ![q.id] = With(releases[q.id], q.name, Absent)]
    BY <2>1 DEF With
  <2> QED
    BY <1>3, <1>4, <1>5, <1>8, <2>1, <2>2, <2>3
<1>9. CASE q.op = "upload"
  <2>1. /\ Mutable(releases[q.id]) /\ releases[q.id].assets[q.name] = Absent
        /\ releases' = [releases EXCEPT ![q.id].assets[q.name] = q.content]
    BY <1>9 DEF Accepts, Apply
  <2>2. Aim(q) = q.id /\ Aim(q) \in Ids
    BY <1>2, <1>9 DEF Aim
  <2>3. releases' = [releases EXCEPT ![q.id] = With(releases[q.id], q.name, q.content)]
    BY <2>1 DEF With
  <2> QED
    BY <1>3, <1>4, <1>5, <1>9, <2>1, <2>2, <2>3
<1>10. CASE q.op = "publish"
  <2>1. q.id \in Shown /\ releases' = [releases EXCEPT ![q.id] = Published(releases[q.id])]
    BY <1>10 DEF Accepts, Apply
  <2>2. Aim(q) = q.id /\ Aim(q) \in Ids
    BY <1>2, <1>10 DEF Aim
  <2> QED
    BY <1>3, <1>4, <1>5, <1>10, <2>1, <2>2
<1> QED
  BY <1>2, <1>6, <1>7, <1>8, <1>9, <1>10 DEF Ops, WorkOps

(* A release of which one asset changes.                                   *)
LEMMA WithTyped ==
  ASSUME NEW r \in Releases, NEW n \in Names, NEW content \in Contents(attempt)
  PROVE  /\ With(r, n, content) \in Releases
         /\ With(r, n, content).state = r.state /\ With(r, n, content).owner = r.owner
         /\ With(r, n, content).notes = r.notes /\ With(r, n, content).immutable = r.immutable
         /\ With(r, n, content).assets[n] = content
         /\ \A m \in Names \ {n} : With(r, n, content).assets[m] = r.assets[m]
  BY DEF With, Releases

(* A release that is published, or published again.                        *)
LEMMA PublishedTyped ==
  ASSUME NEW r \in Releases, feature \in BOOLEAN
  PROVE  /\ Published(r) \in Releases
         /\ Published(r).state = "published" /\ Published(r).owner = "plan"
         /\ Published(r).notes /\ Published(r).assets = r.assets
         /\ Published(r).immutable = (IF r.state = "published" THEN r.immutable ELSE feature)
         /\ r.state = "published" /\ r.owner = "plan" /\ r.notes => Published(r) = r
  BY DEF Published, Releases, States, Owners
(* Whom a release that is chosen or doomed is.                             *)
LEMMA Known ==
  ASSUME Base, NEW id \in Ids, id \in Doomed \/ id \in Chosen
  PROVE  id \in 1..made
<1>1. made \in 0..MaxReleases /\ MaxReleases \in Nat
  BY LimitsTyped DEF Base, PublisherTyped, RemoteTyped
<1>2. CASE id \in Doomed \/ id \in touched
  BY <1>2 DEF Base, Aimed, RemoteTyped
<1>3. CASE id \in Chosen /\ id \notin touched
  <2>1. releases[id].state # "none"
    BY <1>3, Each DEF PlanOnly, Shown
  <2>2. NoRelease.state = "none"
    BY DEF NoRelease, Release
  <2>3. ~(id > made)
    BY <2>1, <2>2 DEF Base, RemoteTyped
  <2> QED
    BY <1>1, <2>3 DEF Ids
<1> QED
  BY <1>2, <1>3

(* A draft is created.                                                     *)
LEMMA CreateChanges ==
  ASSUME Base, UNCHANGED <<setting, attempt, touched>>,
         NEW q, Meant(q), Accepts(q), Apply(q), q.op = "create",
         NEW i, i = Aim(q)
  PROVE  PermittedAt(i)
<1>1. /\ i \in Ids /\ i = made + 1 /\ made \in Nat /\ made' = made + 1
      /\ releases'[i] = Drafted("plan") /\ releases[i] = NoRelease
  BY Written DEF Meant, Aim
<1>2. /\ NoRelease.state = "none" /\ NoRelease.assets = NoAssets
      /\ Drafted("plan") \in Releases /\ Drafted("plan").state = "draft"
      /\ ~Drafted("plan").immutable /\ Drafted("plan").assets = NoAssets
  BY ReleasesTyped, LimitsTyped DEF Base, PublisherTyped
<1>3. i \notin Doomed /\ i \notin Chosen
  BY <1>1, Known
<1>4. ShapedAt(i)'
  <2>1. Releases' = Releases
    BY DEF Releases, Contents
  <2>2. ~(i > made')
    BY <1>1
  <2> QED
    BY <1>1, <1>2, <2>1, <2>2 DEF ShapedAt, PublishedIds
<1>5. ~Frozen(releases[i]) /\ i \notin Shown
  BY <1>1, <1>2 DEF Frozen, Shown
<1>6. WholeAt(i)'
  BY <1>1, <1>2 DEF WholeAt, PublishedIds
<1>7. \A n \in Names : Right(i, n) => Right(i, n)'
  BY <1>1, <1>2 DEF Right, Local
<1> QED
  BY <1>3, <1>4, <1>5, <1>6, <1>7 DEF PermittedAt

(* A stale draft is deleted.                                               *)
LEMMA DeleteChanges ==
  ASSUME Base, UNCHANGED <<setting, attempt, touched>>,
         NEW q, Meant(q), Accepts(q), Apply(q), q.op = "delete_release",
         NEW i, i = Aim(q)
  PROVE  PermittedAt(i)
<1>1. i \in Ids /\ i \in Shown /\ releases'[i] = NoRelease /\ i \in Doomed
  BY Written DEF Meant, Aim
<1>2. /\ NoRelease.state = "none" /\ NoRelease \in Releases /\ ~NoRelease.immutable
  BY ReleasesTyped, LimitsTyped DEF Base, PublisherTyped
<1>3. StaleOnly(i) /\ ShapedAt(i) /\ i \notin Chosen
  BY <1>1, Each
<1>4. ShapedAt(i)'
  <2>1. Releases' = Releases
    BY DEF Releases, Contents
  <2> QED
    BY <1>1, <1>2, <2>1 DEF ShapedAt, PublishedIds
<1>5. ~Frozen(releases[i])
  BY <1>1, <1>3 DEF Frozen, StaleOnly
<1>6. i \notin Shown'
  BY <1>1, <1>2 DEF Shown
<1>7. StaleOnly(i)' /\ WholeAt(i)'
  BY <1>6 DEF StaleOnly, WholeAt, PublishedIds
<1>8. i \in Shown \ touched' => releases[i].owner # "human" /\ ~releases[i].immutable
  BY <1>1, <1>3 DEF StaleOnly, ShapedAt
<1> QED
  BY <1>3, <1>4, <1>5, <1>6, <1>7, <1>8 DEF PermittedAt

(* An asset that is wrong goes, or one that is missing comes.              *)
LEMMA AssetChanges ==
  ASSUME Base, UNCHANGED <<setting, attempt, touched>>,
         NEW q, Meant(q), Accepts(q), Apply(q), q.op \in {"delete_asset", "upload"},
         NEW i, i = Aim(q)
  PROVE  PermittedAt(i)
<1> DEFINE r == releases[i]
           n == q.name
           content == IF q.op = "upload" THEN q.content ELSE Absent
<1>1. /\ i \in Ids /\ releases'[i] = With(r, n, content) /\ Mutable(r) /\ n \in Names
      /\ q.op = "delete_asset" => r.assets[n] = q.content
      /\ q.op = "upload" => r.assets[n] = Absent
      /\ i = q.id /\ i \in Chosen /\ made' = made
  BY Written DEF Meant, Formed, WorkOps, Aim
<1>2. /\ setting \in Settings /\ attempt \in Nat /\ content \in Contents(attempt)
  BY LimitsTyped, LocalTyped DEF Base, PublisherTyped, Meant, Formed
<1>3. PlanOnly(i) /\ ShapedAt(i) /\ i \notin Doomed /\ r \in Releases
      /\ (Guarded => WholeAt(i)) /\ (Guarded' => Guarded)
  BY <1>1, Each DEF Guarded
<1> DEFINE s == With(r, n, content)
<1>4. /\ s \in Releases /\ s.state = r.state /\ s.owner = r.owner
      /\ s.notes = r.notes /\ s.immutable = r.immutable /\ s.assets[n] = content
      /\ \A m \in Names \ {n} : s.assets[m] = r.assets[m]
  BY <1>1, <1>2, <1>3, WithTyped
<1>5. releases'[i] = s
  BY <1>1
<1> HIDE DEF s
<1>6. r.state # "none" /\ ~r.immutable
  BY <1>1, <1>3 DEF Mutable, ShapedAt
<1>7. /\ (i \in Shown)' <=> i \in Shown
      /\ (i \in PublishedIds)' <=> i \in PublishedIds
  BY <1>1, <1>4, <1>5 DEF Shown, PublishedIds, Ids
<1>8. ShapedAt(i)'
  <2>1. Releases' = Releases
    BY DEF Releases, Contents
  <2>2. ~(i > made)
    BY <1>3, <1>6, ReleasesTyped, <1>2 DEF ShapedAt
  <2> QED
    BY <1>1, <1>3, <1>4, <1>5, <1>7, <2>1, <2>2 DEF ShapedAt
<1>9. ~Frozen(r)
  BY <1>6 DEF Frozen
<1>10. PlanOnly(i)'
  BY <1>3, <1>4, <1>5, <1>7 DEF PlanOnly
<1>11. ASSUME Guarded'
       PROVE  WholeAt(i)' /\ \A m \in Names : Right(i, m) => Right(i, m)'
  <2>1. Guarded
    BY <1>3, <1>11
  <2>2. Local(attempt)' = Local(attempt) /\ \A a \in 1..attempt : Local(a)' = Local(a)
    BY DEF Local
  <2>3. r.assets[n] = Local(attempt)[n] => content = Local(attempt)[n]
    BY <1>1, <2>1 DEF Meant
  <2>4. \A m \in Names : Right(i, m) => Right(i, m)'
    BY <1>4, <1>5, <2>2, <2>3 DEF Right
  <2>5. ASSUME i \in PublishedIds \ touched, r.owner = "plan"
        PROVE  s.assets = r.assets /\ \E a \in 1..attempt : r.assets = Local(a)
    <3>1. PICK a \in 1..attempt : r.assets = Local(a)
      BY <1>3, <2>1, <2>5 DEF WholeAt
    <3>2. setting.late
      BY <1>1, <2>1, <2>5, LimitsTyped, <1>2 DEF Meant, PublishedIds, WorkOps
    <3>3. setting.remade = {}
      BY <2>1, <3>2 DEF Guarded
    <3>4. Local(a) = Local(attempt)
      BY <3>3, LocalSame
    <3>5. s.assets[n] = r.assets[n]
      BY <1>1, <1>4, <2>1, <3>1, <3>4 DEF Meant
    <3>6. s.assets \in [Names -> Contents(attempt)] /\ r.assets \in [Names -> Contents(attempt)]
      BY <1>3, <1>4 DEF Releases
    <3>7. \A m \in Names : s.assets[m] = r.assets[m]
      BY <1>4, <3>5
    <3> QED
      BY <3>1, <3>6, <3>7
  <2>6. WholeAt(i)'
    BY <1>4, <1>5, <1>7, <2>2, <2>5 DEF WholeAt
  <2> QED
    BY <2>4, <2>6
<1>12. i \in Shown \ touched' => r.owner # "human" /\ ~r.immutable
  BY <1>3, <1>6 DEF PlanOnly
<1> QED
  BY <1>3, <1>8, <1>9, <1>10, <1>11, <1>12 DEF PermittedAt
(* A release is published.                                                 *)
LEMMA PublishChanges ==
  ASSUME Base, UNCHANGED <<setting, attempt, touched>>,
         NEW q, Meant(q), Accepts(q), Apply(q), q.op = "publish",
         NEW i, i = Aim(q)
  PROVE  PermittedAt(i)
<1> DEFINE r == releases[i]
           s == Published(r)
<1>1. /\ i \in Ids /\ releases'[i] = s /\ i \in Shown
      /\ i = q.id /\ i \in Chosen /\ made' = made
  BY Written DEF Meant, Formed, WorkOps, Aim
<1>2. /\ setting \in Settings /\ attempt \in Nat /\ attempt # 0 /\ feature \in BOOLEAN
  BY LimitsTyped DEF Base, PublisherTyped, RemoteTyped, Meant
<1>3. PlanOnly(i) /\ ShapedAt(i) /\ i \notin Doomed /\ r \in Releases
      /\ (Guarded' => Guarded)
  BY <1>1, Each DEF Guarded
<1>4. /\ s \in Releases /\ s.state = "published" /\ s.owner = "plan"
      /\ s.notes /\ s.assets = r.assets
      /\ r.state = "published" /\ r.owner = "plan" /\ r.notes => s = r
  BY <1>2, <1>3, PublishedTyped
<1>5. releases'[i] = s
  BY <1>1
<1> HIDE DEF s
<1>6. ShapedAt(i)'
  <2>1. Releases' = Releases
    BY DEF Releases, Contents
  <2>2. ~(i > made)
    BY <1>1, <1>2, <1>3, ReleasesTyped DEF ShapedAt, Shown
  <2> QED
    BY <1>1, <1>4, <1>5, <2>1, <2>2 DEF ShapedAt
<1>7. Frozen(r) => s = r
  BY <1>4 DEF Frozen
<1>8. PlanOnly(i)'
  BY <1>1, <1>4, <1>5 DEF PlanOnly, Shown, Ids
<1>9. Local(attempt)' = Local(attempt)
  BY DEF Local
<1>10. \A m \in Names : Right(i, m) => Right(i, m)'
  BY <1>4, <1>5, <1>9 DEF Right
<1>11. ASSUME Guarded' PROVE WholeAt(i)'
  <2>1. ASSUME i \notin touched PROVE r.assets = Local(attempt)
    <3>1. \A n \in Names : r.assets[n] = Local(attempt)[n]
      BY <1>1, <1>3, <1>11, <2>1 DEF Meant, Right
    <3>2. r.assets \in [Names -> Contents(attempt)] /\ Local(attempt) \in [Names -> Contents(attempt)]
      BY <1>2, <1>3, LocalTyped DEF Releases
    <3> QED
      BY <3>1, <3>2
  <2>2. attempt \in 1..attempt
    BY <1>2
  <2> QED
    BY <1>4, <1>5, <1>9, <2>1, <2>2 DEF WholeAt
<1>12. ASSUME i \in Shown \ touched'
       PROVE  r.owner # "human" /\ (r.immutable => s = r)
  <2>1. r.owner = "plan" /\ (r.immutable => r.state = "published" /\ r.notes)
    BY <1>1, <1>3, <1>12 DEF PlanOnly, ShapedAt, PublishedIds
  <2> QED
    BY <1>4, <2>1
<1> QED
  BY <1>3, <1>5, <1>6, <1>7, <1>8, <1>10, <1>11, <1>12 DEF PermittedAt

(* Whatever the publisher sends, and whenever it is applied.               *)
LEMMA Applied ==
  ASSUME Base, UNCHANGED <<setting, attempt, touched>>,
         NEW q, Meant(q), Accepts(q), Apply(q)
  PROVE  Permitted
<1>1. /\ releases' = [id \in Ids |-> releases'[id]]
      /\ Aim(q) \in Ids /\ \A id \in Ids \ {Aim(q)} : releases'[id] = releases[id]
      /\ made \in Nat /\ made' \in 0..MaxReleases /\ made <= made'
      /\ UNCHANGED <<branch, feature>> /\ (tag # "none" => tag' = tag)
      /\ tag' \in {"none", "candidate", "other"}
  BY Written DEF Meant
<1>2. touched' \subseteq 1..made' /\ branch' \in {"candidate", "moved"} /\ feature' \in BOOLEAN
  BY <1>1 DEF Base, RemoteTyped
<1>3. ASSUME NEW i \in Ids PROVE PermittedAt(i)
  <2>1. CASE i # Aim(q)
    BY <1>1, <2>1, Unaltered
  <2>2. CASE i = Aim(q)
    <3>1. q.op \in {"create", "delete_release", "delete_asset", "upload", "publish"}
      BY DEF Meant, Formed, Ops, WorkOps
    <3> QED
      BY <2>2, <3>1, CreateChanges, DeleteChanges, AssetChanges, PublishChanges
  <2> QED
    BY <2>1, <2>2
<1> QED
  BY <1>1, <1>2, <1>3 DEF Permitted

(* A step that leaves the repository alone.                                *)
LEMMA Untouched ==
  ASSUME Base, UNCHANGED <<remote, setting, attempt, touched>>
  PROVE  Permitted
<1>1. /\ made \in Nat /\ made' \in 0..MaxReleases /\ made <= made'
      /\ UNCHANGED <<releases, tag, branch, feature, made>>
      /\ releases' = [id \in Ids |-> releases'[id]]
      /\ tag' \in {"none", "candidate", "other"} /\ touched' \subseteq 1..made'
      /\ branch' \in {"candidate", "moved"} /\ feature' \in BOOLEAN
  BY LimitsTyped DEF remote, Base, RemoteTyped, PublisherTyped
<1>2. \A i \in Ids : PermittedAt(i)
  BY <1>1, Unaltered
<1> QED
  BY <1>1, <1>2 DEF Permitted

(* Other people's own releases, and those they edit.                       *)
LEMMA PeopleChange ==
  ASSUME Base, People
  PROVE  /\ Permitted /\ Ours' \subseteq Ours /\ outside' # 0
         /\ \A id \in Shown \ touched' : releases'[id] = releases[id]
<1> DEFINE PeopleKeep == /\ Ours' \subseteq Ours
                         /\ \A id \in Shown \ touched' : releases'[id] = releases[id]
<1>1. /\ UNCHANGED <<setting, attempt>> /\ outside' # 0 /\ outside \in Nat
      /\ made \in 0..MaxReleases /\ MaxReleases \in Nat /\ made \in Nat
      /\ releases = [id \in Ids |-> releases[id]]
      /\ tag \in {"none", "candidate", "other"} /\ touched \subseteq 1..made
      /\ branch \in {"candidate", "moved"} /\ feature \in BOOLEAN
      /\ setting \in Settings /\ attempt \in Nat
  BY LimitsTyped DEF People, Act, MoveBranch, MakeTag, SwitchOff, WriteRelease, EditDraft,
     PublishDraft, Base, PublisherTyped, RemoteTyped
<1>2. CASE UNCHANGED <<releases, made, touched>>
           /\ tag' \in {"none", "candidate", "other"} /\ (tag # "none" => tag' = tag)
           /\ branch' \in {"candidate", "moved"} /\ feature' \in BOOLEAN
  <2>1. \A i \in Ids : PermittedAt(i)
    BY <1>1, <1>2, Unaltered
  <2> QED
    BY <1>1, <1>2, <2>1 DEF Permitted, Ours, Shown, Ids
<1>3. CASE WriteRelease
  <2>1. /\ made' = made + 1 /\ made' \in Ids /\ releases[made'] = NoRelease
        /\ releases' = [releases EXCEPT ![made'] = Drafted("human")]
        /\ UNCHANGED <<tag, branch, feature, touched>> /\ touched' \subseteq 1..made'
    BY <1>1, <1>3 DEF WriteRelease, Ids, Base, RemoteTyped
  <2>2. /\ releases' = [id \in Ids |-> releases'[id]]
        /\ releases'[made'] = Drafted("human")
        /\ \A id \in Ids \ {made'} : releases'[id] = releases[id]
    BY <1>1, <2>1
  <2>3. /\ NoRelease.state = "none" /\ NoRelease.assets = NoAssets
        /\ Drafted("human") \in Releases /\ Drafted("human").state = "draft"
        /\ Drafted("human").owner = "human"
        /\ ~Drafted("human").immutable /\ Drafted("human").assets = NoAssets
    BY <1>1, ReleasesTyped
  <2>4. ASSUME NEW i \in Ids, i = made' PROVE PermittedAt(i)
    <3>1. i \notin Doomed /\ i \notin Chosen /\ i \notin Shown
      BY <1>1, <2>1, <2>3, <2>4, Known DEF Shown
    <3>2. ShapedAt(i)'
      <4>1. Releases' = Releases
        BY <1>1 DEF Releases, Contents
      <4>2. ~(i > made')
        BY <1>1, <2>1, <2>4
      <4> QED
        BY <2>2, <2>3, <2>4, <4>1, <4>2 DEF ShapedAt, PublishedIds
    <3>3. ~Frozen(releases[i])
      BY <2>1, <2>3, <2>4 DEF Frozen
    <3>4. WholeAt(i)'
      BY <2>2, <2>3, <2>4 DEF WholeAt, PublishedIds
    <3>5. \A n \in Names : Right(i, n) => Right(i, n)'
      BY <1>1, <2>1, <2>2, <2>3, <2>4 DEF Right, Local
    <3> QED
      BY <3>1, <3>2, <3>3, <3>4, <3>5 DEF PermittedAt
  <2>5. made <= made' /\ made' \in Nat
    BY <1>1, <2>1
  <2>6. ASSUME NEW i \in Ids PROVE PermittedAt(i)
    BY <1>1, <2>1, <2>2, <2>4, <2>5, Unaltered
  <2>7. Ours' \subseteq Ours /\ \A id \in Shown \ touched' : releases'[id] = releases[id]
    BY <2>1, <2>2, <2>3 DEF Ours, Shown, Ids
  <2> QED
    BY <1>1, <2>1, <2>2, <2>5, <2>6, <2>7 DEF Permitted, Ids
<1>4. ASSUME NEW i \in Shown, NEW r, releases[i].state = "draft",
             releases' = [releases EXCEPT ![i] = r], touched' = touched \cup {i},
             UNCHANGED <<made, branch, feature>>, tag # "none" => tag' = tag,
             tag' \in {"none", "candidate", "other"},
             r \in Releases, r.immutable => r.state = "published",
             releases[i].owner # "plan" => r.owner # "plan",
             releases[i].owner # "stale" => r.owner # "stale"
      PROVE  Permitted /\ PeopleKeep
  <2>1. i \in Ids
    BY DEF Shown
  <2>2. /\ releases' = [id \in Ids |-> releases'[id]] /\ releases'[i] = r
        /\ \A id \in Ids \ {i} : releases'[id] = releases[id]
    BY <1>1, <1>4, <2>1
  <2>3. /\ ShapedAt(i) /\ (i \in Doomed => StaleOnly(i)) /\ (i \in Chosen => PlanOnly(i))
    BY <2>1, Each
  <2>4. ~(i > made) /\ i \in 1..made
    BY <1>1, <1>4, <2>1, <2>3, ReleasesTyped DEF ShapedAt, Ids
  <2>5. PermittedAt(i)
    <3>1. ShapedAt(i)'
      <4>1. Releases' = Releases
        BY <1>1 DEF Releases, Contents
      <4> QED
        BY <1>4, <2>2, <2>4, <4>1 DEF ShapedAt
    <3>2. ~Frozen(releases[i])
      BY <1>4 DEF Frozen
    <3>3. i \in Doomed => StaleOnly(i)'
      BY <1>4, <2>2, <2>3 DEF StaleOnly
    <3>4. i \in Chosen => PlanOnly(i)'
      BY <1>4, <2>2, <2>3 DEF PlanOnly
    <3>5. WholeAt(i)'
      BY <1>4 DEF WholeAt
    <3>6. i \in touched'
      BY <1>4
    <3> QED
      BY <3>1, <3>2, <3>3, <3>4, <3>5, <3>6 DEF PermittedAt
  <2>6. ASSUME NEW j \in Ids PROVE PermittedAt(j)
    BY <1>1, <1>4, <2>2, <2>5, Unaltered
  <2>7. PeopleKeep
    BY <1>4, <2>2 DEF Ours, Shown, Ids
  <2>8. touched' \subseteq 1..made' /\ touched \subseteq touched'
    BY <1>1, <1>4, <2>4
  <2> QED
    BY <1>1, <1>4, <2>2, <2>6, <2>7, <2>8 DEF Permitted
<1>5. CASE EditDraft
  <2>1. PICK i \in Shown :
          /\ releases[i].state = "draft"
          /\ \/ \E n \in Names, c \in {Absent, Foreign} :
                  Edit(i, [releases[i] EXCEPT !.assets[n] = c])
             \/ Edit(i, [releases[i] EXCEPT !.owner = "human"])
             \/ Edit(i, NoRelease)
    BY <1>5 DEF EditDraft
  <2>2. releases[i] \in Releases /\ ShapedAt(i)
    BY Each DEF Shown
  <2>3. ASSUME NEW r, Edit(i, r), r \in Releases, r.immutable => r.state = "published",
               releases[i].owner # "plan" => r.owner # "plan",
               releases[i].owner # "stale" => r.owner # "stale"
        PROVE  Permitted /\ PeopleKeep
    BY <1>1, <1>4, <2>1, <2>3 DEF Edit
  <2>4. ASSUME NEW n \in Names, NEW c \in {Absent, Foreign},
               Edit(i, [releases[i] EXCEPT !.assets[n] = c])
        PROVE  Permitted /\ PeopleKeep
    <3>1. [releases[i] EXCEPT !.assets[n] = c] = With(releases[i], n, c)
      BY DEF With
    <3>2. c \in Contents(attempt)
      BY <1>1, LocalTyped
    <3>3. /\ With(releases[i], n, c) \in Releases
          /\ With(releases[i], n, c).owner = releases[i].owner
          /\ With(releases[i], n, c).state = releases[i].state
          /\ With(releases[i], n, c).immutable = releases[i].immutable
      BY <2>2, <3>2, WithTyped
    <3> QED
      BY <2>2, <2>3, <2>4, <3>1, <3>3 DEF ShapedAt
  <2>5. ASSUME Edit(i, [releases[i] EXCEPT !.owner = "human"])
        PROVE  Permitted /\ PeopleKeep
    <3>1. /\ [releases[i] EXCEPT !.owner = "human"] \in Releases
          /\ [releases[i] EXCEPT !.owner = "human"].owner = "human"
          /\ [releases[i] EXCEPT !.owner = "human"].state = releases[i].state
          /\ [releases[i] EXCEPT !.owner = "human"].immutable = releases[i].immutable
      BY <2>2 DEF Releases, Owners
    <3> QED
      BY <2>2, <2>3, <2>5, <3>1 DEF ShapedAt
  <2>6. ASSUME Edit(i, NoRelease) PROVE Permitted /\ PeopleKeep
    BY <1>1, <2>3, <2>6, ReleasesTyped
  <2> QED
    BY <1>1, <2>1, <2>4, <2>5, <2>6
<1>6. CASE PublishDraft
  <2>1. PICK i \in Shown :
          /\ releases' = [releases EXCEPT ![i].state = "published", ![i].immutable = feature]
          /\ touched' = touched \cup {i}
    BY <1>6 DEF PublishDraft
  <2>2. releases[i] \in Releases /\ i \in Ids
    BY Each DEF Shown
  <2>3. releases[i].state = "draft"
    BY <1>6, <2>2 DEF PublishDraft, PublishedIds, Shown, Releases, States
  <2> DEFINE r == [releases[i] EXCEPT !.state = "published", !.immutable = feature]
  <2>4. releases' = [releases EXCEPT ![i] = r]
    BY <1>1, <2>1, <2>2
  <2>5. r \in Releases /\ r.state = "published" /\ r.owner = releases[i].owner
    BY <1>1, <2>2 DEF Releases, States
  <2>6. UNCHANGED <<made, branch, feature>> /\ (tag # "none" => tag' = tag)
        /\ tag' \in {"none", "candidate", "other"}
    BY <1>1, <1>6 DEF PublishDraft
  <2> HIDE DEF r
  <2> QED
    BY <1>1, <1>4, <2>1, <2>3, <2>4, <2>5, <2>6
<1>7. CASE MoveBranch \/ MakeTag \/ SwitchOff
  BY <1>1, <1>2, <1>7 DEF MoveBranch, MakeTag, SwitchOff
<1> QED
  BY <1>3, <1>5, <1>6, <1>7, <1>1 DEF People

----------------------------------------------------------------------------
(* The base is kept by all steps.                                          *)

(* What a step may do to what the publisher saw, and to the late requests. *)
Sees == obs' = obs \/ obs' = Nothing
        \/ \E j \in Shown' : obs' = [id |-> j, release |-> releases'[j]]
Sends == \A q \in late' : q \in late \/ (Meant(q) /\ setting.late)
Walks ==
    /\ pc' \in Steps /\ (pc' # "idle" => attempt # 0)
    /\ round' \in {1, 2} /\ dels' \subseteq Names /\ ups' \subseteq Planned
    /\ result' \in {"none", "failed", "refused", "published", "already"}
    /\ faults' \in 0..setting.faults /\ outside' \in 0..setting.outside

(* The releases the publisher will mean after a step are those it meant,   *)
(* and the one it has just seen.                                           *)
LEMMA NowMeant ==
  ASSUME Base, Permitted, Sees, Sends, NEW id \in Ids
  PROVE  /\ id \in Doomed' => \/ id \in Doomed
                              \/ /\ id \in Shown' /\ releases'[id].state = "draft"
                                 /\ releases'[id].owner = "stale"
         /\ id \in Chosen' => \/ id \in Chosen
                              \/ id \in Shown' /\ releases'[id].owner = "plan"
<1>1. NoRelease.state = "none" /\ NoRelease.owner = "human"
  BY DEF NoRelease, Release
<1>2. ASSUME id \in Doomed'
      PROVE  \/ id \in Doomed
             \/ /\ id \in Shown' /\ releases'[id].state = "draft"
                /\ releases'[id].owner = "stale"
  <2>1. CASE \E q \in late' : q.op = "delete_release" /\ q.id = id
    BY <2>1 DEF Sends, Meant, Doomed
  <2>2. CASE StaleSeen' /\ obs'.id = id
    <3>1. CASE obs' = obs
      BY <2>2, <3>1 DEF StaleSeen, Doomed
    <3>2. CASE obs' = Nothing
      BY <1>1, <2>2, <3>2 DEF StaleSeen, Nothing
    <3>3. ASSUME NEW j \in Shown', obs' = [id |-> j, release |-> releases'[j]]
          PROVE  /\ id \in Shown' /\ releases'[id].state = "draft"
                 /\ releases'[id].owner = "stale"
      BY <2>2, <3>3 DEF StaleSeen
    <3> QED
      BY <3>1, <3>2, <3>3 DEF Sees
  <2> QED
    BY <1>2, <2>1, <2>2 DEF Doomed
<1>3. ASSUME id \in Chosen'
      PROVE  id \in Chosen \/ (id \in Shown' /\ releases'[id].owner = "plan")
  <2>1. CASE \E q \in late' : q.op \in WorkOps /\ q.id = id
    BY <2>1 DEF Sends, Meant, Chosen
  <2>2. CASE PlanSeen' /\ obs'.id = id
    <3>1. CASE obs' = obs
      BY <2>2, <3>1 DEF PlanSeen, Chosen
    <3>2. CASE obs' = Nothing
      BY <1>1, <2>2, <3>2 DEF PlanSeen, Nothing
    <3>3. ASSUME NEW j \in Shown', obs' = [id |-> j, release |-> releases'[j]]
          PROVE  id \in Shown' /\ releases'[id].owner = "plan"
      BY <2>2, <3>3 DEF PlanSeen
    <3> QED
      BY <3>1, <3>2, <3>3 DEF Sees
  <2> QED
    BY <1>3, <2>1, <2>2 DEF Chosen
<1> QED
  BY <1>2, <1>3

(* So what it means to delete and what it means to publish stay apart.     *)
LEMMA AimedKept ==
  ASSUME Base, Permitted, Sees, Sends
  PROVE  Aimed'
<1>1. made \in Nat /\ made' \in Nat /\ made <= made'
  BY LimitsTyped DEF Base, PublisherTyped, RemoteTyped, Permitted
<1>2. ASSUME NEW id \in Ids
      PROVE  /\ id \in Doomed' => StaleOnly(id)' /\ id \in 1..made'
             /\ id \in Chosen' => PlanOnly(id)'
             /\ id \in Doomed' => id \notin Chosen'
  <2>1. PermittedAt(id)
    BY DEF Permitted
  <2>2. /\ id \in Doomed => StaleOnly(id)' /\ id \in 1..made
        /\ id \in Chosen => PlanOnly(id)'
        /\ id \in Doomed => id \notin Chosen
    BY <2>1, Each, Known DEF PermittedAt
  <2>3. id \in Shown' => id \in 1..made'
    <3>1. NoRelease.state = "none"
      BY DEF NoRelease, Release
    <3>2. id > made' => releases'[id] = NoRelease
      BY <2>1 DEF PermittedAt, ShapedAt
    <3> QED
      BY <1>1, <3>1, <3>2 DEF Shown, Ids
  <2>4. /\ id \in Doomed' => \/ id \in Doomed
                             \/ /\ id \in Shown' /\ releases'[id].state = "draft"
                                /\ releases'[id].owner = "stale"
        /\ id \in Chosen' => \/ id \in Chosen
                             \/ id \in Shown' /\ releases'[id].owner = "plan"
    BY NowMeant
  <2>5. id \in Doomed' => StaleOnly(id)' /\ id \in 1..made'
    BY <1>1, <2>2, <2>3, <2>4 DEF StaleOnly
  <2>6. id \in Chosen' => PlanOnly(id)'
    BY <2>2, <2>4 DEF PlanOnly
  <2>7. id \in Doomed' => id \notin Chosen'
    BY <2>2, <2>4, <2>5, <2>6 DEF StaleOnly, PlanOnly
  <2> QED
    BY <2>5, <2>6, <2>7
<1>3. Doomed' \subseteq Ids /\ Chosen' \subseteq Ids
  BY DEF Doomed, Chosen, Ids
<1>4. DoomedIsStale'
  BY <1>2, <1>3 DEF DoomedIsStale, StaleOnly
<1>5. ChosenIsPlanned'
  BY <1>2, <1>3 DEF ChosenIsPlanned, PlanOnly
<1> QED
  BY <1>2, <1>3, <1>4, <1>5 DEF Aimed

(* Where nobody interferes, late requests still write what is right.       *)
LEMMA LateRightKept ==
  ASSUME Base, Permitted, Sends, Guarded'
  PROVE  LateRight'
<1>1. Guarded /\ LateRight /\ Local(attempt)' = Local(attempt) /\ touched \subseteq touched'
  BY DEF Guarded, Permitted, Base, Local
<1>2. ASSUME NEW q \in late'
      PROVE  /\ q.op = "delete_asset" => q.content # Absent /\ q.content # Local(attempt)[q.name]
             /\ q.op = "upload" => q.content = Local(attempt)[q.name]
             /\ q.op = "publish" => \A n \in Names : Right(q.id, n)'
  <2>1. setting.late /\ touched = {} /\ touched' = {}
    BY <1>1, <1>2 DEF Sends, Base, LateTyped, Permitted, Guarded
  <2>2. /\ Formed(q)
        /\ q.op = "delete_asset" => q.content # Absent /\ q.content # Local(attempt)[q.name]
        /\ q.op = "upload" => q.content = Local(attempt)[q.name]
        /\ q.op = "publish" => (\A n \in Names : Right(q.id, n)) /\ q.id \in Chosen
    BY <1>1, <1>2, <2>1 DEF Sends, Meant, LateRight, Base, LateTyped, Chosen, WorkOps, Formed
  <2>3. ASSUME q.op = "publish" PROVE \A n \in Names : Right(q.id, n)'
    <3>1. q.id \in Ids /\ PermittedAt(q.id)
      BY <2>2, <2>3 DEF Formed, Permitted
    <3>2. q.id \in Shown'
      BY <2>1, <2>2, <2>3, <3>1 DEF PermittedAt, PlanOnly
    <3> QED
      BY <2>1, <2>2, <2>3, <3>1, <3>2 DEF PermittedAt
  <2> QED
    BY <2>2, <2>3
<1> QED
  BY <1>1, <1>2 DEF LateRight

(* The base.                                                               *)
LEMMA BaseKept ==
  ASSUME Base, Permitted, Sees, Sends, Walks
  PROVE  Base'
<1>1. /\ UNCHANGED <<setting, attempt>> /\ made' \in 0..MaxReleases
      /\ \A id \in Ids : ShapedAt(id)' /\ (Frozen(releases[id]) => releases'[id] = releases[id])
      /\ Guarded' => \A id \in Ids : WholeAt(id)'
  BY DEF Permitted, PermittedAt
<1>2. RemoteTyped'
  <2>1. releases' \in [Ids -> Releases]'
    <3>1. releases' = [id \in Ids |-> releases'[id]] /\ \A id \in Ids : releases'[id] \in Releases'
      BY <1>1 DEF Permitted, ShapedAt
    <3> QED
      BY <3>1 DEF Ids
  <2>2. \A id \in Ids : /\ id > made' => releases'[id] = NoRelease
                        /\ releases'[id].immutable => releases'[id].state = "published"
                        /\ id \in PublishedIds' \ touched' /\ releases'[id].owner = "plan" =>
                             releases'[id].notes
    BY <1>1 DEF ShapedAt
  <2>3. PublishedIds' \subseteq Ids
    BY DEF PublishedIds, Shown, Ids
  <2> QED
    BY <2>1, <2>2, <2>3 DEF RemoteTyped, Permitted
<1>3. LateTyped'
  <2>1. \A q : Formed(q) => Formed(q)'
    BY <1>1 DEF Formed, Contents
  <2> QED
    BY <1>1, <2>1 DEF LateTyped, Base, Sends, Meant
<1>4. Frozen(obs.release)' => obs'.id \in Ids /\ releases'[obs'.id] = obs'.release
  <2>1. CASE obs' = obs
    BY <1>1, <2>1 DEF Base, Frozen
  <2>2. CASE obs' = Nothing
    BY <2>2 DEF Nothing, NoRelease, Release, Frozen
  <2>3. ASSUME NEW j \in Shown', obs' = [id |-> j, release |-> releases'[j]]
        PROVE  obs'.id \in Ids /\ releases'[obs'.id] = obs'.release
    BY <2>3 DEF Shown
  <2> QED
    BY <2>1, <2>2, <2>3 DEF Sees
<1>5. PublishedIsWhole'
  <2>1. PublishedIds' \subseteq Ids
    BY DEF PublishedIds, Shown, Ids
  <2> QED
    BY <1>1, <2>1 DEF PublishedIsWhole, Guarded, WholeAt
<1>6. Aimed' /\ (Guarded' => LateRight')
  BY AimedKept, LateRightKept
<1>7. PublisherTyped'
  <2>1. obs'.id \in 0..MaxReleases /\ obs'.release \in Releases' /\ (obs'.id = 0 => obs' = Nothing)
    <3>1. Releases' = Releases /\ MaxReleases \in Nat
      BY <1>1, LimitsTyped DEF Releases, Contents, Base, PublisherTyped
    <3>2. NoRelease \in Releases /\ Nothing.id = 0 /\ Nothing.release = NoRelease
      BY ReleasesTyped, LimitsTyped DEF Base, PublisherTyped
    <3>3. CASE obs' = obs
      BY <3>1, <3>3 DEF Base, PublisherTyped
    <3>4. CASE obs' = Nothing
      BY <3>1, <3>2, <3>4
    <3>5. ASSUME NEW j \in Shown', obs' = [id |-> j, release |-> releases'[j]]
          PROVE  obs'.id \in 0..MaxReleases /\ obs'.release \in Releases' /\ obs'.id # 0
      <4>1. j \in Ids
        BY DEF Shown, Ids
      <4>2. releases'[j] \in Releases'
        BY <1>1, <4>1 DEF ShapedAt
      <4> QED
        BY <3>1, <3>5, <4>1, <4>2 DEF Ids
    <3> QED
      BY <3>3, <3>4, <3>5 DEF Sees
  <2>2. late' # {} => attempt # 0
    BY DEF Sends, Meant, Base, PublisherTyped
  <2> QED
    BY <1>1, <2>1, <2>2 DEF PublisherTyped, Walks, Base
<1> QED
  BY <1>2, <1>3, <1>4, <1>5, <1>6, <1>7 DEF Base

----------------------------------------------------------------------------
(* What the publisher knows at its places: reads.                          *)

(* What a release is taken for.                                            *)
LEMMA Classified ==
  ASSUME NEW r \in Releases
  PROVE  /\ Classify(r) = "matching_draft" <=> r.state = "draft" /\ r.owner = "plan"
         /\ Classify(r) = "stale_draft" <=> r.state = "draft" /\ r.owner = "stale"
         /\ Classify(r) = "matching_immutable" <=>
              /\ r.state = "published" /\ r.immutable /\ r.owner = "plan"
              /\ r.assets = Local(attempt)
  BY DEF Classify, Releases, States, Owners

(* A listing that is accepted shows one release or none.                   *)
LEMMA ListedIsOne ==
  ASSUME Base, Listed
  PROVE  \/ ByTag = Nothing /\ Shown = {}
         \/ \E id \in Ids : /\ Shown = {id} /\ ByTag = [id |-> id, release |-> releases[id]]
                            /\ ByTag # Nothing
<1>1. MaxReleases \in Nat
  BY LimitsTyped DEF Base, PublisherTyped
<1>2. IsFiniteSet(Shown)
  <2>1. IsFiniteSet(Ids)
    BY <1>1, FS_Interval DEF Ids
  <2> QED
    BY <2>1, FS_Subset DEF Shown
<1>3. CASE Shown = {}
  BY <1>3 DEF ByTag
<1>4. CASE Shown # {}
  <2>1. PICK id \in Shown : TRUE
    BY <1>4
  <2>2. Cardinality(Shown) = 1
    BY <1>2, <1>4, FS_EmptySet, FS_CardinalityType DEF Listed
  <2>3. Shown = {id}
    BY <1>2, <2>1, <2>2, FS_Singleton
  <2>4. (CHOOSE i \in Shown : TRUE) = id
    BY <2>3
  <2>5. ByTag = [id |-> id, release |-> releases[id]] /\ id \in Ids
    BY <2>1, <2>3, <2>4 DEF ByTag, Seen, Shown
  <2>6. ByTag # Nothing
    BY <1>1, <2>5 DEF Nothing, Ids
  <2> QED
    BY <2>3, <2>5, <2>6
<1> QED
  BY <1>3, <1>4

(* Places where the publisher knows nothing: between two attempts, at the  *)
(* start of one, and where it is about to look.                            *)
Plain == {"idle", "check_branch", "check_tag", "feature", "branch", "list",
          "list_after_create", "get_after_publish", "get_published"}

(* There an attempt owes nothing but a report that is exact.               *)
LEMMA Ended ==
  ASSUME pc' \in Plain, Succeeded' => pc' = "idle" /\ SuccessIsExact'
  PROVE  Placed'
  BY DEF Placed, Reported, SeenWell, OwnFew, Passes, Reconciled, Seeing, DraftSeen, Deleting,
         Creating, Finished, Working, Plain

(* While an attempt runs it has not succeeded.                             *)
LEMMA Unfinished ==
  ASSUME Placed, pc # "idle"
  PROVE  ~Succeeded
  BY DEF Placed, Reported

(* A step to another place by what is known already.                       *)
LEMMA ReadMoves ==
  ASSUME Base, Placed, pc # "idle",
         UNCHANGED <<releases, tag, touched, setting, attempt, outside>>,
         NEW to, Goto(to), to \in Steps \ {"idle", "tag", "reconcile"},
         to \in {"report_known", "tag_after_publish", "report_new"} => Verified,
         to \in {"report_known", "report_new"} => tag = "candidate",
         to \in Deleting => Seeing /\ StaleSeen,
         to \in Creating \cup {"list_after_second_delete"} => pc \in Creating \/ Shown = {},
         to \in Working => DraftSeen,
         to = "begin_reconcile" => pc = "tag",
         to \in Finished => pc \in Finished \/ (pc = "reconcile" /\ dels = {} /\ ups = {})
  PROVE  Placed'
<1>1. /\ pc' = to /\ UNCHANGED <<obs, dels, ups, result>> /\ ~Succeeded'
  BY Unfinished DEF Goto, Succeeded
<1>2. Reported'
  BY <1>1 DEF Reported, Verified, Frozen, Local
<1>3. /\ Ours' = Ours /\ Shown' = Shown
      /\ Guarded' <=> Guarded
      /\ Local(attempt)' = Local(attempt)
      /\ \A n : Right(obs.id, n)' <=> Right(obs.id, n)
  BY <1>1 DEF Ours, Shown, Ids, Guarded, Right, Local
<1>4. DraftSeen => PlanSeen
  BY DEF Placed, SeenWell, DraftSeen
<1>5. SeenWell'
  BY <1>1, <1>4 DEF SeenWell, StaleSeen, PlanSeen, Working, Finished
<1>6. OwnFew'
  <2>1. Seeing' => Seeing
    BY <1>1 DEF Seeing, StaleSeen
  <2>2. DraftSeen' => DraftSeen
    BY <1>1 DEF DraftSeen, PlanSeen
  <2>3. Shown = {} => Ours = {}
    BY DEF Ours
  <2> QED
    BY <1>1, <1>3, <2>1, <2>2, <2>3 DEF OwnFew, Placed, Creating
<1>7. Passes'
  BY <1>1 DEF Passes
<1>8. ASSUME Guarded' PROVE Reconciled'
  <2>1. CASE ~DraftSeen'
    BY <2>1 DEF Reconciled
  <2>2. CASE DraftSeen'
    <3>1. DraftSeen /\ Reconciled
      BY <1>1, <1>3, <1>8, <2>2 DEF DraftSeen, PlanSeen, Placed
    <3> QED
      BY <1>1, <1>3, <3>1 DEF Reconciled, Finished
  <2> QED
    BY <2>1, <2>2
<1> QED
  BY <1>2, <1>5, <1>6, <1>7, <1>8 DEF Placed

(* A step on what has just been listed.                                    *)
LEMMA ReadLooks ==
  ASSUME Base, Placed, pc # "idle", Listed,
         UNCHANGED <<releases, tag, touched, setting, attempt, outside, result>>,
         obs' = ByTag,
         pc' \in {"tag", "branch_before_create", "delete_again", "begin_reconcile",
                  "branch_before_publish"},
         pc' = "branch_before_create" <=> ByTag = Nothing,
         pc' = "delete_again" => Classify(ByTag.release) = "stale_draft",
         pc' \in {"begin_reconcile", "branch_before_publish"} =>
            Classify(ByTag.release) = "matching_draft",
         pc' = "branch_before_publish" => pc = "list_after_reconcile"
  PROVE  Sees /\ Placed'
<1>1. ~Succeeded' /\ Reported'
  BY Unfinished DEF Succeeded, Reported
<1>2. CASE ByTag = Nothing
  <2>1. Shown = {} /\ Shown' = {}
    BY <1>2, ListedIsOne DEF Shown, Ids
  <2>2. Sees
    BY <1>2 DEF Sees
  <2>3. SeenWell' /\ Passes' /\ Reconciled'
    BY <1>2 DEF SeenWell, Passes, Reconciled, DraftSeen, Deleting, Working, Finished
  <2>4. OwnFew'
    BY <1>2, <2>1 DEF OwnFew, Ours, Seeing, DraftSeen, Deleting, Working, Finished
  <2> QED
    BY <1>1, <2>2, <2>3, <2>4 DEF Placed
<1>3. CASE ByTag # Nothing
  <2>1. PICK id \in Ids : /\ Shown = {id} /\ ByTag = [id |-> id, release |-> releases[id]]
    BY <1>3, ListedIsOne
  <2>2. /\ obs'.id = id /\ obs'.release = releases[id] /\ Shown' = {id}
        /\ releases[id] \in Releases /\ id \in Shown'
    BY <2>1, Each DEF Shown, Ids
  <2>3. Sees
    BY <2>1, <2>2 DEF Sees
  <2>4. /\ pc' = "delete_again" => releases[id].state = "draft" /\ releases[id].owner = "stale"
        /\ pc' \in {"begin_reconcile", "branch_before_publish"} =>
             releases[id].state = "draft" /\ releases[id].owner = "plan"
    BY <2>2, Classified
  <2>5. /\ Seeing' => releases[id].state = "draft" /\ releases[id].owner = "stale"
        /\ DraftSeen' => releases[id].state = "draft" /\ releases[id].owner = "plan"
    BY <2>2, <2>4 DEF Seeing, DraftSeen, StaleSeen, PlanSeen, Deleting, Working, Finished
  <2>6. SeenWell'
    BY <2>2, <2>4 DEF SeenWell, StaleSeen, PlanSeen, Deleting, Working, Finished, Ids
  <2>7. OwnFew'
    BY <1>3, <2>2, <2>5 DEF OwnFew, Ours, Creating
  <2>8. Passes'
    BY DEF Passes
  <2>9. ASSUME Guarded' PROVE Reconciled'
    <3>1. Guarded /\ Reconciled /\ \A n : Right(id, n)' <=> Right(id, n)
      BY <2>9 DEF Guarded, Placed, Right, Local
    <3>2. CASE pc' # "branch_before_publish"
      BY <2>2, <3>2 DEF Reconciled, Right, Local, Finished
    <3>3. CASE pc' = "branch_before_publish" /\ id \notin touched
      <4>1. pc = "list_after_reconcile" /\ DraftSeen /\ PlanSeen
        BY <3>3 DEF Placed, SeenWell, DraftSeen, Working, Finished
      <4>2. obs.id \in Chosen
        BY <4>1 DEF Chosen, PlanSeen, Base, PublisherTyped, Nothing, NoRelease, Release, Ids
      <4>3. obs.id = id
        <5>1. CASE ~setting.late
          <6>1. id \in Ours
            BY <2>1, <2>4, <3>3 DEF Ours
          <6>2. Ours \subseteq {obs.id}
            BY <4>1, <5>1 DEF Placed, OwnFew
          <6> QED
            BY <6>1, <6>2
        <5>2. CASE touched = {}
          BY <2>1, <4>2, <5>2 DEF Base, Aimed, ChosenIsPlanned
        <5> QED
          BY <3>1, <5>1, <5>2 DEF Guarded
      <4>4. \A n \in Names : Right(id, n)
        BY <3>1, <3>3, <4>1, <4>3 DEF Reconciled, Finished
      <4> QED
        BY <2>2, <3>1, <3>3, <4>4 DEF Reconciled
    <3>4. CASE id \in touched
      BY <2>2, <3>4 DEF Reconciled
    <3> QED
      BY <3>2, <3>3, <3>4
  <2> QED
    BY <1>1, <2>3, <2>6, <2>7, <2>8, <2>9 DEF Placed
<1> QED
  BY <1>2, <1>3

----------------------------------------------------------------------------
(* What the publisher knows at its places: writes.                         *)

(* Whatever it sends is meant.                                             *)
LEMMA DeleteMeant ==
  ASSUME Base, Placed, pc \in {"delete", "delete_again"},
         NEW q, q = Request("delete_release", obs.id, NoName, Absent)
  PROVE  Meant(q)
<1>1. StaleSeen /\ obs.id \in Ids
  BY DEF Placed, SeenWell, Deleting, StaleSeen, Base, PublisherTyped, Nothing, NoRelease,
         Release, Ids
<1> QED
  BY <1>1 DEF Meant, Formed, Request, Ops, WorkOps, Doomed, Base, PublisherTyped

(* A create names no release: it may always be sent.                       *)
LEMMA CreateMeant ==
  ASSUME Base, Placed, pc = "create",
         NEW q, q = Request("create", 0, NoName, Absent)
  PROVE  Meant(q)
  BY DEF Meant, Formed, Request, Ops, WorkOps, Base, PublisherTyped

(* The release it works on is known, and a draft as far as it can be.      *)
LEMMA WorkedOn ==
  ASSUME Base, Placed, pc \in Working
  PROVE  /\ obs.id \in Ids /\ obs.id \in Chosen /\ DraftSeen /\ attempt # 0
         /\ ~setting.late /\ obs.id \notin touched => releases[obs.id].state = "draft"
<1>1. PlanSeen /\ DraftSeen
  BY DEF Placed, SeenWell, DraftSeen
<1>2. obs.id \in Ids
  BY <1>1 DEF PlanSeen, Base, PublisherTyped, Nothing, NoRelease, Release, Ids
<1> QED
  BY <1>1, <1>2 DEF Chosen, Placed, OwnFew, Base, PublisherTyped, Working, Finished

(* What it deletes differs from the file it holds.                         *)
LEMMA DeleteAssetMeant ==
  ASSUME Base, Placed, pc = "reconcile", NEW n \in dels,
         NEW q, q = Request("delete_asset", obs.id, n, obs.release.assets[n])
  PROVE  Meant(q)
<1>1. /\ obs.id \in Ids /\ obs.id \in Chosen /\ attempt # 0
      /\ ~setting.late /\ obs.id \notin touched => releases[obs.id].state = "draft"
  BY WorkedOn DEF Working
<1>2. n \in Names /\ obs.release.assets[n] \notin {Absent, Local(attempt)[n]}
  BY DEF Base, PublisherTyped, Placed, Passes
<1> QED
  BY <1>1, <1>2 DEF Meant, Formed, Request, Ops, WorkOps

(* What it uploads is the file it holds.                                   *)
LEMMA UploadMeant ==
  ASSUME Base, Placed, pc = "reconcile", NEW n \in ups,
         NEW q, q = Request("upload", obs.id, n, Local(attempt)[n])
  PROVE  Meant(q)
<1>1. /\ obs.id \in Ids /\ obs.id \in Chosen /\ attempt # 0
      /\ ~setting.late /\ obs.id \notin touched => releases[obs.id].state = "draft"
  BY WorkedOn DEF Working
<1>2. n \in Names /\ Local(attempt)[n] \in Contents(attempt)
  BY LocalTyped, LimitsTyped DEF Base, PublisherTyped, Names
<1> QED
  BY <1>1, <1>2 DEF Meant, Formed, Request, Ops, WorkOps

(* It publishes only what is reconciled.                                   *)
LEMMA PublishMeant ==
  ASSUME Base, Placed, pc = "publish",
         NEW q, q = Request("publish", obs.id, NoName, Absent)
  PROVE  Meant(q)
<1>1. /\ obs.id \in Ids /\ obs.id \in Chosen /\ DraftSeen /\ attempt # 0
      /\ ~setting.late /\ obs.id \notin touched => releases[obs.id].state = "draft"
  BY WorkedOn DEF Working, Finished
<1>2. Guarded /\ obs.id \notin touched => \A n \in Names : Right(obs.id, n)
  BY <1>1 DEF Placed, Reconciled, Finished
<1> QED
  BY <1>1, <1>2 DEF Meant, Formed, Request, Ops, WorkOps

(* What sending it does, answered or not.                                  *)
LEMMA Sent ==
  ASSUME Base, NEW q, Meant(q), Answered(q) \/ Unanswered(q)
  PROVE  /\ Permitted /\ Sends /\ UNCHANGED <<attempt, setting, touched, outside>>
         /\ faults' \in 0..setting.faults /\ outside' \in 0..setting.outside
         /\ (Accepts(q) /\ Apply(q)) \/ UNCHANGED remote
<1>1. /\ UNCHANGED <<attempt, setting, touched, outside>>
      /\ faults' \in 0..setting.faults /\ outside' \in 0..setting.outside
  BY LimitsTyped DEF Answered, Unanswered, Steady, Fault, bounds, Base, PublisherTyped
<1>2. (Accepts(q) /\ Apply(q)) \/ UNCHANGED remote
  BY DEF Answered, Unanswered
<1>3. Permitted
  BY <1>1, <1>2, Applied, Untouched
<1>4. Sends
  BY DEF Sends, Answered, Unanswered
<1> QED
  BY <1>1, <1>2, <1>3, <1>4

(* While nothing is applied late and nobody else writes, there is one      *)
(* release at most.                                                        *)
LEMMA FewKept ==
  ASSUME Base, FewShown, OwnFew, NEW q, Formed(q), Accepts(q), Apply(q),
         UNCHANGED <<setting, outside>>, q.op = "create" => setting.late \/ pc = "create"
  PROVE  FewShown'
<1>1. /\ Aim(q) \in Ids /\ \A id \in Ids \ {Aim(q)} : releases'[id] = releases[id]
      /\ q.op # "create" => Aim(q) \in Shown
  <2>1. q.op \in {"delete_asset", "upload"} => Aim(q) \in Ids /\ Mutable(releases[Aim(q)])
    BY Written
  <2>2. q.op \in {"delete_asset", "upload"} => Aim(q) \in Shown
    BY <2>1 DEF Mutable, Shown
  <2> QED
    BY <2>2, Written DEF Formed, Ops, WorkOps
<1>2. Shown' \subseteq Shown \cup {Aim(q)}
  BY <1>1 DEF Shown, Ids
<1>3. q.op = "create" /\ ~setting.late /\ outside = 0 => Shown = {}
  BY DEF OwnFew, Creating
<1> QED
  BY <1>1, <1>2, <1>3 DEF FewShown

(* A step that leaves the releases alone.                                  *)
LEMMA FewSame ==
  ASSUME FewShown, UNCHANGED releases, UNCHANGED <<setting, outside>>
  PROVE  FewShown'
  BY DEF FewShown, Shown, Ids

(* The places after a write.                                               *)
LEMMA DeletePlaced ==
  ASSUME Base, Placed, pc \in {"delete", "delete_again"},
         NEW q, q = Request("delete_release", obs.id, NoName, Absent),
         \/ Answered(q) /\ (\/ pc = "delete" /\ Goto("branch_before_create")
                            \/ pc = "delete_again" /\ Goto("list_after_second_delete"))
         \/ Unanswered(q) /\ Goto("list_after_delete")
  PROVE  Placed'
<1>1. Meant(q)
  BY DeleteMeant
<1>2. UNCHANGED <<attempt, setting, touched, outside>>
      /\ ((Accepts(q) /\ Apply(q)) \/ UNCHANGED remote)
  BY <1>1, Sent
<1>3. Shown' \subseteq Shown /\ Ours' \subseteq Ours /\ (Answered(q) => obs.id \notin Shown')
  <2>1. CASE UNCHANGED remote /\ ~Answered(q)
    BY <1>2, <2>1 DEF remote, Shown, Ours, Ids
  <2>2. CASE Accepts(q) /\ Apply(q)
    <3>1. q.op = "delete_release" /\ Aim(q) = obs.id
      BY DEF Request, Aim
    <3>2. /\ Formed(q) /\ obs.id \in Ids
          /\ \A id \in Ids \ {obs.id} : releases'[id] = releases[id]
          /\ releases'[obs.id] = NoRelease
      BY <1>1, <2>2, <3>1, Written DEF Meant
    <3>3. NoRelease.state = "none"
      BY DEF NoRelease, Release
    <3> QED
      BY <1>2, <3>2, <3>3 DEF Shown, Ours, Ids
  <2> QED
    BY <1>2, <2>1, <2>2 DEF Answered
<1>4. /\ pc' \in {"branch_before_create", "list_after_second_delete", "list_after_delete"}
      /\ pc' = "branch_before_create" => Answered(q)
      /\ UNCHANGED <<obs, result>>
  BY DEF Goto
<1>5. ~Succeeded' /\ Reported'
  BY <1>4, Unfinished DEF Succeeded, Reported
<1>6. StaleSeen
  BY DEF Placed, SeenWell, Deleting
<1>7. SeenWell' /\ Passes' /\ Reconciled'
  BY <1>4, <1>6 DEF SeenWell, Passes, Reconciled, DraftSeen, Deleting, Working, Finished, StaleSeen
<1>8. OwnFew'
  <2>1. ~setting.late => Ours = {} /\ (outside = 0 => Shown \subseteq {obs.id})
    BY DEF Placed, OwnFew, Seeing, Deleting
  <2> QED
    BY <1>2, <1>3, <1>4, <2>1 DEF OwnFew, DraftSeen, Creating, Working, Finished
<1> QED
  BY <1>5, <1>7, <1>8 DEF Placed

(* A created draft is seen as it was made.                                 *)
LEMMA CreatePlaced ==
  ASSUME Base, Placed, pc = "create",
         NEW q, q = Request("create", 0, NoName, Absent), Answered(q),
         Observe("begin_reconcile", [id |-> made', release |-> releases'[made']])
  PROVE  Sees /\ Placed'
<1>1. Meant(q) /\ q.op = "create" /\ Aim(q) = made + 1
  BY CreateMeant DEF Request, Aim
<1>2. /\ UNCHANGED <<attempt, setting, touched, outside>> /\ Accepts(q) /\ Apply(q)
  BY <1>1, Sent DEF Answered
<1>3. /\ made' \in Ids /\ releases'[made'] = Drafted("plan")
      /\ \A id \in Ids \ {made'} : releases'[id] = releases[id]
  BY <1>1, <1>2, Written DEF Meant
<1>4. Drafted("plan").state = "draft" /\ Drafted("plan").owner = "plan"
  BY DEF Drafted, Release
<1>5. made' \in Shown'
  BY <1>3, <1>4 DEF Shown, Ids
<1>6. /\ pc' = "begin_reconcile" /\ UNCHANGED result
      /\ obs' = [id |-> made', release |-> releases'[made']]
  BY DEF Observe
<1>7. Sees
  BY <1>5, <1>6 DEF Sees
<1>8. ~Succeeded' /\ Reported'
  BY <1>6, Unfinished DEF Succeeded, Reported
<1>9. SeenWell' /\ Passes' /\ Reconciled'
  BY <1>3, <1>4, <1>6 DEF SeenWell, Passes, Reconciled, Right, PlanSeen, Deleting, Finished
<1>10. OwnFew'
  <2>1. ~setting.late => Ours = {}
    BY DEF Placed, OwnFew, Creating
  <2>2. Ours' \subseteq Ours \cup {made'}
    BY <1>2, <1>3 DEF Ours, Shown, Ids
  <2> QED
    BY <1>2, <1>3, <1>4, <1>6, <2>1, <2>2 DEF OwnFew, Seeing, Deleting, Creating
<1> QED
  BY <1>7, <1>8, <1>9, <1>10 DEF Placed

(* An asset goes or comes, or its request fails.                           *)
LEMMA AssetPlaced ==
  ASSUME Base, Placed, pc = "reconcile",
         NEW q, q.op \in {"delete_asset", "upload"}, q.id = obs.id, q.name \in Names, Meant(q),
         q.op = "delete_asset" => q.name \in dels /\ dels' = dels \ {q.name} /\ ups' = ups,
         q.op = "upload" => /\ dels = {} /\ dels' = {} /\ ups' = ups \ {q.name}
                            /\ q.content = Local(attempt)[q.name],
         Answered(q), UNCHANGED <<pc, obs, result>>
  PROVE  Placed'
<1>1. /\ UNCHANGED <<attempt, setting, touched, outside>> /\ Permitted /\ Aim(q) = obs.id
      /\ Accepts(q) /\ Apply(q) /\ Formed(q)
  BY Sent DEF Answered, Aim, Meant
<1> DEFINE r == releases[obs.id]
           content == IF q.op = "upload" THEN q.content ELSE Absent
<1>2. /\ obs.id \in Ids /\ releases'[obs.id] = With(r, q.name, content)
      /\ \A id \in Ids \ {obs.id} : releases'[id] = releases[id]
  BY <1>1, Written
<1>3. r \in Releases /\ content \in Contents(attempt)
  BY <1>1, <1>2, Each, LocalTyped, LimitsTyped DEF Formed, Base, PublisherTyped
<1>4. /\ releases'[obs.id].state = r.state /\ releases'[obs.id].owner = r.owner
      /\ releases'[obs.id].assets[q.name] = content
      /\ \A m \in Names \ {q.name} : releases'[obs.id].assets[m] = r.assets[m]
  BY <1>2, <1>3, WithTyped
<1>5. ~Succeeded' /\ Reported'
  BY Unfinished DEF Succeeded, Reported
<1>6. SeenWell'
  BY DEF Placed, SeenWell, PlanSeen, Deleting
<1>7. OwnFew'
  <2>1. Ours' = Ours
    BY <1>1, <1>2, <1>4 DEF Ours, Shown, Ids
  <2>2. ~Seeing' /\ pc' \notin Creating /\ (DraftSeen' => DraftSeen)
    BY DEF Seeing, Creating, DraftSeen, Deleting, PlanSeen
  <2> QED
    BY <1>1, <1>4, <2>1, <2>2 DEF OwnFew, Placed
<1>8. Local(attempt)' = Local(attempt)
  BY <1>1 DEF Local
<1>9. Passes'
  BY <1>8 DEF Placed, Passes
<1>10. ASSUME Guarded', obs.id \notin touched
       PROVE  \A n \in Names \ (dels' \cup ups') : Right(obs.id, n)'
  <2>1. \A n \in Names \ (dels \cup ups) : Right(obs.id, n)
    BY <1>1, <1>10, WorkedOn DEF Guarded, Placed, Reconciled, Working
  <2>2. ASSUME NEW n \in Names \ (dels' \cup ups')
        PROVE  releases'[obs.id].assets[n] = Local(attempt)[n]
    <3>1. CASE n # q.name
      BY <1>4, <2>1, <2>2, <3>1 DEF Right
    <3>2. CASE n = q.name /\ q.op = "upload"
      BY <1>4, <3>2
    <3>3. CASE n = q.name /\ q.op = "delete_asset"
      <4>1. n \notin Planned
        BY <2>2, <3>3 DEF Placed, Passes
      <4>2. Local(attempt)[n] = Absent
        BY <4>1, LocalTyped, LimitsTyped DEF Base, PublisherTyped
      <4> QED
        BY <1>4, <3>3, <4>2
    <3> QED
      BY <3>1, <3>2, <3>3
  <2> QED
    BY <1>8, <2>2 DEF Right
<1>11. Guarded' => Reconciled'
  BY <1>1, <1>10 DEF Reconciled, Finished
<1> QED
  BY <1>5, <1>6, <1>7, <1>9, <1>11 DEF Placed

(* A request that fails: one more pass, or the end.                        *)
LEMMA FailedPlaced ==
  ASSUME Base, Placed, pc = "reconcile",
         NEW q, q.op \in {"delete_asset", "upload"}, q.id = obs.id, q.name \in Names, Meant(q),
         Unanswered(q), ReconcileFailed
  PROVE  Placed' /\ UNCHANGED <<obs, round, dels, ups>>
         /\ pc' \in {"idle", "list_after_reconcile_failed"} /\ result' \in {result, "failed"}
<1>1. /\ UNCHANGED <<attempt, setting, touched, outside>> /\ Aim(q) = obs.id /\ Formed(q)
      /\ ((Accepts(q) /\ Apply(q)) \/ UNCHANGED remote)
  BY Sent DEF Aim, Meant
<1>2. CASE Fail
  BY <1>2, Ended DEF Fail, End, Succeeded, Plain
<1>3. CASE Goto("list_after_reconcile_failed")
  <2>1. /\ obs.id \in Ids /\ \A id \in Ids \ {obs.id} : releases'[id] = releases[id]
        /\ releases'[obs.id].state = releases[obs.id].state
    <3>1. obs.id \in Ids
      BY WorkedOn DEF Working
    <3>2. CASE UNCHANGED remote
      BY <3>1, <3>2 DEF remote
    <3>3. CASE Accepts(q) /\ Apply(q)
      <4> DEFINE r == releases[obs.id]
                 content == IF q.op = "upload" THEN q.content ELSE Absent
      <4>1. /\ releases'[obs.id] = With(r, q.name, content)
            /\ \A id \in Ids \ {obs.id} : releases'[id] = releases[id]
        BY <1>1, <3>3, Written
      <4>2. r \in Releases /\ content \in Contents(attempt)
        BY <1>1, <3>1, Each, LocalTyped, LimitsTyped DEF Formed, Base, PublisherTyped
      <4>3. releases'[obs.id].state = r.state
        BY <4>1, <4>2, WithTyped
      <4> QED
        BY <3>1, <4>1, <4>3
    <3> QED
      BY <1>1, <3>2, <3>3
  <2>2. pc' = "list_after_reconcile_failed" /\ UNCHANGED <<obs, result, dels, ups, round>>
    BY <1>3 DEF Goto
  <2>3. ~Succeeded' /\ Reported'
    BY <2>2, Unfinished DEF Succeeded, Reported
  <2>4. SeenWell' /\ Passes' /\ Reconciled' /\ DraftSeen
    BY <2>2, WorkedOn DEF Placed, SeenWell, Passes, Reconciled, PlanSeen, Deleting, Working, Finished
  <2>5. OwnFew'
    <3>1. Ours' \subseteq Ours \cup {obs.id}
      BY <1>1, <2>1 DEF Ours, Shown, Ids
    <3>2. ~Seeing' /\ pc' \notin Creating
      BY <2>2 DEF Seeing, Creating, Deleting
    <3> QED
      BY <1>1, <2>1, <2>2, <2>4, <3>1, <3>2 DEF OwnFew, Placed
  <2> QED
    BY <2>2, <2>3, <2>4, <2>5 DEF Placed
<1> QED
  BY <1>2, <1>3 DEF ReconcileFailed, Fail, End, Goto

----------------------------------------------------------------------------
(* The invariant is kept.                                                  *)

(* What every step but the start of an attempt owes.                       *)
Owes == Permitted /\ Sees /\ Sends /\ Walks /\ Placed' /\ FewShown'

(* It is enough to keep the invariant.                                     *)
LEMMA OwesEnough ==
  ASSUME PublisherInv, Owes
  PROVE  PublisherInv'
  BY BaseKept DEF PublisherInv, Owes

(* A read leaves all but the publisher's own place alone.                  *)
LEMMA ReadOwes ==
  ASSUME PublisherInv, pc # "idle", Sees, pc' \in Steps, Placed',
         UNCHANGED <<remote, late, setting, outside, attempt, touched>>,
         faults' \in 0..setting.faults, round' \in {1, 2},
         dels' \subseteq Names, ups' \subseteq Planned,
         result' \in {result, "failed", "refused", "published", "already"}
  PROVE  Owes
<1>1. Permitted
  BY Untouched DEF PublisherInv
<1>2. FewShown'
  BY FewSame DEF PublisherInv, remote
<1>3. Sends
  BY DEF Sends
<1>4. Walks
  BY DEF Walks, PublisherInv, Base, PublisherTyped
<1> QED
  BY <1>1, <1>2, <1>3, <1>4 DEF Owes

(* A read that ends the attempt.                                           *)
LEMMA FailOwes ==
  ASSUME PublisherInv, pc # "idle", NEW r \in {"failed", "refused"}, End(r),
         UNCHANGED <<remote, late, setting, outside, attempt, touched>>,
         faults' \in 0..setting.faults
  PROVE  Owes
<1>1. /\ pc' = "idle" /\ result' = r /\ UNCHANGED <<obs, round, dels, ups>>
  BY DEF End
<1>2. Placed'
  BY <1>1, Ended DEF Succeeded, Plain
<1> QED
  BY <1>1, <1>2, ReadOwes DEF Sees, Steps, PublisherInv, Base, PublisherTyped

(* A read that goes on with what is known.                                 *)
LEMMA GotoOwes ==
  ASSUME PublisherInv, pc # "idle", NEW to \in Steps, Goto(to), Placed',
         UNCHANGED <<remote, late, setting, faults, outside, attempt, touched>>
  PROVE  Owes
  BY ReadOwes DEF Goto, Sees, PublisherInv, Base, PublisherTyped

(* A read that goes on with what was listed.                               *)
LEMMA LookOwes ==
  ASSUME PublisherInv, pc # "idle", Listed, pc' \in Steps,
         UNCHANGED <<remote, late, setting, faults, outside, attempt, touched, dels, ups, result>>,
         round' \in {1, 2}, obs' = ByTag,
         pc' \in {"tag", "branch_before_create", "delete_again", "begin_reconcile",
                  "branch_before_publish"},
         pc' = "branch_before_create" <=> ByTag = Nothing,
         pc' = "delete_again" => Classify(ByTag.release) = "stale_draft",
         pc' \in {"begin_reconcile", "branch_before_publish"} =>
            Classify(ByTag.release) = "matching_draft",
         pc' = "branch_before_publish" => pc = "list_after_reconcile"
  PROVE  Owes
<1>1. Sees /\ Placed'
  BY ReadLooks DEF PublisherInv, remote
<1> QED
  BY <1>1, ReadOwes DEF PublisherInv, Base, PublisherTyped

(* A write.                                                                *)
LEMMA WriteOwes ==
  ASSUME PublisherInv, pc # "idle", NEW q, Meant(q), Answered(q) \/ Unanswered(q),
         q.op = "create" => pc = "create",
         Sees, pc' \in Steps, Placed', round' \in {1, 2},
         dels' \subseteq Names, ups' \subseteq Planned, result' \in {result, "failed"}
  PROVE  Owes
<1>1. /\ Permitted /\ Sends /\ UNCHANGED <<setting, outside>>
      /\ faults' \in 0..setting.faults /\ outside' \in 0..setting.outside
      /\ (Accepts(q) /\ Apply(q)) \/ UNCHANGED remote
  BY Sent DEF PublisherInv
<1>2. FewShown'
  <2>1. CASE UNCHANGED remote
    BY <1>1, <2>1, FewSame DEF PublisherInv, remote
  <2>2. CASE Accepts(q) /\ Apply(q)
    BY <1>1, <2>2, FewKept DEF PublisherInv, Placed, Meant
  <2> QED
    BY <1>1, <2>1, <2>2
<1>3. Walks
  BY <1>1 DEF Walks, PublisherInv, Base, PublisherTyped
<1> QED
  BY <1>1, <1>2, <1>3 DEF Owes

(* Reading.                                                                *)
LEMMA ReadingOwes ==
  ASSUME PublisherInv, Reading
  PROVE  Owes
<1>1. /\ Base /\ Placed /\ pc # "idle"
      /\ UNCHANGED <<remote, late, setting, faults, outside, attempt, touched>>
      /\ UNCHANGED <<releases, tag>>
      /\ faults' \in 0..setting.faults
  BY DEF Reading, ReadFeature, List, Decide, ReadBranch, ListAfterDelete, ListAfterSecondDelete,
         ReadTagBeforeCreate, ListAfterCreate, BeginReconcile, EndReconcile,
         ListAfterReconcileFailed, ListAfterReconcile, ReadTagBeforePublish, GetAfterPublish,
         GetPublished, ReadTagAfterPublish, Reads, Steady, bounds, remote, PublisherInv,
         Base, PublisherTyped
<1>2. obs.release \in Releases
  BY <1>1 DEF Base, PublisherTyped
<1>3. Fail => Owes
  BY <1>1, FailOwes DEF Fail
<1>4. ASSUME NEW to, Goto(to), to \in Steps \ {"idle", "tag", "reconcile"},
             to \in {"report_known", "tag_after_publish", "report_new"} => Verified,
             to \in {"report_known", "report_new"} => tag = "candidate",
             to \in Deleting => Seeing /\ StaleSeen,
             to \in Creating \cup {"list_after_second_delete"} => pc \in Creating \/ Shown = {},
             to \in Working => DraftSeen,
             to = "begin_reconcile" => pc = "tag",
             to \in Finished => pc \in Finished \/ (pc = "reconcile" /\ dels = {} /\ ups = {})
      PROVE  Owes
  <2>1. Placed'
    BY <1>1, <1>4, ReadMoves
  <2> QED
    BY <1>1, <1>4, <2>1, GotoOwes
<1>5. CASE ReadFeature
  BY <1>3, <1>4, <1>5 DEF ReadFeature, Steps, ReadPcs, Deleting, Creating, Working, Finished
<1>6. CASE ReadBranch("branch", "list")
  BY <1>3, <1>4, <1>6 DEF ReadBranch, Steps, ReadPcs, Deleting, Creating, Working, Finished
<1>7. CASE ReadBranch("branch_before_create", "tag_before_create")
  BY <1>3, <1>4, <1>7 DEF ReadBranch, Steps, ReadPcs, Deleting, Creating, Working, Finished
<1>8. CASE ReadBranch("branch_before_publish", "tag_before_publish")
  <2>1. DraftSeen
    BY <1>1, <1>8, WorkedOn DEF ReadBranch, Working, Finished
  <2> QED
    BY <1>3, <1>4, <1>8, <2>1 DEF ReadBranch, Steps, ReadPcs, Deleting, Creating, Working, Finished
<1>9. CASE ReadTagBeforeCreate
  BY <1>3, <1>4, <1>9 DEF ReadTagBeforeCreate, Steps, ReadPcs, Deleting, Creating, Working, Finished
<1>10. CASE ReadTagBeforePublish
  <2>1. DraftSeen
    BY <1>1, <1>10, WorkedOn DEF ReadTagBeforePublish, Working, Finished
  <2> QED
    BY <1>3, <1>4, <1>10, <2>1
       DEF ReadTagBeforePublish, Steps, ReadPcs, Deleting, Creating, Working, Finished
<1>11. CASE EndReconcile
  <2>1. DraftSeen
    BY <1>1, <1>11, WorkedOn DEF EndReconcile, Working, Finished
  <2> QED
    BY <1>3, <1>4, <1>11, <2>1
       DEF EndReconcile, Steps, ReadPcs, Deleting, Creating, Working, Finished
<1>12. CASE GetAfterPublish
  BY <1>3, <1>4, <1>12 DEF GetAfterPublish, Steps, ReadPcs, Deleting, Creating, Working, Finished
<1>13. CASE ReadTagAfterPublish
  <2>1. Verified /\ obs.release.state = "published"
    BY <1>1, <1>13 DEF ReadTagAfterPublish, Placed, Reported, Verified, Frozen
  <2> QED
    BY <1>3, <1>4, <1>13, <2>1
       DEF ReadTagAfterPublish, TagAllows, Steps, ReadPcs, Deleting, Creating, Working, Finished
<1>14. CASE ListAfterSecondDelete
  <2>1. Listed /\ ByTag = Nothing => Shown = {}
    BY <1>1, ListedIsOne
  <2> QED
    BY <1>3, <1>4, <1>14, <2>1
       DEF ListAfterSecondDelete, Steps, ReadPcs, Deleting, Creating, Working, Finished
<1>15. CASE Decide
  <2>1. pc = "tag"
    BY <1>15 DEF Decide
  <2>2. \/ Fail
        \/ /\ TagAllows(obs.release) /\ Classify(obs.release) = "matching_immutable"
           /\ ExactMetadata(obs.release) /\ Goto("report_known")
        \/ Classify(obs.release) = "matching_draft" /\ Goto("begin_reconcile")
        \/ Classify(obs.release) = "stale_draft" /\ Goto("delete")
    BY <1>15 DEF Decide
  <2>3. ASSUME TagAllows(obs.release), Classify(obs.release) = "matching_immutable",
               ExactMetadata(obs.release), Goto("report_known")
        PROVE  Owes
    <3>1. Verified /\ obs.release.state = "published"
      BY <1>2, <2>3, Classified DEF Verified, Frozen, ExactMetadata
    <3> QED
      BY <1>4, <2>3, <3>1 DEF TagAllows, Steps, ReadPcs, Deleting, Creating, Working, Finished
  <2>4. ASSUME Classify(obs.release) = "matching_draft", Goto("begin_reconcile")
        PROVE  Owes
    <3>1. DraftSeen
      BY <1>2, <2>1, <2>4, Classified DEF DraftSeen, PlanSeen
    <3> QED
      BY <1>4, <2>1, <2>4, <3>1 DEF Steps, ReadPcs, Deleting, Creating, Working, Finished
  <2>5. ASSUME Classify(obs.release) = "stale_draft", Goto("delete")
        PROVE  Owes
    <3>1. Seeing /\ StaleSeen
      BY <1>2, <2>1, <2>5, Classified DEF Seeing, StaleSeen
    <3> QED
      BY <1>4, <2>1, <2>5, <3>1 DEF Steps, ReadPcs, Deleting, Creating, Working, Finished
  <2> QED
    BY <1>3, <2>2, <2>3, <2>4, <2>5
<1>16. CASE List
  <2>1. \/ Fail
        \/ Listed /\ Observe(IF ByTag = Nothing THEN "branch_before_create" ELSE "tag", ByTag)
    BY <1>16 DEF List
  <2>2. CASE Listed /\ Observe(IF ByTag = Nothing THEN "branch_before_create" ELSE "tag", ByTag)
    BY <1>1, <2>2, LookOwes DEF Observe, Steps, ReadPcs, PublisherInv, Base, PublisherTyped
  <2> QED
    BY <1>3, <2>1, <2>2
<1>17. CASE ListAfterDelete
  <2>1. \/ Fail
        \/ Listed /\ ByTag = Nothing /\ Observe("branch_before_create", Nothing)
        \/ /\ Listed /\ ByTag # Nothing /\ Classify(ByTag.release) = "stale_draft"
           /\ Observe("delete_again", ByTag)
    BY <1>17 DEF ListAfterDelete
  <2>2. CASE Listed /\ ByTag = Nothing /\ Observe("branch_before_create", Nothing)
    BY <1>1, <2>2, LookOwes DEF Observe, Steps, ReadPcs, PublisherInv, Base, PublisherTyped
  <2>3. CASE /\ Listed /\ ByTag # Nothing /\ Classify(ByTag.release) = "stale_draft"
             /\ Observe("delete_again", ByTag)
    BY <1>1, <2>3, LookOwes DEF Observe, Steps, ReadPcs, PublisherInv, Base, PublisherTyped
  <2> QED
    BY <1>3, <2>1, <2>2, <2>3
<1>18. Classify(ByTag.release) = "matching_draft" => ByTag # Nothing
  BY DEF Nothing, NoRelease, Release, Classify
<1>19. CASE ListAfterCreate
  <2>1. \/ Fail
        \/ Listed /\ Classify(ByTag.release) = "matching_draft" /\ Observe("begin_reconcile", ByTag)
    BY <1>19 DEF ListAfterCreate
  <2>2. CASE Listed /\ Classify(ByTag.release) = "matching_draft" /\ Observe("begin_reconcile", ByTag)
    BY <1>1, <1>18, <2>2, LookOwes DEF Observe, Steps, ReadPcs, PublisherInv, Base, PublisherTyped
  <2> QED
    BY <1>3, <2>1, <2>2
<1>20. CASE ListAfterReconcileFailed
  <2>1. \/ Fail
        \/ /\ Listed /\ Classify(ByTag.release) = "matching_draft"
           /\ pc' = "begin_reconcile" /\ obs' = ByTag /\ round' = 2
           /\ UNCHANGED <<dels, ups, result>>
    BY <1>20 DEF ListAfterReconcileFailed
  <2>2. CASE /\ Listed /\ Classify(ByTag.release) = "matching_draft"
             /\ pc' = "begin_reconcile" /\ obs' = ByTag /\ round' = 2
             /\ UNCHANGED <<dels, ups, result>>
    BY <1>1, <1>18, <2>2, LookOwes DEF Steps, ReadPcs
  <2> QED
    BY <1>3, <2>1, <2>2
<1>21. CASE ListAfterReconcile
  <2>1. \/ Fail
        \/ /\ Listed /\ Classify(ByTag.release) = "matching_draft"
           /\ Observe("branch_before_publish", ByTag)
    BY <1>21 DEF ListAfterReconcile
  <2>2. CASE /\ Listed /\ Classify(ByTag.release) = "matching_draft"
             /\ Observe("branch_before_publish", ByTag)
    BY <1>1, <1>18, <1>21, <2>2, LookOwes
       DEF ListAfterReconcile, Observe, Steps, ReadPcs, PublisherInv, Base, PublisherTyped
  <2> QED
    BY <1>3, <2>1, <2>2
<1>22. CASE BeginReconcile
  <2>1. /\ pc = "begin_reconcile" /\ pc' = "reconcile" /\ UNCHANGED <<obs, round, result>>
        /\ dels' = ToDelete(obs.release) /\ ups' = ToUpload(obs.release)
    BY <1>22 DEF BeginReconcile
  <2>2. dels' \subseteq Names /\ ups' \subseteq Planned
    BY <2>1 DEF ToDelete, ToUpload
  <2>3. ~Succeeded' /\ Reported'
    BY <1>1, <2>1, Unfinished DEF Succeeded, Reported
  <2>4. DraftSeen /\ SeenWell'
    BY <1>1, <2>1, WorkedOn DEF Placed, SeenWell, PlanSeen, Deleting, Working, Finished
  <2>5. OwnFew'
    <3>1. Ours' = Ours
      BY <1>1 DEF Ours, Shown, Ids
    <3>2. ~Seeing' /\ pc' \notin Creating
      BY <2>1 DEF Seeing, Creating, Deleting
    <3> QED
      BY <1>1, <2>1, <2>4, <3>1, <3>2 DEF OwnFew, Placed
  <2>6. Local(attempt)' = Local(attempt)
    BY <1>1 DEF Local
  <2>7. Passes'
    BY <2>1, <2>6 DEF Passes, ToDelete, ToUpload, Names, Absent
  <2>8. ASSUME Guarded', obs.id \notin touched
        PROVE  \A n \in Names \ (dels' \cup ups') : Right(obs.id, n)'
    <3>1. Reconciled
      BY <1>1, <2>8 DEF Guarded, Placed
    <3>2. \A n \in Names : obs.release.assets[n] = Local(attempt)[n] => Right(obs.id, n)
      BY <2>1, <2>4, <2>8, <3>1 DEF Reconciled
    <3>3. \A n \in Names \ Planned : Local(attempt)[n] = Absent
      BY <1>1, LocalTyped, LimitsTyped DEF Base, PublisherTyped
    <3>4. \A n \in Names \ (dels' \cup ups') : obs.release.assets[n] = Local(attempt)[n]
      BY <2>1, <3>3 DEF ToDelete, ToUpload
    <3> QED
      BY <1>1, <2>1, <2>6, <3>2, <3>4 DEF Right
  <2>9. Guarded' => Reconciled'
    BY <1>1, <2>1, <2>8 DEF Reconciled, Finished
  <2>10. Placed'
    BY <2>3, <2>4, <2>5, <2>7, <2>9 DEF Placed
  <2> QED
    BY <1>1, <2>1, <2>2, <2>10, ReadOwes DEF Sees, Steps, PublisherInv, Base, PublisherTyped
<1>23. CASE GetPublished
  <2>1. \/ Fail
        \/ /\ Classify(PublishedByTag.release) = "matching_immutable"
           /\ ExactMetadata(PublishedByTag.release)
           /\ Observe("tag_after_publish", PublishedByTag)
    BY <1>23 DEF GetPublished
  <2>2. CASE /\ Classify(PublishedByTag.release) = "matching_immutable"
             /\ ExactMetadata(PublishedByTag.release)
             /\ Observe("tag_after_publish", PublishedByTag)
    <3>1. Classify(NoRelease) # "matching_immutable"
      BY DEF NoRelease, Release, Classify
    <3>2. PICK id \in Shown : PublishedByTag = [id |-> id, release |-> releases[id]]
      BY <2>2, <3>1 DEF PublishedByTag, PublishedIds, Seen, Nothing
    <3>3. /\ id \in Shown' /\ id \in Ids /\ obs' = [id |-> id, release |-> releases'[id]]
          /\ pc' = "tag_after_publish" /\ UNCHANGED <<round, dels, ups, result>>
          /\ releases[id] \in Releases
      BY <1>1, <2>2, <3>2, Each DEF Observe, Shown, Ids
    <3>4. Sees
      BY <3>3 DEF Sees
    <3>5. Frozen(releases[id]) /\ releases[id].assets = Local(attempt)
      BY <2>2, <3>2, <3>3, Classified DEF Frozen, ExactMetadata
    <3>6. Verified'
      BY <1>1, <3>3, <3>5 DEF Verified, Frozen, Local
    <3>7. ~Succeeded' /\ Reported'
      BY <1>1, <3>3, <3>6, Unfinished DEF Succeeded, Reported
    <3>8. SeenWell' /\ OwnFew' /\ Passes' /\ Reconciled'
      BY <3>3 DEF SeenWell, OwnFew, Passes, Reconciled, Seeing, DraftSeen, Deleting, Creating,
                  Working, Finished
    <3>9. Placed'
      BY <3>7, <3>8 DEF Placed
    <3> QED
      BY <1>1, <3>3, <3>4, <3>9, ReadOwes DEF Steps, ReadPcs, PublisherInv, Base, PublisherTyped
  <2> QED
    BY <1>3, <2>1, <2>2
<1> QED
  BY <1>5, <1>6, <1>7, <1>8, <1>9, <1>10, <1>11, <1>12, <1>13, <1>14, <1>15, <1>16, <1>17, <1>19,
     <1>20, <1>21, <1>22, <1>23 DEF Reading

(* Writing.                                                                *)
LEMMA WritingOwes ==
  ASSUME PublisherInv, Writing
  PROVE  Owes
<1>1. /\ Base /\ Placed /\ dels \subseteq Names /\ ups \subseteq Planned /\ round \in {1, 2}
  BY DEF PublisherInv, Base, PublisherTyped
<1>2. CASE DeleteStale \/ DeleteAgain
  <2> DEFINE q == Request("delete_release", obs.id, NoName, Absent)
  <2>1. /\ pc \in {"delete", "delete_again"} /\ Meant(q) /\ q.op = "delete_release"
    BY <1>1, <1>2, DeleteMeant DEF DeleteStale, DeleteAgain, Request
  <2>2. \/ Answered(q) /\ (\/ pc = "delete" /\ Goto("branch_before_create")
                           \/ pc = "delete_again" /\ Goto("list_after_second_delete"))
        \/ Unanswered(q) /\ Goto("list_after_delete")
        \/ Unanswered(q) /\ Fail
    BY <1>2 DEF DeleteStale, DeleteAgain
  <2> HIDE DEF q
  <2>3. Placed'
    <3>1. CASE Unanswered(q) /\ Fail
      BY <3>1, Ended DEF Fail, End, Succeeded, Plain
    <3>2. CASE ~(Unanswered(q) /\ Fail)
      BY <1>1, <2>1, <2>2, <3>2, DeletePlaced DEF q
    <3> QED
      BY <3>1, <3>2
  <2>4. /\ UNCHANGED <<obs, round, dels, ups>> /\ result' \in {result, "failed"}
        /\ pc' \in {"branch_before_create", "list_after_second_delete", "list_after_delete", "idle"}
        /\ Answered(q) \/ Unanswered(q)
    BY <2>2 DEF Goto, Fail, End
  <2> QED
    BY <1>1, <2>1, <2>3, <2>4, WriteOwes DEF Sees, Steps, ReadPcs
<1>3. CASE Create
  <2> DEFINE q == Request("create", 0, NoName, Absent)
  <2>1. /\ pc = "create" /\ Meant(q)
    BY <1>1, <1>3, CreateMeant DEF Create
  <2>2. \/ /\ Answered(q)
           /\ Observe("begin_reconcile", [id |-> made', release |-> releases'[made']])
        \/ Unanswered(q) /\ Goto("list_after_create")
    BY <1>3 DEF Create
  <2> HIDE DEF q
  <2>3. Sees /\ Placed'
    <3>1. CASE Unanswered(q) /\ Goto("list_after_create")
      BY <1>1, <2>1, <3>1, Ended, Unfinished DEF Goto, Succeeded, Plain, Sees
    <3>2. CASE Answered(q) /\ Observe("begin_reconcile", [id |-> made', release |-> releases'[made']])
      BY <1>1, <2>1, <3>2, CreatePlaced DEF q
    <3> QED
      BY <2>2, <3>1, <3>2
  <2>4. /\ UNCHANGED <<round, dels, ups, result>> /\ pc' \in {"begin_reconcile", "list_after_create"}
        /\ Answered(q) \/ Unanswered(q)
    BY <2>2 DEF Goto, Observe
  <2> QED
    BY <1>1, <2>1, <2>3, <2>4, WriteOwes DEF Steps, ReadPcs
<1>4. ASSUME pc = "reconcile", NEW q, q.op \in {"delete_asset", "upload"}, q.id = obs.id,
             q.name \in Names, Meant(q),
             q.op = "delete_asset" => q.name \in dels, q.op = "upload" => dels = {},
             q.op = "upload" => q.content = Local(attempt)[q.name],
             \/ /\ Answered(q) /\ UNCHANGED <<pc, obs, round, result>>
                /\ q.op = "delete_asset" => dels' = dels \ {q.name} /\ ups' = ups
                /\ q.op = "upload" => ups' = ups \ {q.name} /\ dels' = dels
             \/ Unanswered(q) /\ ReconcileFailed
      PROVE  Owes
  <2>1. CASE Unanswered(q) /\ ReconcileFailed
    <3>1. Placed' /\ UNCHANGED <<obs, round, dels, ups>>
          /\ pc' \in {"idle", "list_after_reconcile_failed"} /\ result' \in {result, "failed"}
      BY <1>1, <1>4, <2>1, FailedPlaced
    <3> QED
      BY <1>1, <1>4, <2>1, <3>1, WriteOwes DEF Sees, Steps, ReadPcs
  <2>2. CASE ~(Unanswered(q) /\ ReconcileFailed)
    <3>1. /\ Answered(q) /\ UNCHANGED <<pc, obs, round, result>>
          /\ q.op = "delete_asset" => dels' = dels \ {q.name} /\ ups' = ups
          /\ q.op = "upload" => ups' = ups \ {q.name} /\ dels' = dels
      BY <1>4, <2>2
    <3>2. Placed'
      BY <1>1, <1>4, <3>1, AssetPlaced
    <3>3. dels' \subseteq Names /\ ups' \subseteq Planned
      BY <1>1, <1>4, <3>1
    <3> QED
      BY <1>1, <1>4, <3>1, <3>2, <3>3, WriteOwes DEF Sees, Steps, ReadPcs
  <2> QED
    BY <2>1, <2>2
<1>5. CASE DeleteAsset
  <2>1. PICK n \in dels :
          LET q == Request("delete_asset", obs.id, n, obs.release.assets[n])
          IN \/ /\ Answered(q)
                /\ dels' = dels \ {n}
                /\ UNCHANGED <<pc, obs, round, ups, result>>
             \/ Unanswered(q) /\ ReconcileFailed
    BY <1>5 DEF DeleteAsset
  <2> DEFINE q == Request("delete_asset", obs.id, n, obs.release.assets[n])
  <2>2. /\ pc = "reconcile" /\ q.op = "delete_asset" /\ q.id = obs.id /\ q.name = n /\ Meant(q)
    BY <1>1, <1>5, DeleteAssetMeant DEF DeleteAsset, Request
  <2>3. \/ /\ Answered(q) /\ UNCHANGED <<pc, obs, round, result>>
           /\ dels' = dels \ {n} /\ ups' = ups
        \/ Unanswered(q) /\ ReconcileFailed
    BY <2>1
  <2> HIDE DEF q
  <2> QED
    BY <1>1, <1>4, <2>2, <2>3
<1>6. CASE Upload
  <2>1. PICK n \in ups :
          LET q == Request("upload", obs.id, n, Local(attempt)[n])
          IN \/ /\ Answered(q)
                /\ ups' = ups \ {n}
                /\ UNCHANGED <<pc, obs, round, dels, result>>
             \/ Unanswered(q) /\ ReconcileFailed
    BY <1>6 DEF Upload
  <2> DEFINE q == Request("upload", obs.id, n, Local(attempt)[n])
  <2>2. /\ pc = "reconcile" /\ dels = {} /\ q.op = "upload" /\ q.id = obs.id /\ q.name = n /\ Meant(q)
        /\ q.content = Local(attempt)[n]
    BY <1>1, <1>6, UploadMeant DEF Upload, Request
  <2>3. \/ /\ Answered(q) /\ UNCHANGED <<pc, obs, round, result>>
           /\ dels' = dels /\ ups' = ups \ {n}
        \/ Unanswered(q) /\ ReconcileFailed
    BY <2>1
  <2> HIDE DEF q
  <2> QED
    BY <1>1, <1>4, <2>2, <2>3 DEF Names
<1>7. CASE Publish
  <2> DEFINE q == Request("publish", obs.id, NoName, Absent)
  <2>1. /\ pc = "publish" /\ Meant(q) /\ q.op = "publish"
    BY <1>1, <1>7, PublishMeant DEF Publish, Request
  <2>2. /\ Answered(q) \/ Unanswered(q)
        /\ pc' \in {"get_published", "get_after_publish"}
        /\ UNCHANGED <<obs, round, dels, ups, result>>
    BY <1>7 DEF Publish, Goto
  <2> HIDE DEF q
  <2>3. Placed'
    BY <1>1, <2>1, <2>2, Ended, Unfinished DEF Succeeded, Plain
  <2> QED
    BY <1>1, <2>1, <2>2, <2>3, WriteOwes DEF Sees, Steps, ReadPcs
<1> QED
  BY <1>2, <1>3, <1>5, <1>6, <1>7 DEF Writing

(* The admission check, a request without an answer, the end of the job    *)
(* and its report.                                                         *)
LEMMA CheckOwes ==
  ASSUME PublisherInv, CheckBranch \/ CheckTag \/ CheckUnanswered
  PROVE  Owes
<1>1. /\ pc # "idle" /\ UNCHANGED <<remote, late, setting, outside, attempt, touched>>
      /\ faults' \in 0..setting.faults
  BY LimitsTyped DEF CheckBranch, CheckTag, CheckUnanswered, Fault, Steady, bounds,
     PublisherInv, Base, PublisherTyped
<1>2. \/ pc' \in {"check_tag", "feature"} /\ UNCHANGED <<obs, round, dels, ups, result>>
      \/ End("refused")
  BY DEF CheckBranch, CheckTag, CheckUnanswered, Goto
<1>3. CASE pc' \in {"check_tag", "feature"} /\ UNCHANGED <<obs, round, dels, ups, result>>
  <2>1. Placed'
    BY <1>1, <1>3, Ended, Unfinished DEF Succeeded, Plain, PublisherInv
  <2> QED
    BY <1>1, <1>3, <2>1, ReadOwes DEF Sees, Steps, ReadPcs, PublisherInv, Base, PublisherTyped
<1> QED
  BY <1>1, <1>2, <1>3, FailOwes

(* A read without an answer, and a kill.                                   *)
LEMMA StopOwes ==
  ASSUME PublisherInv, ReadUnanswered \/ Killed
  PROVE  Owes
<1>1. /\ pc # "idle" /\ UNCHANGED <<remote, late, setting, outside, attempt, touched>>
      /\ faults' \in 0..setting.faults /\ End("failed")
  BY LimitsTyped DEF ReadUnanswered, Killed, Fault, Steady, Fail, ReadPcs,
     PublisherInv, Base, PublisherTyped
<1> QED
  BY <1>1, FailOwes

(* The report says what was verified.                                      *)
LEMMA ReportOwes ==
  ASSUME PublisherInv, Report
  PROVE  Owes
<1>1. /\ pc \in {"report_known", "report_new"}
      /\ UNCHANGED <<remote, late, setting, outside, attempt, touched>>
      /\ faults' \in 0..setting.faults
      /\ \/ End("failed")
         \/ End("already") \/ End("published")
  BY LimitsTyped DEF Report, Fault, Steady, Fail, bounds, PublisherInv, Base, PublisherTyped
<1>2. CASE End("failed")
  BY <1>1, <1>2, FailOwes
<1>3. CASE End("already") \/ End("published")
  <2>1. /\ pc' = "idle" /\ result' \in {"already", "published"}
        /\ UNCHANGED <<obs, round, dels, ups>>
    BY <1>3 DEF End
  <2>2. Verified /\ tag = "candidate"
    BY <1>1 DEF PublisherInv, Placed, Reported
  <2>3. obs.id \in Ids /\ releases[obs.id] = obs.release /\ obs.release \in Releases
    BY <2>2 DEF Verified, PublisherInv, Base, PublisherTyped
  <2>4. Whole(obs.id, attempt)
    BY <2>2, <2>3 DEF Whole, Verified, Frozen, Releases
  <2>5. tag' = "candidate" /\ Whole(obs.id, attempt)'
    BY <1>1, <2>1, <2>2, <2>4 DEF Whole, Local, remote
  <2>6. SuccessIsExact'
    BY <2>1, <2>3, <2>5 DEF SuccessIsExact, Ids
  <2>7. Placed'
    BY <2>1, <2>6, Ended DEF Plain
  <2> QED
    BY <1>1, <2>1, <2>7, ReadOwes DEF Sees, Steps, PublisherInv, Base, PublisherTyped
<1> QED
  BY <1>1, <1>2, <1>3

(* What the publisher knows stays true while others act, and while a late  *)
(* request is applied.                                                     *)
LEMMA Stays ==
  ASSUME Base, Placed, Permitted, UNCHANGED <<pc, obs, dels, ups, result>>,
         ~setting.late =>
            /\ Ours' \subseteq Ours /\ outside' # 0
            /\ \A id \in Shown \ touched' : releases'[id] = releases[id]
  PROVE  Placed'
<1>1. /\ UNCHANGED <<setting, attempt>> /\ touched \subseteq touched'
      /\ tag # "none" => tag' = tag
      /\ \A id \in Ids : PermittedAt(id)
      /\ Local(attempt)' = Local(attempt)
  BY DEF Permitted, Local
<1>2. Reported'
  <2>1. Verified' <=> Verified
    BY <1>1 DEF Verified, Frozen
  <2>2. Succeeded => SuccessIsExact'
    <3>1. ASSUME Succeeded PROVE SuccessIsExact'
      <4>1. tag = "candidate" /\ \E id \in Ids : Whole(id, attempt)
        BY <3>1 DEF Placed, Reported, SuccessIsExact
      <4>2. PICK id \in Ids : Whole(id, attempt)
        BY <4>1
      <4>3. releases'[id] = releases[id]
        BY <1>1, <4>2 DEF PermittedAt, Frozen, Whole
      <4>4. Whole(id, attempt)'
        BY <1>1, <4>2, <4>3 DEF Whole
      <4> QED
        BY <1>1, <4>1, <4>4 DEF SuccessIsExact, Ids
    <3> QED
      BY <3>1
  <2> QED
    BY <1>1, <2>1, <2>2 DEF Placed, Reported, Succeeded
<1>3. SeenWell' /\ Passes'
  BY <1>1 DEF Placed, SeenWell, Passes, StaleSeen, PlanSeen, Ids
<1>4. DraftSeen => obs.id \in Chosen /\ obs.id \in Ids
  BY DEF DraftSeen, Placed, SeenWell, PlanSeen, Chosen, Base, PublisherTyped, Nothing, NoRelease,
         Release, Ids
<1>5. OwnFew'
  <2>1. ASSUME DraftSeen, ~setting.late, obs.id \notin touched'
        PROVE  releases'[obs.id].state = "draft"
    <3>1. obs.id \in Shown /\ releases[obs.id].state = "draft"
      BY <1>1, <1>4, <2>1 DEF Base, Aimed, ChosenIsPlanned, Placed, OwnFew
    <3> QED
      BY <2>1, <3>1
  <2>2. (Seeing' <=> Seeing) /\ (DraftSeen' <=> DraftSeen)
    BY DEF Seeing, DraftSeen, StaleSeen, PlanSeen
  <2> QED
    BY <1>1, <2>1, <2>2 DEF Placed, OwnFew
<1>6. ASSUME Guarded' PROVE Reconciled'
  <2>1. Guarded /\ (DraftSeen' <=> DraftSeen)
    BY <1>1, <1>6 DEF Guarded, DraftSeen, PlanSeen
  <2>2. ASSUME DraftSeen, obs.id \notin touched'
        PROVE  \A n \in Names : Right(obs.id, n) => releases'[obs.id].assets[n] = Local(attempt)[n]
    <3>1. obs.id \in Shown'
      BY <1>1, <1>4, <2>2 DEF PermittedAt, PlanOnly
    <3> QED
      BY <1>1, <1>4, <1>6, <2>2, <3>1 DEF PermittedAt, Right
  <2>3. Reconciled
    BY <2>1 DEF Placed
  <2> QED
    BY <1>1, <2>1, <2>2, <2>3 DEF Reconciled, Right
<1> QED
  BY <1>2, <1>3, <1>5, <1>6 DEF Placed

(* A late request is applied.                                              *)
LEMMA LandOwes ==
  ASSUME PublisherInv, Land
  PROVE  Owes
<1>1. PICK q \in late : Accepts(q) /\ Apply(q) /\ late' = late \ {q}
  BY DEF Land
<1>2. /\ UNCHANGED <<pc, attempt, obs, round, dels, ups, result, touched, setting, faults, outside>>
  BY DEF Land, bounds
<1>3. Base /\ Placed /\ setting.late /\ q \in late /\ Formed(q) /\ attempt # 0
  BY <1>1 DEF PublisherInv, Base, LateTyped, PublisherTyped
<1>4. Meant(q)
  BY <1>3 DEF Meant, Doomed, Chosen, Base, LateRight, WorkOps, Formed
<1>5. Permitted
  BY <1>1, <1>2, <1>3, <1>4, Applied
<1>6. Placed'
  BY <1>2, <1>3, <1>5, Stays
<1>7. FewShown'
  BY <1>2, <1>3 DEF FewShown
<1>8. Walks
  BY <1>2, <1>3 DEF Walks, PublisherInv, Base, PublisherTyped
<1> QED
  BY <1>1, <1>2, <1>5, <1>6, <1>7, <1>8 DEF Owes, Sees, Sends

(* Other people act.                                                       *)
LEMMA PeopleOwe ==
  ASSUME PublisherInv, People
  PROVE  Owes
<1>1. /\ UNCHANGED <<late, pc, attempt, obs, round, dels, ups, result, setting, faults>>
      /\ outside' \in 0..setting.outside
  BY LimitsTyped DEF People, Act, MoveBranch, MakeTag, SwitchOff, WriteRelease, EditDraft,
     PublishDraft, PublisherInv, Base, PublisherTyped
<1>2. /\ Permitted /\ Ours' \subseteq Ours /\ outside' # 0
      /\ \A id \in Shown \ touched' : releases'[id] = releases[id]
  BY PeopleChange DEF PublisherInv
<1>3. Placed'
  BY <1>1, <1>2, Stays DEF PublisherInv
<1>4. FewShown'
  BY <1>2 DEF FewShown
<1>5. Walks
  BY <1>1 DEF Walks, PublisherInv, Base, PublisherTyped
<1> QED
  BY <1>1, <1>2, <1>3, <1>4, <1>5 DEF Owes, Sees, Sends

(* An attempt starts: it knows nothing, and its files are of a later       *)
(* number.                                                                 *)
LEMMA StartKeeps ==
  ASSUME PublisherInv, Start
  PROVE  PublisherInv'
<1>1. /\ UNCHANGED <<releases, made, tag, branch, feature, late, touched, setting, faults, outside>>
      /\ attempt' = attempt + 1 /\ attempt' \in 0..setting.attempts /\ attempt \in Nat
      /\ pc' \in {"feature", "check_branch"} /\ obs' = Nothing /\ round' = 1 /\ dels' = {} /\ ups' = {}
      /\ result' = "none"
  BY LimitsTyped DEF Start, remote, bounds, PublisherInv, Base, PublisherTyped
<1>2. Contents(attempt) \subseteq Contents(attempt') /\ Releases \subseteq Releases'
  <2>1. Contents(attempt) \subseteq Contents(attempt')
    BY <1>1, ContentsGrow
  <2>2. Releases' = [state : States, owner : Owners, notes : BOOLEAN, immutable : BOOLEAN,
                     assets : [Names -> Contents(attempt')]]
    BY DEF Releases, Contents
  <2> QED
    BY <2>1, <2>2 DEF Releases
<1>3. NoRelease \in Releases /\ NoRelease.state = "none" /\ NoRelease.owner = "human"
      /\ Nothing.id = 0 /\ Nothing.release = NoRelease /\ ~NoRelease.immutable
  BY <1>1, ReleasesTyped DEF PublisherInv, Base, PublisherTyped
<1>4. /\ Shown' = Shown /\ PublishedIds' = PublishedIds
      /\ (Guarded' <=> Guarded) /\ \A a \in Nat : Local(a)' = Local(a)
  BY <1>1 DEF Shown, PublishedIds, Ids, Guarded, Local
<1>5. RemoteTyped'
  <2>1. releases' \in [Ids -> Releases']
    BY <1>1, <1>2 DEF PublisherInv, Base, RemoteTyped
  <2> QED
    BY <1>1, <1>4, <2>1 DEF PublisherInv, Base, RemoteTyped, Ids
<1>6. LateTyped'
  <2>1. ASSUME NEW q \in late PROVE Formed(q)'
    <3>1. Formed(q)
      BY DEF PublisherInv, Base, LateTyped
    <3>2. Contents(attempt)' = Contents(attempt')
      BY DEF Contents
    <3> QED
      BY <1>2, <3>1, <3>2 DEF Formed
  <2> QED
    BY <1>1, <2>1 DEF PublisherInv, Base, LateTyped
<1>7. Aimed'
  <2>1. Doomed' \subseteq Doomed /\ Chosen' \subseteq Chosen
    BY <1>1, <1>3 DEF Doomed, Chosen, StaleSeen, PlanSeen, Ids
  <2>2. DoomedIsStale' /\ ChosenIsPlanned'
    BY <1>1, <1>4, <2>1 DEF PublisherInv, Base, Aimed, DoomedIsStale, ChosenIsPlanned
  <2> QED
    BY <1>1, <2>1, <2>2 DEF PublisherInv, Base, Aimed
<1>8. PublisherTyped'
  <2>1. setting \in Settings /\ faults \in 0..setting.faults /\ outside \in 0..setting.outside
    BY DEF PublisherInv, Base, PublisherTyped
  <2>2. obs'.id = 0 /\ obs'.release \in Releases' /\ 0 \in 0..MaxReleases
    BY <1>1, <1>2, <1>3, <2>1, LimitsTyped
  <2>3. pc' \in Steps /\ attempt' # 0
    BY <1>1 DEF Steps, ReadPcs
  <2> QED
    BY <1>1, <2>1, <2>2, <2>3 DEF PublisherTyped, Nothing, NoRelease, Release, NoAssets
<1>9. Frozen(obs.release)' => FALSE
  BY <1>1, <1>3 DEF Frozen
<1>10. ASSUME Guarded' PROVE LateRight'
  <2>1. Guarded /\ LateRight
    BY <1>4, <1>10 DEF PublisherInv, Base
  <2>2. late # {} => setting.remade = {}
    BY <2>1 DEF Guarded, PublisherInv, Base, LateTyped
  <2>3. late # {} => Local(attempt') = Local(attempt)
    BY <2>2, LocalSame
  <2>4. Local(attempt)' = Local(attempt')
    BY <1>1, <1>4
  <2> QED
    BY <1>1, <2>1, <2>3, <2>4 DEF LateRight, Right
<1>11. PublishedIsWhole'
  <2>1. ASSUME Guarded', NEW id \in PublishedIds \ touched, releases[id].owner = "plan"
        PROVE  \E a \in 1..attempt' : releases[id].assets = Local(a)'
    <3>1. PICK a \in 1..attempt : releases[id].assets = Local(a)
      BY <1>4, <2>1 DEF PublisherInv, Base, PublishedIsWhole, Guarded
    <3>2. a \in 1..attempt' /\ a \in Nat
      BY <1>1
    <3> QED
      BY <1>4, <3>1, <3>2
  <2> QED
    BY <1>1, <1>4, <2>1 DEF PublishedIsWhole, Guarded
<1>12. FewShown'
  BY <1>1, <1>4 DEF PublisherInv, FewShown
<1>13. Placed'
  BY <1>1, Ended DEF Succeeded, Plain
<1> QED
  BY <1>5, <1>6, <1>7, <1>8, <1>9, <1>10, <1>11, <1>12, <1>13 DEF PublisherInv, Base

----------------------------------------------------------------------------
(* The theorems.                                                           *)

(* Every step of another kind than a start owes what was listed above.     *)
LEMMA StepOwes ==
  ASSUME PublisherInv, Next
  PROVE  Owes \/ Start
  BY ReadingOwes, WritingOwes, CheckOwes, StopOwes, ReportOwes, LandOwes, PeopleOwe
     DEF Next, Publisher

(* What an earlier plan, or a person, may have left.                       *)
LEMMA InitKeeps ==
  ASSUME Init
  PROVE  PublisherInv
<1>1. /\ setting \in Settings /\ attempt = 0 /\ late = {} /\ pc = "idle" /\ obs = Nothing
      /\ round = 1 /\ dels = {} /\ ups = {} /\ result = "none" /\ touched = {}
      /\ faults = 0 /\ outside = 0 /\ branch = "candidate" /\ feature = TRUE
  BY DEF Init
<1>2. PICK r :
        /\ \/ r = NoRelease \/ r = Drafted("human")
           \/ \E owner \in {"plan", "stale"}, n \in Names, c \in {Absent, Foreign, Original} :
                 r = Release("draft", owner, [NoAssets EXCEPT ![n] = c])
           \/ r = [Release("published", "human", NoAssets) EXCEPT !.immutable = TRUE]
        /\ Found(r)
  BY Zenon DEF Init
<1>3. /\ NoRelease \in Releases /\ NoRelease.state = "none" /\ NoRelease.owner = "human"
      /\ ~NoRelease.immutable
      /\ Drafted("human") \in Releases /\ Drafted("human").state = "draft"
      /\ ~Drafted("human").immutable
      /\ Nothing.id = 0 /\ Nothing.release = NoRelease
  BY <1>1, ReleasesTyped
<1>4. /\ NoAssets \in [Names -> Contents(attempt)]
      /\ {Absent, Foreign, Original} \subseteq Contents(attempt)
  BY <1>1, LocalTyped
<1>5. /\ r \in Releases /\ (r.immutable => r.state = "published")
      /\ r.state = "published" => r.owner = "human"
  <2>1. CASE r = NoRelease \/ r = Drafted("human")
    BY <1>3, <2>1
  <2>2. ASSUME NEW owner \in {"plan", "stale"}, NEW n \in Names,
               NEW c \in {Absent, Foreign, Original},
               r = Release("draft", owner, [NoAssets EXCEPT ![n] = c])
        PROVE  r \in Releases /\ ~r.immutable /\ r.state = "draft"
    <3>1. [NoAssets EXCEPT ![n] = c] \in [Names -> Contents(attempt)]
      BY <1>4
    <3> QED
      BY <2>2, <3>1 DEF Release, Releases, States, Owners
  <2>3. CASE r = [Release("published", "human", NoAssets) EXCEPT !.immutable = TRUE]
    <3>1. r = [state |-> "published", owner |-> "human", notes |-> FALSE, immutable |-> TRUE,
               assets |-> NoAssets]
      BY <2>3 DEF Release
    <3> QED
      BY <1>4, <3>1 DEF Releases, States, Owners
  <2> QED
    BY ONLY <1>2, <2>1, <2>2, <2>3
<1>6. MaxReleases \in Nat \ {0} /\ 1 \in Ids /\ setting.faults \in Nat /\ setting.outside \in Nat
      /\ setting.attempts \in Nat
  BY <1>1, LimitsTyped, SettingsAssumption
<1>7. RemoteTyped
  <2>1. releases \in [Ids -> Releases]
    BY <1>2, <1>3, <1>5 DEF Found
  <2>2. \A id \in Ids : id > made => releases[id] = NoRelease
    BY <1>2 DEF Ids, Found
  <2>3. \A id \in Ids : /\ releases[id].immutable => releases[id].state = "published"
                        /\ releases[id].state = "published" => releases[id].owner # "plan"
    BY <1>2, <1>3, <1>5 DEF Found
  <2>4. made \in 0..MaxReleases
    BY <1>2, <1>6 DEF Found
  <2> QED
    BY <1>1, <1>2, <2>1, <2>2, <2>3, <2>4 DEF RemoteTyped, PublishedIds, Shown, Found
<1>8. Doomed = {} /\ Chosen = {}
  BY <1>1, <1>3 DEF Doomed, Chosen, StaleSeen, PlanSeen
<1>9. Aimed
  BY <1>8 DEF Aimed, DoomedIsStale, ChosenIsPlanned
<1>10. PublisherTyped
  BY <1>1, <1>3, <1>6 DEF PublisherTyped, Steps
<1>11. LateTyped /\ LateRight
  BY <1>1 DEF LateTyped, LateRight
<1>12. ~Frozen(obs.release)
  BY <1>1, <1>3 DEF Frozen
<1>13. PublishedIsWhole
  BY <1>2, <1>3, <1>5 DEF PublishedIsWhole, PublishedIds, Shown, Found
<1>14. FewShown
  BY <1>2, <1>3 DEF FewShown, Shown, Found
<1>15. Placed
  BY <1>1 DEF Placed, Reported, SeenWell, OwnFew, Passes, Reconciled, Seeing, DraftSeen, Deleting,
         Creating, Finished, Working, Succeeded
<1> QED
  BY <1>7, <1>9, <1>10, <1>11, <1>12, <1>13, <1>14, <1>15 DEF PublisherInv, Base

(* A step that changes nothing.                                            *)
LEMMA StutterKeeps ==
  ASSUME PublisherInv, UNCHANGED vars
  PROVE  PublisherInv'
<1>1. UNCHANGED <<remote, setting, attempt, touched, outside, pc, obs, result, round, dels, ups,
                  late, faults>>
  BY DEF vars, remote
<1>2. Permitted /\ FewShown'
  BY <1>1, Untouched, FewSame DEF PublisherInv, remote
<1>3. Sees /\ Sends
  BY <1>1 DEF Sees, Sends
<1>4. Walks
  BY <1>1 DEF Walks, PublisherInv, Base, PublisherTyped
<1>5. Placed'
  <2>1. UNCHANGED <<releases, tag>> /\ Local(attempt)' = Local(attempt)
    BY <1>1 DEF remote, Local
  <2>2. Reported' /\ SeenWell' /\ Passes'
    <3>1. SuccessIsExact => SuccessIsExact'
      BY <1>1, <2>1 DEF SuccessIsExact, Whole, Succeeded, Ids
    <3> QED
      BY <1>1, <2>1, <3>1 DEF PublisherInv, Placed, Reported, SeenWell, Passes, Verified, Frozen,
         Succeeded, StaleSeen, PlanSeen, Ids
  <2>3. OwnFew'
    BY <1>1, <2>1 DEF PublisherInv, Placed, OwnFew, Ours, Shown, Seeing, DraftSeen, StaleSeen,
       PlanSeen, Ids
  <2>4. Guarded' => Reconciled'
    BY <1>1, <2>1 DEF PublisherInv, Placed, Reconciled, Guarded, DraftSeen, PlanSeen, Right
  <2> QED
    BY <2>2, <2>3, <2>4 DEF Placed
<1> QED
  BY <1>2, <1>3, <1>4, <1>5, OwesEnough DEF Owes

(* The invariant holds of all behaviours: what the publisher knows at each *)
(* of its places, and what its late requests may still do.                 *)
THEOREM PublisherKnows == Spec => []PublisherInv
<1>1. Init => PublisherInv
  BY InitKeeps
<1>2. PublisherInv /\ [Next]_vars => PublisherInv'
  BY StepOwes, OwesEnough, StartKeeps, StutterKeeps
<1> QED
  BY <1>1, <1>2, PTL DEF Spec

(* An attempt that reports success leaves the release immutable and exact  *)
(* (publish.rs:284-420), whatever was lost, late or done by others.        *)
THEOREM SuccessMeansPublished == Spec => []SuccessIsExact
<1>1. PublisherInv => SuccessIsExact
  BY DEF PublisherInv, Placed, Reported, SuccessIsExact
<1> QED
  BY <1>1, PublisherKnows, PTL

(* What the tag shows the public is one release, and a whole one.          *)
THEOREM PublicSeesWholeReleases == Spec => []ReleasesSound
<1>1. ASSUME PublisherInv PROVE ReleasesSound
  <2>1. TypeOK
    <3>1. touched \subseteq Ids
      BY <1>1, LimitsTyped DEF PublisherInv, Base, PublisherTyped, RemoteTyped, Ids
    <3> QED
      BY <1>1, <3>1 DEF PublisherInv, Base, PublisherTyped, RemoteTyped, TypeOK, Releases, States,
         Owners
  <2>2. PublishedIsWhole
    BY <1>1 DEF PublisherInv, Base
  <2>3. OneRelease
    <3>1. ASSUME ~setting.late, outside = 0 PROVE Cardinality(Shown) <= 1
      <4>1. CASE Shown = {}
        BY <4>1, FS_EmptySet
      <4>2. CASE Shown # {}
        <5>1. PICK id \in Shown : Shown = {id}
          BY <1>1, <3>1, <4>2 DEF PublisherInv, FewShown
        <5> QED
          BY <5>1, FS_Singleton
      <4> QED
        BY <4>1, <4>2
    <3> QED
      BY <3>1 DEF OneRelease
  <2> QED
    BY <2>1, <2>2, <2>3 DEF ReleasesSound
<1> QED
  BY <1>1, PublisherKnows, PTL

(* No step rewrites an immutable release or the draft of a person, unless  *)
(* others edited it after the publisher looked.                            *)
THEOREM PublisherSparesOthers == Spec => KeepsHumanAndImmutable
<1> DEFINE Spares == \A id \in Shown \ touched' :
                        /\ releases[id].owner = "human" => releases'[id] = releases[id]
                        /\ releases[id].immutable => releases'[id] = releases[id]
<1>1. ASSUME PublisherInv, [Next]_vars PROVE [Spares]_vars
  <2>1. CASE Owes
    BY <1>1, <2>1 DEF Owes, Permitted, PermittedAt, Shown
  <2>2. CASE Start \/ UNCHANGED vars
    BY <2>2 DEF Start, remote, vars
  <2> QED
    BY <1>1, <2>1, <2>2, StepOwes
<1>2. KeepsHumanAndImmutable <=> [][Spares]_vars
  BY DEF KeepsHumanAndImmutable
<1> QED
  BY <1>1, <1>2, PublisherKnows, PTL DEF Spec
----------------------------------------------------------------------------
(* Staging the attestations: what a run has read, and what it has put      *)
(* there.                                                                  *)
ReadSteps == {"resolve", "examine", "open", "inspect", "piece", "recheck", "resolve_again"}
PutSteps == {"create", "write", "link", "unlink", "undo"}
AtTyped ==
    \/ \E s \in ReadSteps : at = <<"read", s>>
    \/ \E p \in {"note", "absent", "roll_back", "refused", "staged"} : at = <<p>>
    \/ \E k \in 1..3 : at = <<"same", k>>
    \/ \E p \in PutSteps, k \in Targets : at = <<p, k>>

Observations == [number : FileNumbers, size : Nat, time : Nat]
Views == [before : Observations, opened : Observations, bytes : Seq(Nat),
          body : Seq(Nat), below : BOOLEAN]
Takes == [number : FileNumbers, bytes : Seq(Nat), body : Seq(Nat), below : BOOLEAN]
ReadsAt(steps) == at[1] = "read" /\ at[2] \in steps

StagingTyped ==
    /\ clock \in Nat /\ moves \in Nat /\ runs \in Nat \ {0} /\ AtTyped
    /\ disk \in [FileNumbers -> [body : Seq(Nat), time : Nat]]
    /\ \A n \in FileNumbers : disk[n].time <= clock
    /\ named \in [SourceNames -> {NoFile} \cup FileNumbers]
    /\ inside \subseteq SourceNames /\ (inside # SourceNames => moves >= 1)
    /\ racy \subseteq FileNumbers
    /\ accepted \in Seq(Takes) /\ (at[1] = "read" => Len(accepted) < 3)
    /\ ReadsAt(ReadSteps \ {"resolve", "examine"}) => seen \in Views
    /\ place \in {1, 2} /\ disturbed \in BOOLEAN /\ stuck \in BOOLEAN

(* The file that is held open: as long as its time is the one noted and it *)
(* was not written twice at one time, it is as it was when it was opened,  *)
(* and so is what was read of it.                                          *)
Undisturbed ==
    LET n == seen.opened.number
    IN disk[n].time = seen.opened.time /\ n \notin racy
FileIsAsSeen ==
    /\ ReadsAt({"open", "inspect"}) => seen.bytes = <<>>
    /\ ReadsAt({"piece", "recheck"}) =>
         /\ seen.opened.size = Len(seen.body)
         /\ disk[seen.opened.number].time >= seen.opened.time
         /\ Undisturbed =>
              /\ disk[seen.opened.number].body = seen.body
              /\ Len(seen.bytes) <= Len(seen.body)
              /\ \A i \in 1..Len(seen.bytes) : seen.bytes[i] = seen.body[i]
WholeOnceRechecked ==
    ReadsAt({"resolve_again"}) => seen.bytes = seen.body \/ seen.opened.number \in racy
BelowOrMoved ==
    ReadsAt(ReadSteps \ {"resolve", "examine", "open"}) =>
        seen.below \/ moves > 1 \/ (moves >= 1 /\ Source \notin inside)
ReadInv == FileIsAsSeen /\ WholeOnceRechecked /\ BelowOrMoved /\ ReadsWhole

(* The names the run has installed are its own, and no two files have one  *)
(* name.                                                                   *)
Own(k) == Entry(place, k, FALSE, runs)
Linking == {k \in Targets : at = <<"unlink", k>> \/ at = <<"undo", k>>}
Early == at[1] \in {"read", "note", "absent"}
EntriesTyped ==
    /\ \A e \in entries : /\ e = Entry(e.dir, e.name, e.temporary, e.by)
                          /\ e.temporary \in BOOLEAN /\ e.by \in 0..runs
    /\ \A e, f \in entries :
         ~e.temporary /\ ~f.temporary /\ e.dir = f.dir /\ e.name = f.name => e = f
    /\ Early => installed = {} /\ \A e \in entries : e.by # runs
Counted ==
    /\ installed \subseteq Targets
    /\ at[1] \in {"same", "create", "write", "link", "unlink", "undo"} => installed = 1..(at[2] - 1)
    /\ at[1] = "staged" => installed = Targets
StillThere ==
    ~disturbed =>
        /\ at[1] \notin {"read", "note", "refused", "staged"} => noted = place
        /\ \A k \in installed \cup Linking : Own(k) \in entries
TakenBack ==
    ~disturbed /\ ~stuck =>
        /\ \A e \in entries : e.by = runs /\ ~e.temporary =>
             \E k \in installed \cup Linking : e = Own(k)
        /\ at = <<"refused">> => installed = {}
PutInv == EntriesTyped /\ Counted /\ StillThere /\ TakenBack

StagingInv == StagingTyped /\ ReadInv /\ PutInv

(* Where the run is.                                                       *)
LEMMA AtParts ==
  ASSUME AtTyped
  PROVE  /\ at[1] \in {"read", "note", "absent", "roll_back", "refused", "staged", "same"}
                        \cup PutSteps
         /\ at[1] = "read" => at[2] \in ReadSteps /\ at = <<"read", at[2]>>
         /\ at[1] = "refused" => at = <<"refused">>
         /\ at[1] = "same" => at[2] \in 1..3
         /\ at[1] \in PutSteps => at[2] \in Targets /\ at = <<at[1], at[2]>>
         /\ at # <<"refused">> => at[1] # "refused"
<1>1. CASE \E s \in ReadSteps : at = <<"read", s>>
  BY <1>1 DEF ReadSteps, PutSteps
<1>2. CASE \E p \in {"note", "absent", "roll_back", "refused", "staged"} : at = <<p>>
  BY <1>2 DEF PutSteps
<1>3. CASE \E k \in 1..3 : at = <<"same", k>>
  BY <1>3 DEF PutSteps
<1>4. CASE \E p \in PutSteps, k \in Targets : at = <<p, k>>
  BY <1>4 DEF PutSteps
<1> QED
  BY <1>1, <1>2, <1>3, <1>4 DEF AtTyped

(* The files a run finds at first.                                         *)
LEMMA FreshTyped ==
  /\ FreshDisk \in [FileNumbers -> [body : Seq(Nat), time : Nat]]
  /\ \A n \in FileNumbers : FreshDisk[n].time = 0
  /\ FreshNames \in [SourceNames -> {NoFile} \cup FileNumbers]
  /\ Len(Sources) = 3 /\ \A i \in 1..3 : Sources[i] \in SourceNames
<1>1. [i \in 1..MaxPieces |-> 0] \in Seq(Nat)
  BY StagingAssumption, IsASeq
<1>2. \A s \in SourceNames : \E i \in 1..3 : Sources[i] = s
  BY DEF SourceNames
<1>3. \A s \in SourceNames : FreshNames[s] \in 1..3
  BY <1>2 DEF FreshNames
<1>4. Len(Sources) = 3
  BY DEF Sources
<1> QED
  BY <1>1, <1>3, <1>4 DEF FreshDisk, FreshNames, FileNumbers, NoFile, SourceNames

(* A body is written over, added to or cut.                                *)
LEMMA WrittenTyped ==
  ASSUME NEW body \in Seq(Nat), NEW new, Len(new) >= 1,
         \/ \E i \in DOMAIN body : new = [body EXCEPT ![i] = 1]
         \/ new = Append(body, 1) \/ new = SubSeq(body, 1, Len(body) - 1)
  PROVE  new \in Seq(Nat)
<1>1. CASE \E i \in DOMAIN body : new = [body EXCEPT ![i] = 1]
  BY <1>1, ExceptSeq
<1>2. CASE new = Append(body, 1)
  BY <1>2
<1>3. CASE new = SubSeq(body, 1, Len(body) - 1)
  <2>1. CASE Len(body) >= 1
    BY <1>3, <2>1, SubSeqProperties
  <2>2. CASE Len(body) = 0
    <3>1. body = <<>>
      BY <2>2, EmptySeq
    <3> QED
      BY <1>3, <3>1, SubSeqEmpty, <2>2
  <2> QED
    BY <2>1, <2>2
<1> QED
  BY <1>1, <1>2, <1>3

(* While a run reads it has installed nothing, and when it is refused it   *)
(* has nothing to take back.                                               *)
LEMMA ReadKeepsPut ==
  ASSUME StagingTyped, PutInv, AtTyped', at[1] = "read", at'[1] \in {"read", "note", "refused"},
         UNCHANGED <<targetVars, installVars, runs>>
  PROVE  PutInv'
<1>1. /\ UNCHANGED <<place, entries, disturbed, noted, installed, stuck, runs>>
      /\ installed = {} /\ \A e \in entries : e.by # runs
  BY DEF targetVars, installVars, PutInv, EntriesTyped, Early
<1>2. Linking' = {}
  BY AtParts DEF Linking, StagingTyped
<1>3. EntriesTyped'
  BY <1>1 DEF PutInv, EntriesTyped, Entry
<1>4. Counted'
  BY <1>1 DEF Counted
<1>5. StillThere'
  BY <1>1, <1>2 DEF StillThere
<1>6. TakenBack'
  BY <1>1, <1>2 DEF TakenBack
<1> QED
  BY <1>3, <1>4, <1>5, <1>6 DEF PutInv

(* Reading one source.                                                     *)
LEMMA ReadingKeeps ==
  ASSUME StagingInv, ReadStep
  PROVE  StagingInv'
<1>1. /\ UNCHANGED <<clock, disk, named, inside, moves, racy, runs, place, disturbed, stuck>>
      /\ UNCHANGED <<targetVars, installVars, runs>> /\ at[1] = "read"
  BY DEF ReadStep, Resolve, Examine, Open, Inspect, ReadPiece, Recheck, Accept, KeepRest, AtRead,
         sourceVars, targetVars, installVars
<1>2. /\ clock \in Nat /\ moves \in Nat /\ accepted \in Seq(Takes) /\ Len(accepted) < 3
      /\ disk \in [FileNumbers -> [body : Seq(Nat), time : Nat]]
      /\ named \in [SourceNames -> {NoFile} \cup FileNumbers] /\ racy \subseteq FileNumbers
      /\ ReadsWhole
  BY <1>1 DEF StagingInv, StagingTyped, ReadInv
<1>3. Len(accepted) + 1 \in 1..3 /\ Source \in SourceNames
  <2>1. Len(accepted) \in Nat
    BY <1>2
  <2>2. Len(accepted) + 1 \in 1..3
    BY <1>2, <2>1
  <2> QED
    BY <2>2, FreshTyped DEF Source
<1>4. NoFile \notin FileNumbers
  BY DEF NoFile, FileNumbers
<1>5. \A n \in FileNumbers : /\ Observed(n) \in Observations
                             /\ Observed(n).number = n /\ Observed(n).time = disk[n].time
                             /\ Observed(n).size = Len(disk[n].body)
                             /\ disk[n].body \in Seq(Nat) /\ disk[n].time \in Nat
                             /\ Len(disk[n].body) \in Nat
  BY <1>2 DEF Observed, Observations
<1>6. ReadsAt(ReadSteps \ {"resolve", "examine"}) => seen \in Views
  BY DEF StagingInv, StagingTyped
<1> DEFINE Going == /\ AtTyped' /\ at'[1] \in {"read", "note", "refused"}
                    /\ accepted' \in Seq(Takes) /\ (at'[1] = "read" => Len(accepted') < 3)
                    /\ (ReadsAt(ReadSteps \ {"resolve", "examine"}) => seen \in Views)'
                    /\ ReadInv'
<1>7. Going => StagingInv'
  BY <1>1, ReadKeepsPut DEF StagingInv, StagingTyped
<1>8. ASSUME at' = <<"refused">>, UNCHANGED accepted PROVE Going
  <2>1. AtTyped' /\ at'[1] = "refused"
    BY <1>8 DEF AtTyped
  <2>2. ReadInv'
    BY <1>1, <1>2, <1>8, <2>1 DEF ReadInv, FileIsAsSeen, WholeOnceRechecked, BelowOrMoved, ReadsAt,
       ReadsWhole
  <2> QED
    BY <1>2, <1>8, <2>1, <2>2 DEF ReadsAt
<1>9. ASSUME NEW s \in ReadSteps, at' = <<"read", s>>, UNCHANGED accepted,
             s \notin {"resolve", "examine"} => seen' \in Views,
             s \in {"open", "inspect"} => seen'.bytes = <<>>,
             s \in {"piece", "recheck"} => FileIsAsSeen',
             s = "resolve_again" => seen'.bytes = seen'.body \/ seen'.opened.number \in racy,
             s \in ReadSteps \ {"resolve", "examine", "open"} =>
               seen'.below \/ moves > 1 \/ (moves >= 1 /\ Source \notin inside)
      PROVE  Going
  <2>1. AtTyped' /\ at'[1] = "read" /\ at'[2] = s
    BY <1>9 DEF AtTyped
  <2>2. FileIsAsSeen'
    BY <1>9, <2>1 DEF FileIsAsSeen, ReadsAt
  <2>3. WholeOnceRechecked' /\ BelowOrMoved' /\ ReadsWhole'
    BY <1>1, <1>2, <1>9, <2>1 DEF WholeOnceRechecked, BelowOrMoved, ReadsAt, ReadsWhole, Source
  <2>4. ReadInv'
    BY <2>2, <2>3 DEF ReadInv
  <2>5. (ReadsAt(ReadSteps \ {"resolve", "examine"}) => seen \in Views)'
    BY <1>9, <2>1 DEF ReadsAt
  <2> QED
    BY <1>2, <1>9, <2>1, <2>4, <2>5
<1> HIDE DEF Going
<1>10. CASE Resolve
  <2>1. UNCHANGED accepted /\ (at' = <<"read", "examine">> \/ at' = <<"refused">>)
    BY <1>10 DEF Resolve, readerVars
  <2> QED
    BY <1>7, <1>8, <1>9, <2>1 DEF ReadSteps
<1>11. CASE Examine
  <2>1. CASE at' = <<"refused">>
    BY <1>7, <1>8, <1>11, <2>1 DEF Examine
  <2>2. CASE at' # <<"refused">>
    <3> DEFINE n == named[Source]
    <3>1. /\ n \in FileNumbers /\ at' = <<"read", "open">> /\ UNCHANGED accepted
          /\ seen' = [before |-> Observed(n), opened |-> Observed(n), bytes |-> <<>>,
                      body |-> <<>>, below |-> FALSE]
      BY <1>2, <1>3, <1>11, <2>2 DEF Examine, Refuse
    <3>2. seen' \in Views
      BY <1>5, <3>1 DEF Views
    <3> QED
      BY <1>7, <1>9, <3>1, <3>2 DEF ReadSteps
  <2> QED
    BY <2>1, <2>2
<1>12. CASE Open
  <2>1. CASE at' = <<"refused">>
    BY <1>7, <1>8, <1>12, <2>1 DEF Open
  <2>2. CASE at' # <<"refused">>
    <3> DEFINE n == named[Source]
    <3>1. /\ n \in FileNumbers /\ at' = <<"read", "inspect">> /\ UNCHANGED accepted
          /\ seen' = [seen EXCEPT !.opened.number = n, !.below = Source \in inside]
          /\ seen \in Views
      BY <1>2, <1>3, <1>6, <1>12, <2>2 DEF Open, Refuse, AtRead, ReadsAt, ReadSteps
    <3>2. /\ seen' \in Views /\ (seen'.below <=> Source \in inside)
          /\ seen'.bytes = seen.bytes
      <4>1. [seen.opened EXCEPT !.number = n] \in Observations
        BY <3>1 DEF Views, Observations
      <4> DEFINE b == Source \in inside
                 o == [seen.opened EXCEPT !.number = n]
      <4>2. seen' = [seen EXCEPT !.opened = o, !.below = b] /\ b \in BOOLEAN /\ o \in Observations
        BY <3>1, <4>1
      <4>3. seen \in Views
        BY <3>1
      <4>4. b <=> Source \in inside
        OBVIOUS
      <4> HIDE DEF n, b, o
      <4>5. seen' \in Views /\ seen'.below = b /\ seen'.bytes = seen.bytes
        BY ONLY <4>2, <4>3 DEF Views
      <4> QED
        BY <4>4, <4>5
    <3>4. seen.bytes = <<>>
      BY <1>12 DEF Open, AtRead, StagingInv, ReadInv, FileIsAsSeen, ReadsAt
    <3>3. Source \notin inside => moves >= 1
      BY <1>3 DEF StagingInv, StagingTyped
    <3> QED
      BY <1>7, <1>9, <3>1, <3>2, <3>3, <3>4 DEF ReadSteps
  <2> QED
    BY <2>1, <2>2
<1>13. ASSUME at[2] \in {"inspect", "piece", "recheck", "resolve_again"}
       PROVE  /\ seen \in Views /\ seen.opened.number \in FileNumbers
              /\ seen.below \/ moves > 1 \/ (moves >= 1 /\ Source \notin inside)
  <2>1. seen \in Views
    BY <1>1, <1>6, <1>13 DEF ReadsAt, ReadSteps
  <2>2. seen.below \/ moves > 1 \/ (moves >= 1 /\ Source \notin inside)
    BY <1>1, <1>13 DEF StagingInv, ReadInv, BelowOrMoved, ReadsAt, ReadSteps
  <2> QED
    BY <2>1, <2>2 DEF Views, Observations
<1>14. CASE Inspect
  <2>1. CASE at' = <<"refused">>
    BY <1>7, <1>8, <1>14, <2>1 DEF Inspect
  <2>2. CASE at' # <<"refused">>
    <3> DEFINE n == seen.opened.number
    <3>1. at[2] = "inspect"
      BY <1>14 DEF Inspect, AtRead
    <3>2. seen \in Views /\ n \in FileNumbers
      BY <1>13, <3>1
    <3>3. /\ at' = <<"read", "piece">> /\ UNCHANGED accepted
          /\ seen' = [seen EXCEPT !.opened = Observed(n), !.body = disk[Observed(n).number].body]
      BY <1>14, <2>2 DEF Inspect, Refuse
    <3>4. /\ seen' \in Views /\ seen'.opened = Observed(n) /\ seen'.body = disk[n].body
          /\ seen'.bytes = seen.bytes /\ (seen'.below <=> seen.below)
      <4> DEFINE o == Observed(n)
                 b == disk[o.number].body
      <4>1. o \in Observations /\ b \in Seq(Nat) /\ b = disk[n].body
        BY <1>5, <3>2
      <4>2. seen' = [seen EXCEPT !.opened = o, !.body = b] /\ seen \in Views
        BY <3>2, <3>3
      <4>3. o = Observed(n)
        OBVIOUS
      <4> HIDE DEF o, b
      <4>4. /\ seen' \in Views /\ seen'.opened = o /\ seen'.body = b
            /\ seen'.bytes = seen.bytes /\ (seen'.below <=> seen.below)
        BY ONLY <4>1, <4>2 DEF Views
      <4> QED
        BY ONLY <4>1, <4>3, <4>4
    <3>5. seen.bytes = <<>>
      BY <1>1, <3>1 DEF StagingInv, ReadInv, FileIsAsSeen, ReadsAt
    <3>6. FileIsAsSeen'
      BY <1>1, <1>5, <3>2, <3>3, <3>4, <3>5 DEF FileIsAsSeen, Undisturbed, ReadsAt
    <3>7. seen'.below \/ moves > 1 \/ (moves >= 1 /\ Source \notin inside)
      BY <1>13, <3>1, <3>4
    <3> QED
      BY <1>7, <1>9, <3>3, <3>4, <3>6, <3>7 DEF ReadSteps
  <2> QED
    BY <2>1, <2>2
<1>15. CASE ReadPiece
  <2> DEFINE n == seen.opened.number
             body == disk[n].body
             next == Len(seen.bytes) + 1
  <2>1. at[2] = "piece" /\ seen \in Views /\ n \in FileNumbers
    BY <1>13, <1>15 DEF ReadPiece, AtRead
  <2>2. seen.bytes \in Seq(Nat) /\ Len(seen.bytes) \in Nat /\ seen.body \in Seq(Nat)
        /\ seen.opened.time \in Nat
    BY <2>1 DEF Views, Observations
  <2>3. FileIsAsSeen /\ (seen.below \/ moves > 1 \/ (moves >= 1 /\ Source \notin inside))
    BY <1>13, <2>1 DEF StagingInv, ReadInv
  <2>4. CASE at' = <<"refused">>
    BY <1>7, <1>8, <1>15, <2>4 DEF ReadPiece, KeepRest
  <2>5. CASE at' = <<"read", "recheck">> /\ UNCHANGED <<seen, accepted>>
    <3>1. FileIsAsSeen'
      BY <1>1, <2>1, <2>3, <2>5 DEF FileIsAsSeen, Undisturbed, ReadsAt
    <3> QED
      BY <1>7, <1>9, <2>1, <2>3, <2>5, <3>1 DEF ReadSteps
  <2>6. CASE /\ next <= Len(body) /\ UNCHANGED <<at, accepted>>
             /\ seen' = [seen EXCEPT !.bytes = Append(seen.bytes, body[next])]
    <3>1. body \in Seq(Nat) /\ next \in 1..Len(body)
      BY <1>5, <2>1, <2>2, <2>6
    <3>2. body[next] \in Nat
      BY <3>1, ElementOfSeq
    <3>3. /\ Append(seen.bytes, body[next]) \in Seq(Nat)
          /\ Len(Append(seen.bytes, body[next])) = next
          /\ \A i \in 1..Len(seen.bytes) : Append(seen.bytes, body[next])[i] = seen.bytes[i]
          /\ Append(seen.bytes, body[next])[next] = body[next]
      BY <2>2, <3>2, AppendProperties
    <3>4. /\ seen' \in Views /\ seen'.bytes = Append(seen.bytes, body[next])
          /\ seen'.opened = seen.opened /\ seen'.body = seen.body /\ (seen'.below <=> seen.below)
      BY <2>1, <2>6, <3>3 DEF Views
    <3>5. ASSUME Undisturbed
          PROVE  /\ body = seen.body /\ next <= Len(seen.body)
                 /\ \A i \in 1..next : Append(seen.bytes, body[next])[i] = seen.body[i]
      <4>1. /\ body = seen.body /\ \A i \in 1..Len(seen.bytes) : seen.bytes[i] = seen.body[i]
        BY <1>1, <2>1, <2>3, <3>5 DEF FileIsAsSeen, ReadsAt
      <4>2. \A i \in 1..next : i = next \/ i \in 1..Len(seen.bytes)
        BY <2>2
      <4> QED
        BY <2>6, <3>3, <4>1, <4>2
    <3>6. Undisturbed' <=> Undisturbed
      BY <1>1, <3>4 DEF Undisturbed
    <3>8. at' = <<"read", "piece">>
      BY <1>15, <2>6 DEF ReadPiece, AtRead
    <3>7. FileIsAsSeen'
      <4>1. seen.opened.size = Len(seen.body) /\ disk[n].time >= seen.opened.time
        BY <1>1, <2>1, <2>3 DEF FileIsAsSeen, ReadsAt
      <4>2. /\ seen'.opened.size = Len(seen'.body)
            /\ disk'[seen'.opened.number].time >= seen'.opened.time
        BY <1>1, <3>4, <4>1
      <4>3. Undisturbed' => /\ disk'[seen'.opened.number].body = seen'.body
                            /\ Len(seen'.bytes) <= Len(seen'.body)
                            /\ \A i \in 1..Len(seen'.bytes) : seen'.bytes[i] = seen'.body[i]
        BY <1>1, <3>3, <3>4, <3>5, <3>6
      <4>4. at'[2] = "piece"
        BY <3>8
      <4> QED
        BY <4>2, <4>3, <4>4 DEF FileIsAsSeen, ReadsAt
    <3> QED
      BY <1>7, <1>9, <2>3, <2>6, <3>4, <3>7, <3>8 DEF ReadSteps
  <2> QED
    BY <1>15, <2>4, <2>5, <2>6 DEF ReadPiece
<1>16. CASE Recheck
  <2> DEFINE n == seen.opened.number
  <2>1. at[2] = "recheck" /\ seen \in Views /\ n \in FileNumbers /\ UNCHANGED <<seen, accepted>>
    BY <1>13, <1>16 DEF Recheck, AtRead, readerVars
  <2>2. CASE at' = <<"refused">>
    BY <1>7, <1>8, <2>1, <2>2
  <2>3. CASE /\ at' = <<"read", "resolve_again">> /\ named[Source] # NoFile
             /\ seen.opened = Observed(named[Source]) /\ Len(seen.bytes) = seen.opened.size
    <3>1. named[Source] \in FileNumbers /\ named[Source] = n
      BY <1>2, <1>3, <1>5, <2>3
    <3>2. disk[n].time = seen.opened.time
      BY <1>5, <2>3, <3>1
    <3>3. ASSUME n \notin racy PROVE seen.bytes = seen.body
      <4>1. /\ seen.opened.size = Len(seen.body)
            /\ \A i \in 1..Len(seen.bytes) : seen.bytes[i] = seen.body[i]
        BY <1>1, <2>1, <3>2, <3>3 DEF StagingInv, ReadInv, FileIsAsSeen, Undisturbed, ReadsAt
      <4>2. seen.bytes \in Seq(Nat) /\ seen.body \in Seq(Nat)
        BY <2>1 DEF Views
      <4> QED
        BY <2>3, <4>1, <4>2, SeqEqual
    <3>4. seen.below \/ moves > 1 \/ (moves >= 1 /\ Source \notin inside)
      BY <1>13, <2>1
    <3> QED
      BY <1>7, <1>9, <2>1, <2>3, <3>3, <3>4 DEF ReadSteps
  <2> QED
    BY <1>16, <2>2, <2>3 DEF Recheck, SameObservation
<1>17. CASE Accept
  <2> DEFINE took == [number |-> seen.opened.number, bytes |-> seen.bytes,
                      body |-> seen.body, below |-> seen.below]
  <2>1. at[2] = "resolve_again" /\ seen \in Views
    BY <1>13, <1>17 DEF Accept, AtRead
  <2>2. CASE Refuse /\ UNCHANGED readerVars
    BY <1>7, <1>8, <2>2 DEF Refuse, readerVars
  <2>3. CASE /\ Source = Registry \/ (Source \in inside /\ named[Source] # NoFile)
             /\ accepted' = Append(accepted, took) /\ seen' = <<>>
             /\ at' = IF Len(accepted') = Len(Sources) THEN <<"note">> ELSE <<"read", "resolve">>
    <3>1. took \in Takes /\ (took.bytes = took.body \/ took.number \in racy)
          /\ (Source = Registry \/ took.below \/ moves > 1)
      <4>1. took \in Takes
        BY <2>1 DEF Views, Observations, Takes
      <4>2. took.bytes = took.body \/ took.number \in racy
        BY <1>1, <2>1 DEF StagingInv, ReadInv, WholeOnceRechecked, ReadsAt
      <4>3. Source = Registry \/ took.below \/ moves > 1
        BY <1>13, <2>1, <2>3
      <4> QED
        BY <4>1, <4>2, <4>3
    <3> HIDE DEF took
    <3>2. /\ accepted' \in Seq(Takes) /\ Len(accepted') = Len(accepted) + 1
          /\ \A i \in 1..Len(accepted) : accepted'[i] = accepted[i]
          /\ accepted'[Len(accepted) + 1] = took
      BY <1>2, <2>3, <3>1, AppendProperties
    <3>3. ReadsWhole'
      <4>1. \A i \in DOMAIN accepted' : i \in DOMAIN accepted \/ i = Len(accepted) + 1
        BY <1>2, <3>2
      <4>2. \A i \in DOMAIN accepted : accepted'[i] = accepted[i]
        BY <1>2, <3>2
      <4> QED
        BY <1>1, <1>2, <3>1, <3>2, <4>1, <4>2 DEF ReadsWhole, Source
    <3>4. at' = <<"note">> \/ (at' = <<"read", "resolve">> /\ Len(accepted') < 3)
      BY <1>2, <1>3, <2>3, <3>2, FreshTyped
    <3>5. AtTyped' /\ at'[1] \in {"read", "note"} /\ (at'[1] = "read" => at'[2] = "resolve")
          /\ (at'[1] = "read" => Len(accepted') < 3)
      BY <3>4 DEF AtTyped, ReadSteps
    <3>6. ReadInv'
      BY <3>3, <3>5 DEF ReadInv, FileIsAsSeen, WholeOnceRechecked, BelowOrMoved, ReadsAt
    <3> QED
      BY <1>7, <3>2, <3>5, <3>6 DEF Going, ReadsAt
  <2> QED
    BY <1>17, <2>2, <2>3 DEF Accept
<1> QED
  BY <1>10, <1>11, <1>12, <1>14, <1>15, <1>16, <1>17 DEF ReadStep

(* What a run has read stays good while others write the sources: a file   *)
(* that is held open is not replaced, and when it is written its time      *)
(* changes, or it was written twice at one time.                           *)
LEMMA SourcesKeep ==
  ASSUME StagingTyped, ReadInv, UNCHANGED <<seen, accepted, at>>,
         racy \subseteq racy', moves' \in Nat, moves <= moves',
         \A n \in FileNumbers \cap Held :
            \/ disk'[n] = disk[n]
            \/ disk'[n].time = clock /\ (disk[n].time = clock => n \in racy'),
         at[1] = "read" /\ Source \notin inside => Source \notin inside' \/ moves' > moves
  PROVE  ReadInv'
<1>1. /\ disk \in [FileNumbers -> [body : Seq(Nat), time : Nat]] /\ clock \in Nat /\ moves \in Nat
      /\ \A n \in FileNumbers : disk[n].time <= clock
      /\ Source' = Source
  BY DEF StagingTyped, Source
<1>2. FileIsAsSeen'
  <2>1. ASSUME ReadsAt({"piece", "recheck"})
        PROVE  /\ seen.opened.size = Len(seen.body)
               /\ disk'[seen.opened.number].time >= seen.opened.time
               /\ Undisturbed' =>
                    /\ disk'[seen.opened.number].body = seen.body
                    /\ Len(seen.bytes) <= Len(seen.body)
                    /\ \A i \in 1..Len(seen.bytes) : seen.bytes[i] = seen.body[i]
    <3> DEFINE n == seen.opened.number
    <3>1. /\ seen.opened.size = Len(seen.body) /\ disk[n].time >= seen.opened.time
          /\ Undisturbed =>
               /\ disk[n].body = seen.body
               /\ Len(seen.bytes) <= Len(seen.body)
               /\ \A i \in 1..Len(seen.bytes) : seen.bytes[i] = seen.body[i]
      BY <2>1 DEF ReadInv, FileIsAsSeen
    <3>2. seen \in Views
      BY <2>1 DEF StagingTyped, ReadsAt, ReadSteps
    <3>3. n \in FileNumbers \cap Held /\ seen.opened.time \in Nat
      BY <2>1, <3>2 DEF ReadsAt, Held, Views, Observations
    <3>4. disk[n].time \in Nat
      BY <1>1, <3>3
    <3>5. CASE disk'[n] = disk[n]
      BY <3>1, <3>5 DEF Undisturbed
    <3>6. CASE disk'[n].time = clock /\ (disk[n].time = clock => n \in racy')
      <4>1. disk[n].time <= clock
        BY <1>1, <3>3
      <4>2. disk'[n].time >= seen.opened.time
        BY <1>1, <3>1, <3>3, <3>4, <3>6, <4>1
      <4>3. ~Undisturbed'
        <5>1. clock = seen.opened.time => disk[n].time = clock
          BY <1>1, <3>1, <3>3, <3>4, <4>1
        <5> QED
          BY <3>6, <5>1 DEF Undisturbed
      <4> QED
        BY <3>1, <4>2, <4>3
    <3> QED
      BY <3>3, <3>5, <3>6
  <2> QED
    BY <2>1 DEF ReadInv, FileIsAsSeen, ReadsAt
<1>3. WholeOnceRechecked' /\ ReadsWhole'
  BY <1>1 DEF ReadInv, WholeOnceRechecked, ReadsWhole, ReadsAt, StagingTyped
<1>4. BelowOrMoved'
  <2>1. ASSUME ReadsAt(ReadSteps \ {"resolve", "examine", "open"})
        PROVE  seen.below \/ moves' > 1 \/ (moves' >= 1 /\ Source \notin inside')
    <3>1. seen.below \/ moves > 1 \/ (moves >= 1 /\ Source \notin inside)
      BY <2>1 DEF ReadInv, BelowOrMoved
    <3> QED
      BY <1>1, <2>1, <3>1 DEF ReadsAt
  <2> QED
    BY <1>1, <2>1 DEF BelowOrMoved, ReadsAt
<1> QED
  BY <1>2, <1>3, <1>4 DEF ReadInv

(* What was installed does not depend on the sources.                      *)
LEMMA SourcesSparePut ==
  ASSUME PutInv, UNCHANGED <<place, entries, disturbed, noted, installed, stuck, runs, at>>
  PROVE  PutInv'
  BY DEF PutInv, EntriesTyped, Counted, StillThere, TakenBack, Early, Own, Entry, Linking

(* The other steps of the job.                                             *)
LEMMA OthersKeep ==
  ASSUME StagingInv,
         Tick \/ \E s \in SourceNames : WriteInPlace(s) \/ Replace(s) \/ RemoveSource(s) \/ Move(s)
  PROVE  StagingInv'
<1>1. /\ UNCHANGED <<seen, accepted, at, place, entries, disturbed, noted, installed, stuck, runs>>
  BY DEF Tick, WriteInPlace, Replace, RemoveSource, Move, KeepStage, readerVars, installVars,
         targetVars
<1>2. /\ clock \in Nat /\ moves \in Nat /\ runs \in Nat \ {0} /\ AtTyped
      /\ disk \in [FileNumbers -> [body : Seq(Nat), time : Nat]]
      /\ \A n \in FileNumbers : disk[n].time <= clock
      /\ named \in [SourceNames -> {NoFile} \cup FileNumbers]
      /\ inside \subseteq SourceNames /\ (inside # SourceNames => moves >= 1)
      /\ racy \subseteq FileNumbers
      /\ StagingTyped /\ ReadInv
  BY DEF StagingInv, StagingTyped
<1>3. PutInv' /\ AtTyped'
  BY <1>1, <1>2, SourcesSparePut DEF StagingInv, AtTyped
<1>4. ASSUME clock' \in Nat, clock <= clock', moves' \in Nat, moves <= moves',
             disk' \in [FileNumbers -> [body : Seq(Nat), time : Nat]],
             \A n \in FileNumbers : disk'[n].time <= clock',
             named' \in [SourceNames -> {NoFile} \cup FileNumbers],
             inside' \subseteq SourceNames, inside' # SourceNames => moves' >= 1,
             racy \subseteq racy', racy' \subseteq FileNumbers,
             \A n \in FileNumbers \cap Held :
                \/ disk'[n] = disk[n]
                \/ disk'[n].time = clock /\ (disk[n].time = clock => n \in racy'),
             at[1] = "read" /\ Source \notin inside => Source \notin inside' \/ moves' > moves
      PROVE  StagingInv'
  <2>1. ReadInv'
    BY <1>1, <1>2, <1>4, SourcesKeep
  <2>2. StagingTyped'
    BY <1>1, <1>3, <1>4 DEF StagingInv, StagingTyped, ReadsAt
  <2> QED
    BY <1>3, <2>1, <2>2 DEF StagingInv
<1>5. CASE Tick
  <2>1. clock' = clock + 1 /\ UNCHANGED <<disk, named, inside, moves, racy>>
    BY <1>5 DEF Tick
  <2>2. \A n \in FileNumbers : disk[n].time \in Nat
    BY <1>2
  <2> QED
    BY <1>2, <1>4, <2>1, <2>2
<1>6. ASSUME NEW s \in SourceNames, WriteInPlace(s) PROVE StagingInv'
  <2> DEFINE n == named[s]
             body == disk[n].body
  <2>1. n \in FileNumbers /\ UNCHANGED <<clock, named, inside, moves>>
        /\ racy' = IF disk[n].time = clock THEN racy \cup {n} ELSE racy
    BY <1>2, <1>6 DEF WriteInPlace
  <2>2. PICK new \in {[body EXCEPT ![i] = 1] : i \in DOMAIN body}
                     \cup {Append(body, 1)} \cup {SubSeq(body, 1, Len(body) - 1)} :
          /\ Len(new) \in 1..(MaxPieces + 1)
          /\ disk' = [disk EXCEPT ![n] = [body |-> new, time |-> clock]]
    BY <1>6 DEF WriteInPlace
  <2>3. body \in Seq(Nat)
    BY <1>2, <2>1
  <2>4. /\ Len(new) >= 1
        /\ \/ \E i \in DOMAIN body : new = [body EXCEPT ![i] = 1]
           \/ new = Append(body, 1) \/ new = SubSeq(body, 1, Len(body) - 1)
    BY <2>2
  <2> HIDE DEF body, n
  <2>5. new \in Seq(Nat)
    BY <2>3, <2>4, WrittenTyped
  <2>6. /\ disk' \in [FileNumbers -> [body : Seq(Nat), time : Nat]]
        /\ \A m \in FileNumbers : disk'[m] = disk[m] \/ (m = n /\ disk'[m].time = clock)
    BY <1>2, <2>1, <2>2, <2>5
  <2>7. ASSUME NEW m \in FileNumbers PROVE disk'[m].time <= clock
    <3>1. clock \in Nat /\ disk[m].time <= clock
      BY <1>2
    <3>2. disk'[m] = disk[m] \/ disk'[m].time = clock
      BY <2>6
    <3> QED
      BY ONLY <3>1, <3>2
  <2> QED
    BY <1>2, <1>4, <2>1, <2>6, <2>7
<1>7. ASSUME NEW s \in SourceNames, Replace(s) PROVE StagingInv'
  <2>1. UNCHANGED <<clock, inside, moves, racy>>
    BY <1>7 DEF Replace
  <2>2. PICK n \in FileNumbers \ ({named[r] : r \in SourceNames} \cup Held), t \in 0..clock :
          /\ disk' = [disk EXCEPT ![n] = [body |-> [i \in 1..MaxPieces |-> 2], time |-> t]]
          /\ named' = [named EXCEPT ![s] = n]
    BY <1>7 DEF Replace
  <2>3. [i \in 1..MaxPieces |-> 2] \in Seq(Nat) /\ t \in Nat /\ t <= clock
    <3>1. [i \in 1..MaxPieces |-> 2] \in Seq(Nat)
      BY StagingAssumption, IsASeq
    <3> QED
      BY <1>2, <3>1
  <2>4. /\ disk' \in [FileNumbers -> [body : Seq(Nat), time : Nat]]
        /\ named' \in [SourceNames -> {NoFile} \cup FileNumbers]
        /\ \A m \in FileNumbers : disk'[m] = disk[m] \/ (m = n /\ disk'[m].time = t)
    BY <1>2, <2>2, <2>3
  <2>5. \A m \in FileNumbers : disk'[m].time <= clock
    BY <1>2, <2>3, <2>4
  <2> QED
    BY <1>2, <1>4, <2>1, <2>2, <2>4, <2>5
<1>8. ASSUME NEW s \in SourceNames, RemoveSource(s) PROVE StagingInv'
  <2>1. UNCHANGED <<clock, disk, inside, moves, racy>> /\ named' = [named EXCEPT ![s] = NoFile]
    BY <1>8 DEF RemoveSource
  <2> QED
    BY <1>2, <1>4, <2>1
<1>9. ASSUME NEW s \in SourceNames, Move(s) PROVE StagingInv'
  <2>1. /\ UNCHANGED <<clock, disk, named, racy>> /\ moves' = moves + 1
        /\ inside' = IF s \in inside THEN inside \ {s} ELSE inside \cup {s}
    BY <1>9 DEF Move
  <2> QED
    BY <1>2, <1>4, <2>1
<1> QED
  BY <1>5, <1>6, <1>7, <1>8, <1>9

(* The first run.                                                          *)
LEMMA FirstRun == StagingInit => StagingInv
<1> SUFFICES ASSUME StagingInit PROVE StagingInv
  OBVIOUS
<1>1. AtTyped /\ at[1] = "read" /\ at[2] = "resolve"
  BY DEF StagingInit, AtTyped, ReadSteps
<1>2. accepted \in Seq(Takes) /\ Len(accepted) = 0
  BY DEF StagingInit
<1>3. StagingTyped
  <2>1. /\ clock = 1 /\ moves = 0 /\ runs = 1 /\ disk = FreshDisk /\ named = FreshNames
        /\ inside = SourceNames /\ racy = {} /\ place = 1 /\ disturbed = FALSE /\ stuck = FALSE
    BY DEF StagingInit
  <2>2. \A n \in FileNumbers : disk[n].time <= clock
    BY <2>1, FreshTyped
  <2>3. ~ReadsAt(ReadSteps \ {"resolve", "examine"})
    BY <1>1 DEF ReadsAt
  <2>4. /\ disk \in [FileNumbers -> [body : Seq(Nat), time : Nat]]
        /\ named \in [SourceNames -> {NoFile} \cup FileNumbers]
    BY <2>1, FreshTyped
  <2>5. /\ clock \in Nat /\ moves \in Nat /\ runs \in Nat \ {0} /\ Len(accepted) < 3
        /\ place \in {1, 2} /\ disturbed \in BOOLEAN /\ stuck \in BOOLEAN
    <3>1. Len(accepted) < 3
      BY ONLY <1>2
    <3>2. clock \in Nat /\ moves \in Nat /\ runs \in Nat \ {0} /\ place \in {1, 2}
      BY ONLY <2>1
    <3>3. disturbed \in BOOLEAN /\ stuck \in BOOLEAN
      BY ONLY <2>1
    <3> QED
      BY <3>1, <3>2, <3>3
  <2>6. inside \subseteq SourceNames /\ inside = SourceNames /\ racy \subseteq FileNumbers
    BY <2>1
  <2> QED
    BY <1>1, <1>2, <2>2, <2>3, <2>4, <2>5, <2>6 DEF StagingTyped
<1>4. ReadInv
  <2>1. ReadsWhole
    BY DEF ReadsWhole, StagingInit
  <2> QED
    BY <1>1, <2>1 DEF ReadInv, FileIsAsSeen, WholeOnceRechecked, BelowOrMoved, ReadsAt
<1>5. PutInv
  BY <1>1 DEF StagingInit, PutInv, EntriesTyped, Counted, StillThere, TakenBack, Early, Linking
<1> QED
  BY <1>3, <1>4, <1>5 DEF StagingInv

(* A run ends, or is killed, and is started again: the entries it left are *)
(* those of an earlier run.                                                *)
LEMMA NextRun ==
  ASSUME StagingInv, Rerun
  PROVE  StagingInv'
<1>1. /\ runs \in Nat \ {0} /\ runs' = runs + 1 /\ place \in {1, 2} /\ UNCHANGED <<place, entries>>
      /\ at' = <<"read", "resolve">> /\ seen' = <<>> /\ accepted' = <<>> /\ installed' = {}
      /\ disturbed' = FALSE /\ stuck' = FALSE /\ clock' = 1 /\ disk' = FreshDisk
      /\ named' = FreshNames /\ inside' = SourceNames /\ moves' = 0 /\ racy' = {}
  BY DEF Rerun, StagingInv, StagingTyped
<1>2. AtTyped' /\ at'[1] = "read" /\ at'[2] = "resolve"
  BY <1>1 DEF AtTyped, ReadSteps
<1>3. accepted' \in Seq(Takes) /\ Len(accepted') = 0
  BY <1>1
<1>4. StagingTyped'
  <2>1. \A n \in FileNumbers : disk'[n].time <= clock'
    BY <1>1, FreshTyped
  <2>2. ~ReadsAt(ReadSteps \ {"resolve", "examine"})'
    BY <1>2 DEF ReadsAt
  <2>3. /\ disk' \in [FileNumbers -> [body : Seq(Nat), time : Nat]]
        /\ named' \in [SourceNames -> {NoFile} \cup FileNumbers]
    BY <1>1, FreshTyped
  <2>4. /\ clock' \in Nat /\ moves' \in Nat /\ runs' \in Nat \ {0} /\ Len(accepted') < 3
        /\ place' \in {1, 2} /\ disturbed' \in BOOLEAN /\ stuck' \in BOOLEAN
    <3>1. Len(accepted') < 3
      BY ONLY <1>3
    <3>2. clock' \in Nat /\ moves' \in Nat /\ runs' \in Nat \ {0} /\ place' \in {1, 2}
      BY ONLY <1>1
    <3>3. disturbed' \in BOOLEAN /\ stuck' \in BOOLEAN
      BY ONLY <1>1
    <3> QED
      BY <3>1, <3>2, <3>3
  <2>5. inside' \subseteq SourceNames /\ inside' = SourceNames /\ racy' \subseteq FileNumbers
    BY <1>1
  <2> QED
    BY <1>2, <1>3, <2>1, <2>2, <2>3, <2>4, <2>5 DEF StagingTyped
<1>5. ReadInv'
  <2>1. ReadsWhole'
    BY <1>1 DEF ReadsWhole
  <2> QED
    BY <1>2, <2>1 DEF ReadInv, FileIsAsSeen, WholeOnceRechecked, BelowOrMoved, ReadsAt
<1>6. EntriesTyped'
  BY <1>1 DEF StagingInv, PutInv, EntriesTyped, Entry
<1>7. \A e \in entries' : e.by # runs'
  BY <1>1 DEF StagingInv, PutInv, EntriesTyped
<1>8. PutInv'
  BY <1>1, <1>2, <1>6, <1>7 DEF PutInv, Counted, StillThere, TakenBack, Linking
<1> QED
  BY <1>4, <1>5, <1>8 DEF StagingInv

----------------------------------------------------------------------------
(* Installing: the steps of the run, and others at the destination.        *)

(* What a step of the installation, or of others at the destination, owes  *)
(* beside what it does to the entries.                                     *)
LEMMA PutTyped ==
  ASSUME StagingTyped, ReadInv, AtTyped', at[1] # "read" \/ at' = at, at'[1] = "read" => at' = at,
         UNCHANGED <<sourceVars, readerVars, runs>>, place' \in {1, 2},
         disturbed' \in BOOLEAN, stuck' \in BOOLEAN
  PROVE  StagingTyped' /\ ReadInv'
<1>1. UNCHANGED <<clock, disk, named, inside, moves, racy, seen, accepted>>
  BY DEF sourceVars, readerVars
<1>2. at'[1] = "read" => at' = at
  OBVIOUS
<1>3. StagingTyped'
  BY <1>1, <1>2 DEF StagingTyped, ReadsAt
<1>4. ReadInv'
  BY <1>1, <1>2 DEF ReadInv, FileIsAsSeen, WholeOnceRechecked, BelowOrMoved, ReadsWhole, ReadsAt,
     Undisturbed, Source
<1> QED
  BY <1>3, <1>4

(* What a name stands for.                                                 *)
LEMMA ThereIs ==
  ASSUME StagingTyped, PutInv, NEW k \in Targets
  PROVE  /\ \A e \in There(k, TRUE) : e \in entries /\ e.temporary /\ e.by = runs
         /\ \A e \in There(k, FALSE) : e \in entries /\ ~e.temporary /\ e.dir = place /\ e.name = k
         /\ Own(k) \in entries => There(k, FALSE) = {Own(k)}
         /\ Own(k).dir = place /\ Own(k).name = k /\ ~Own(k).temporary /\ Own(k).by = runs
         /\ runs \in Nat \ {0} /\ runs # Others
<1>1. Own(k).dir = place /\ Own(k).name = k /\ ~Own(k).temporary /\ Own(k).by = runs
  BY DEF Own, Entry
<1>2. ASSUME Own(k) \in entries PROVE There(k, FALSE) = {Own(k)}
  BY <1>1, <1>2 DEF There, PutInv, EntriesTyped
<1> QED
  BY <1>1, <1>2 DEF There, StagingTyped, Others

(* The steps that change no entry.                                         *)
LEMMA SameEntries ==
  ASSUME StagingTyped, PutInv, AtTyped', UNCHANGED <<entries, place, disturbed, installed, runs>>,
         at[1] # "read", at'[1] \notin {"unlink", "undo", "read"},
         Early' => Early /\ UNCHANGED stuck,
         at'[1] \in {"same", "create", "write", "link"} => installed = 1..(at'[2] - 1),
         at'[1] = "staged" => installed = Targets,
         ~disturbed => /\ at'[1] \notin {"note", "refused", "staged"} => noted' = place
                       /\ at'[1] = "refused" /\ ~stuck' => installed = {},
         stuck => stuck', ~disturbed /\ ~stuck' => Linking = {}
  PROVE  PutInv'
<1>1. Linking' = {} /\ Own(1)' = Own(1) /\ \A k : Own(k)' = Own(k)
  BY AtParts DEF Linking, Own, Entry
<1>2. EntriesTyped'
  BY DEF PutInv, EntriesTyped, Entry, Early
<1>3. Counted'
  BY DEF PutInv, Counted
<1>4. StillThere'
  BY <1>1 DEF PutInv, StillThere
<1>5. TakenBack'
  BY <1>1, AtParts DEF PutInv, TakenBack
<1> QED
  BY <1>2, <1>3, <1>4, <1>5 DEF PutInv

(* The steps that leave the run what it has installed or is linking, and   *)
(* change temporary files only.                                            *)
LEMMA SameInstalled ==
  ASSUME StagingTyped, PutInv, AtTyped', UNCHANGED <<place, disturbed, runs, noted>>,
         at[1] \in {"same", "roll_back"} \cup PutSteps,
         at'[1] \in {"same", "roll_back"} \cup PutSteps,
         Counted', (installed \cup Linking)' = installed \cup Linking, stuck => stuck',
         \A e \in entries' \ entries : \E k \in Targets : e = Entry(place, k, TRUE, runs),
         \A e \in entries \ entries' : e.temporary
  PROVE  PutInv'
<1>1. ~Early' /\ at' # <<"refused">> /\ at'[1] \notin {"read", "note", "refused", "staged"}
      /\ at[1] \notin {"read", "note", "refused", "staged"}
  BY DEF Early, PutSteps
<1>2. \A k : Own(k)' = Own(k)
  BY DEF Own, Entry
<1>3. ASSUME NEW e \in entries', e \notin entries
      PROVE  /\ e = Entry(e.dir, e.name, e.temporary, e.by)
             /\ e.temporary = TRUE /\ e.by = runs /\ runs \in Nat
  BY <1>3 DEF Entry, StagingTyped
<1>4. EntriesTyped'
  <2>1. \A e \in entries' : /\ e = Entry(e.dir, e.name, e.temporary, e.by)
                            /\ e.temporary \in BOOLEAN /\ e.by \in 0..runs
    <3>1. ASSUME NEW e \in entries', e \notin entries
          PROVE  e.temporary \in BOOLEAN /\ e.by \in 0..runs
      <4>1. e.temporary = TRUE /\ e.by = runs /\ runs \in Nat
        BY <1>3, <3>1
      <4>2. e.temporary \in BOOLEAN
        BY ONLY <4>1
      <4>3. e.by \in 0..runs
        BY ONLY <4>1
      <4> QED
        BY <4>2, <4>3
    <3>2. \A e \in entries : /\ e = Entry(e.dir, e.name, e.temporary, e.by)
                             /\ e.temporary \in BOOLEAN /\ e.by \in 0..runs
      BY DEF PutInv, EntriesTyped
    <3> QED
      BY <1>3, <3>1, <3>2
  <2>2. \A e, f \in entries' :
          ~e.temporary /\ ~f.temporary /\ e.dir = f.dir /\ e.name = f.name => e = f
    BY <1>3 DEF PutInv, EntriesTyped
  <2> QED
    BY <1>1, <2>1, <2>2 DEF EntriesTyped, Entry
<1>5. StillThere'
  <2> SUFFICES ASSUME ~disturbed
               PROVE  noted = place /\ \A k \in (installed \cup Linking)' : Own(k)' \in entries'
    BY DEF StillThere
  <2>1. noted = place /\ \A k \in installed \cup Linking : Own(k) \in entries
    BY <1>1 DEF PutInv, StillThere
  <2>2. \A k : ~Own(k).temporary
    BY DEF Own, Entry
  <2> QED
    BY <1>2, <2>1, <2>2
<1>6. TakenBack'
  BY <1>1, <1>2, <1>3 DEF PutInv, TakenBack
<1> QED
  BY <1>4, <1>5, <1>6 DEF PutInv

(* A name the run has linked or installed is given up: its file goes, or   *)
(* the run knows that it could not be removed.                             *)
LEMMA GivenUp ==
  ASSUME StagingTyped, PutInv, AtTyped', UNCHANGED <<place, disturbed, runs, noted>>,
         NEW k \in Targets, at[1] \in {"roll_back", "undo"}, at'[1] \in {"roll_back", "refused"},
         installed' = (installed \cup Linking) \ {k}, Removes(k, FALSE),
         at'[1] = "refused" => entries' = entries
  PROVE  PutInv'
<1>1. ~Early' /\ at[1] \notin {"read", "note", "refused", "staged"} /\ Linking' = {}
  BY DEF Early, Linking
<1>2. \A j : Own(j)' = Own(j)
  BY DEF Own, Entry
<1>3. \/ entries' = entries \ There(k, FALSE) /\ There(k, FALSE) # {} /\ (stuck => stuck')
      \/ stuck' /\ entries' = entries
  BY DEF Removes
<1>4. There(k, FALSE) \subseteq entries /\ \A j : Own(j) \in There(k, FALSE) => j = k
  BY DEF There, Own, Entry
<1>5. EntriesTyped'
  BY <1>1, <1>3 DEF PutInv, EntriesTyped, Entry
<1>6. Counted'
  BY DEF PutInv, Counted, PutSteps, Linking
<1>7. StillThere'
  BY <1>1, <1>2, <1>3, <1>4 DEF PutInv, StillThere
<1>8. TakenBack'
  <2> SUFFICES ASSUME ~disturbed, ~stuck'
               PROVE  /\ \A e \in entries' : e.by = runs /\ ~e.temporary =>
                            \E j \in (installed \cup Linking)' : e = Own(j)'
                      /\ at' # <<"refused">>
    BY DEF TakenBack
  <2>1. entries' = entries \ There(k, FALSE) /\ There(k, FALSE) # {} /\ ~stuck
    BY <1>3
  <2>2. entries' # entries
    BY <1>4, <2>1
  <2>3. ASSUME NEW e \in entries', e.by = runs, ~e.temporary
        PROVE  \E j \in (installed \cup Linking)' : e = Own(j)'
    <3>1. PICK j \in installed \cup Linking : e = Own(j)
      BY <2>1, <2>3 DEF PutInv, TakenBack
    <3>2. Own(k) \in entries => Own(k) \in There(k, FALSE)
      BY DEF There, Own, Entry
    <3>3. j # k
      BY <2>1, <2>3, <3>1, <3>2
    <3> QED
      BY <1>1, <1>2, <3>1, <3>3
  <2>4. at' # <<"refused">>
    BY <2>2
  <2> QED
    BY <2>3, <2>4
<1> QED
  BY <1>5, <1>6, <1>7, <1>8 DEF PutInv

(* A link is made only where no file has the name.                         *)
LEMMA LinkedKeeps ==
  ASSUME StagingTyped, PutInv, NEW k \in Targets, at = <<"link", k>>, at' = <<"unlink", k>>,
         UNCHANGED <<place, disturbed, runs, noted, installed, stuck>>, Linked(k)
  PROVE  PutInv'
<1>1. /\ at'[1] = "unlink" /\ at'[2] = k /\ ~Early' /\ at[1] = "link" /\ at[2] = k
      /\ Linking' = {k} /\ Linking = {}
  BY DEF Early, Linking
<1>2. \A j : Own(j)' = Own(j)
  BY DEF Own, Entry
<1>3. /\ There(k, FALSE) = {} /\ entries' = entries \cup {Own(k)}
      /\ Own(k).dir = place /\ Own(k).name = k /\ Own(k).temporary = FALSE /\ Own(k).by = runs
  BY DEF Linked, Own, Entry
<1>4. \A e \in entries : e.dir = place /\ e.name = k => e.temporary
  BY <1>3 DEF There
<1>5. EntriesTyped'
  <2>1. \A e \in entries : /\ e = Entry(e.dir, e.name, e.temporary, e.by)
                           /\ e.temporary \in BOOLEAN /\ e.by \in 0..runs
    BY DEF PutInv, EntriesTyped
  <2>2. Own(k) = Entry(Own(k).dir, Own(k).name, Own(k).temporary, Own(k).by)
    BY <1>3 DEF Own
  <2>3. Own(k).temporary \in BOOLEAN
    BY ONLY <1>3
  <2>4. Own(k).by \in 0..runs
    BY <1>3 DEF StagingTyped
  <2>5. \A e, f \in entries' :
          ~e.temporary /\ ~f.temporary /\ e.dir = f.dir /\ e.name = f.name => e = f
    BY <1>3, <1>4 DEF PutInv, EntriesTyped
  <2> QED
    BY <1>1, <1>3, <2>1, <2>2, <2>3, <2>4, <2>5 DEF EntriesTyped, Entry
<1>6. Counted'
  BY <1>1 DEF PutInv, Counted
<1>7. StillThere'
  BY <1>1, <1>2, <1>3 DEF PutInv, StillThere
<1>8. TakenBack'
  BY <1>1, <1>2, <1>3 DEF PutInv, TakenBack
<1> QED
  BY <1>5, <1>6, <1>7, <1>8 DEF PutInv

(* Others put a file where there is none, clear a name or exchange the     *)
(* directory.                                                              *)
LEMMA OthersAtTarget ==
  ASSUME StagingInv, ExchangeDirectory \/ \E k \in Targets : Intrude(k) \/ Clear(k)
  PROVE  StagingInv'
<1>1. /\ UNCHANGED <<sourceVars, readerVars, noted, installed, stuck, runs, at>>
      /\ StagingTyped /\ ReadInv /\ PutInv /\ AtTyped /\ runs \in Nat \ {0} /\ place \in {1, 2}
      /\ disturbed \in BOOLEAN /\ stuck \in BOOLEAN
  BY DEF ExchangeDirectory, Intrude, Clear, ChangeTarget, KeepStage, installVars, StagingInv,
         StagingTyped
<1>2. /\ Linking' = Linking /\ (Early' <=> Early) /\ AtTyped'
  BY <1>1 DEF Linking, Early, AtTyped
<1>3. Counted'
  BY <1>1 DEF PutInv, Counted
<1>4. ASSUME place' \in {1, 2}, disturbed' \in BOOLEAN, PutInv' PROVE StagingInv'
  BY <1>1, <1>2, <1>4, PutTyped DEF StagingInv
<1>5. CASE ExchangeDirectory
  <2>1. place' = 3 - place /\ disturbed' = TRUE /\ entries' = entries
    BY <1>5 DEF ExchangeDirectory
  <2>2. place' \in {1, 2} /\ disturbed'
    BY <1>1, <2>1
  <2>3. EntriesTyped'
    BY <1>1, <1>2, <2>1 DEF PutInv, EntriesTyped, Entry
  <2>4. PutInv'
    BY <1>3, <2>2, <2>3 DEF PutInv, StillThere, TakenBack
  <2>5. disturbed' \in BOOLEAN
    BY ONLY <2>1
  <2> QED
    BY <1>4, <2>2, <2>4, <2>5
<1>6. ASSUME NEW k \in Targets, Intrude(k) PROVE StagingInv'
  <2> DEFINE new == Entry(place, k, FALSE, Others)
  <2>1. /\ There(k, FALSE) = {} /\ entries' = entries \cup {new}
        /\ UNCHANGED <<place, disturbed>>
        /\ new.dir = place /\ new.name = k /\ new.temporary = FALSE /\ new.by = 0
        /\ new = Entry(new.dir, new.name, new.temporary, new.by)
    BY <1>6 DEF Intrude, Entry, Others
  <2> HIDE DEF new
  <2>2. \A e \in entries : e.dir = place /\ e.name = k => e.temporary
    BY <2>1 DEF There
  <2>3. EntriesTyped'
    <3>1. \A e \in entries : /\ e = Entry(e.dir, e.name, e.temporary, e.by)
                             /\ e.temporary \in BOOLEAN /\ e.by \in 0..runs
      BY <1>1 DEF PutInv, EntriesTyped
    <3>2. new.temporary \in BOOLEAN
      BY ONLY <2>1
    <3>3. new.by \in 0..runs /\ new.by # runs
      BY <1>1, <2>1
    <3>4. \A e, f \in entries' :
            ~e.temporary /\ ~f.temporary /\ e.dir = f.dir /\ e.name = f.name => e = f
      BY <1>1, <2>1, <2>2 DEF PutInv, EntriesTyped
    <3>5. Early' => installed' = {} /\ \A e \in entries' : e.by # runs
      BY <1>1, <1>2, <2>1, <3>3 DEF PutInv, EntriesTyped
    <3> QED
      BY <1>1, <2>1, <3>1, <3>2, <3>3, <3>4, <3>5 DEF EntriesTyped, Entry
  <2>4. \A j : Own(j)' = Own(j)
    BY <1>1, <2>1 DEF Own, Entry
  <2>5. StillThere'
    BY <1>1, <1>2, <2>1, <2>4 DEF PutInv, StillThere
  <2>6. TakenBack'
    <3>1. new.by # runs
      BY <1>1, <2>1
    <3> QED
      BY <1>1, <1>2, <2>1, <2>4, <3>1 DEF PutInv, TakenBack
  <2> QED
    BY <1>1, <1>3, <1>4, <2>1, <2>3, <2>5, <2>6 DEF PutInv
<1>7. ASSUME NEW k \in Targets, Clear(k) PROVE StagingInv'
  <2>1. /\ entries' = entries \ There(k, FALSE) /\ place' = place
        /\ disturbed' = (disturbed \/ at[1] # "read")
    BY <1>7 DEF Clear
  <2>2. EntriesTyped'
    BY <1>1, <1>2, <2>1 DEF PutInv, EntriesTyped, Entry
  <2>3. disturbed' \in BOOLEAN
    BY <2>1, Zenon
  <2>4. ASSUME ~disturbed' PROVE at[1] = "read" /\ ~disturbed /\ installed = {} /\ Linking = {}
    <3>1. at[1] = "read" /\ ~disturbed
      BY <2>1, <2>4
    <3> QED
      BY <1>1, <3>1 DEF PutInv, EntriesTyped, Early, Linking
  <2>5. \A j : Own(j)' = Own(j)
    BY <1>1, <2>1 DEF Own, Entry
  <2>6. StillThere'
    BY <1>1, <1>2, <2>4 DEF StillThere
  <2>7. TakenBack'
    BY <1>1, <1>2, <2>1, <2>4, <2>5 DEF PutInv, TakenBack
  <2> QED
    BY <1>1, <1>3, <1>4, <2>1, <2>2, <2>3, <2>6, <2>7 DEF PutInv
<1> QED
  BY <1>5, <1>6, <1>7

(* The steps of the installation.                                          *)
LEMMA InstallingKeeps ==
  ASSUME StagingInv, InstallStep
  PROVE  StagingInv'
<1>1. /\ UNCHANGED <<sourceVars, readerVars, place, disturbed, runs>>
      /\ StagingTyped /\ ReadInv /\ PutInv /\ AtTyped /\ stuck \in BOOLEAN
  BY DEF InstallStep, Note, LookForTargets, SameDirectory, RollBack, CreateTemporary,
         WriteTemporary, LinkTarget, UnlinkTemporary, UndoLink, KeepReads, StagingInv, StagingTyped
<1>2. ASSUME AtTyped', stuck' \in BOOLEAN, at[1] # "read", at'[1] # "read", PutInv'
      PROVE  StagingInv'
  <2>1. place' \in {1, 2}
    BY <1>1 DEF StagingTyped
  <2>2. disturbed' \in BOOLEAN
    BY <1>1 DEF StagingTyped
  <2> QED
    BY <1>1, <1>2, <2>1, <2>2, PutTyped DEF StagingInv
<1>3. ASSUME NEW k \in Targets, at = <<"unlink", k>> \/ at = <<"undo", k>>
      PROVE  Linking = {k} /\ installed = 1..(k - 1)
  BY <1>1, <1>3 DEF Linking, PutInv, Counted
<1>4. ASSUME at'[1] \notin {"unlink", "undo"} PROVE Linking' = {}
  BY <1>4 DEF Linking
<1>5. CASE Note
  <2>1. /\ at = <<"note">> /\ at' = <<"absent">> /\ noted' = place
        /\ UNCHANGED <<entries, installed, stuck>>
    BY <1>5 DEF Note
  <2>2. AtTyped' /\ Linking = {} /\ Early
    BY <2>1 DEF AtTyped, Linking, Early
  <2>3. PutInv'
    BY <1>1, <2>1, <2>2, SameEntries
  <2> QED
    BY <1>1, <1>2, <2>1, <2>2, <2>3
<1>6. CASE LookForTargets
  <2>1. /\ at = <<"absent">>
        /\ at' = <<"same", 1>> \/ at' = <<"refused">>
        /\ UNCHANGED <<entries, noted, installed, stuck>>
    BY <1>6 DEF LookForTargets, installVars
  <2>2. AtTyped' /\ Linking = {} /\ Early /\ ~Early'
    BY <2>1 DEF AtTyped, Linking, Early
  <2>3. installed = {} /\ (~disturbed => noted = place)
    BY <1>1, <2>1, <2>2 DEF PutInv, EntriesTyped, StillThere
  <2>4. PutInv'
    BY <1>1, <2>1, <2>2, <2>3, SameEntries
  <2> QED
    BY <1>1, <1>2, <2>1, <2>2, <2>4
<1>7. CASE SameDirectory
  <2>1. PICK k \in 1..3 : at = <<"same", k>>
    BY <1>7 DEF SameDirectory
  <2>2. /\ at' = IF place # noted THEN <<"refused">>
                 ELSE IF k = 3 THEN <<"staged">> ELSE <<"create", k>>
        /\ UNCHANGED <<entries, noted, installed, stuck>>
    BY <1>7, <2>1 DEF SameDirectory, installVars
  <2>3. Linking = {} /\ ~Early /\ installed = 1..(k - 1) /\ (~disturbed => noted = place)
    BY <1>1, <2>1 DEF Linking, Early, PutInv, Counted, StillThere
  <2>4. AtTyped' /\ ~Early' /\ at'[1] # "read"
    BY <2>2 DEF AtTyped, Early, PutSteps, Targets
  <2>5. at'[1] = "staged" => installed = Targets
    BY <2>2, <2>3 DEF Targets
  <2>6. PutInv'
    BY <1>1, <2>1, <2>2, <2>3, <2>4, <2>5, SameEntries
  <2> QED
    BY <1>1, <1>2, <2>1, <2>2, <2>4, <2>6
<1>8. ASSUME NEW k \in Targets, CreateTemporary(k) \/ WriteTemporary(k) PROVE StagingInv'
  <2>1. /\ \/ at = <<"create", k>> \/ at = <<"write", k>>
        /\ \/ at' = <<"write", k>> \/ at' = <<"link", k>> \/ at' = <<"roll_back">>
        /\ UNCHANGED <<noted, installed>>
    BY <1>8 DEF CreateTemporary, WriteTemporary, installVars
  <2>2. stuck' \in BOOLEAN /\ (stuck => stuck')
    BY <1>1, <1>8, Zenon DEF CreateTemporary, WriteTemporary, Removes, installVars
  <2>3. \/ entries' = entries \/ entries' = entries \cup {Entry(place, k, TRUE, runs)}
        \/ entries' = entries \ There(k, TRUE)
    BY <1>8 DEF CreateTemporary, WriteTemporary, Removes
  <2>4. AtTyped' /\ Linking = {} /\ Linking' = {} /\ installed = 1..(k - 1)
    BY <1>1, <2>1 DEF AtTyped, PutSteps, Linking, PutInv, Counted
  <2>5. Counted'
    BY <1>1, <2>1, <2>4 DEF PutInv, Counted
  <2>6. at[1] \in {"create", "write"} /\ at'[1] \in {"write", "link", "roll_back"}
    BY ONLY <2>1
  <2>7. /\ \A e \in entries' \ entries : e = Entry(place, k, TRUE, runs)
        /\ \A e \in entries \ entries' : e.temporary
    BY <1>1, <2>3, ThereIs
  <2>8. PutInv'
    BY <1>1, <2>1, <2>2, <2>4, <2>5, <2>6, <2>7, SameInstalled DEF PutSteps
  <2> QED
    BY <1>2, <2>2, <2>4, <2>6, <2>8
<1>9. ASSUME NEW k \in Targets, LinkTarget(k) PROVE StagingInv'
  <2>1. at = <<"link", k>> /\ UNCHANGED <<noted, installed>>
    BY <1>9 DEF LinkTarget
  <2>2. CASE Linked(k) /\ at' = <<"unlink", k>> /\ UNCHANGED stuck
    <3>1. AtTyped'
      BY <2>2 DEF AtTyped, PutSteps
    <3> QED
      BY <1>1, <1>2, <2>1, <2>2, <3>1, LinkedKeeps
  <2>3. CASE at' = <<"roll_back">> /\ Removes(k, TRUE)
    <3>1. stuck' \in BOOLEAN
      BY <1>1, <2>3, Zenon DEF Removes
    <3>2. stuck => stuck'
      BY <2>3, Zenon DEF Removes
    <3>6. \A e \in entries' : e \in entries
      BY <2>3 DEF Removes
    <3>7. \A e \in entries \ entries' : e.temporary
      BY <1>1, <2>3, ThereIs DEF Removes
    <3>3. AtTyped' /\ Linking = {} /\ Linking' = {}
      BY <2>1, <2>3 DEF AtTyped, Linking
    <3>4. Counted'
      BY <1>1, <2>1, <2>3 DEF PutInv, Counted
    <3>5. PutInv'
      BY <1>1, <2>1, <2>3, <3>2, <3>3, <3>4, <3>6, <3>7, SameInstalled DEF PutSteps
    <3> QED
      BY <1>2, <2>1, <2>3, <3>1, <3>3, <3>5
  <2> QED
    BY <1>9, <2>2, <2>3 DEF LinkTarget
<1>10. ASSUME NEW k \in Targets, UnlinkTemporary(k) PROVE StagingInv'
  <2>1. at = <<"unlink", k>> /\ UNCHANGED <<noted, stuck>> /\ Linking = {k}
        /\ installed = 1..(k - 1) /\ k \in {1, 2}
    BY <1>3, <1>10 DEF UnlinkTemporary, Targets
  <2>2. \/ /\ entries' = entries \ There(k, TRUE) /\ installed' = installed \cup {k}
           /\ at' = <<"same", k + 1>>
        \/ at' = <<"undo", k>> /\ UNCHANGED <<entries, installed>>
    BY <1>10 DEF UnlinkTemporary
  <2>3. AtTyped' /\ (installed \cup Linking)' = installed \cup Linking
    <3>1. CASE at' = <<"undo", k>> /\ UNCHANGED <<entries, installed>>
      BY <2>1, <3>1 DEF AtTyped, PutSteps, Linking
    <3>2. CASE installed' = installed \cup {k} /\ at' = <<"same", k + 1>>
      <4>1. Linking' = {}
        BY <1>4, <3>2
      <4>2. k + 1 \in 1..3
        BY <2>1
      <4> QED
        BY <2>1, <3>2, <4>1, <4>2 DEF AtTyped
    <3> QED
      BY <2>2, <3>1, <3>2
  <2>4. Counted'
    <3>1. CASE at' = <<"undo", k>> /\ UNCHANGED <<entries, installed>>
      BY <1>1, <2>1, <3>1 DEF PutInv, Counted
    <3>2. CASE installed' = installed \cup {k} /\ at' = <<"same", k + 1>>
      <4>1. installed' = 1..((k + 1) - 1) /\ installed' \subseteq Targets
        BY <2>1, <3>2 DEF Targets
      <4> QED
        BY <3>2, <4>1 DEF Counted
    <3> QED
      BY <2>2, <3>1, <3>2
  <2>5. at[1] = "unlink" /\ at'[1] \in {"same", "undo"}
    <3>1. at' = <<"same", k + 1>> \/ at' = <<"undo", k>>
      BY <2>2
    <3>2. at[1] = "unlink"
      BY <2>1
    <3> QED
      BY ONLY <3>1, <3>2
  <2>6. /\ \A e \in entries' : e \in entries
        /\ \A e \in entries \ entries' : e.temporary
    BY <1>1, <2>2, ThereIs
  <2>7. PutInv'
    BY <1>1, <2>1, <2>3, <2>4, <2>5, <2>6, SameInstalled DEF PutSteps
  <2> QED
    BY <1>1, <1>2, <2>1, <2>3, <2>5, <2>7
<1>11. ASSUME NEW k \in Targets, UndoLink(k) PROVE StagingInv'
  <2>1. at = <<"undo", k>> /\ at' = <<"roll_back">> /\ UNCHANGED <<noted, installed>>
        /\ Removes(k, FALSE) /\ Linking = {k} /\ installed = 1..(k - 1) /\ k \in {1, 2}
    BY <1>3, <1>11 DEF UndoLink, Targets
  <2>2. AtTyped' /\ installed' = (installed \cup Linking) \ {k}
    BY <2>1 DEF AtTyped
  <2>3. PutInv'
    BY <1>1, <2>1, <2>2, GivenUp
  <2>4. stuck' \in BOOLEAN
    BY <1>1, <2>1, Zenon DEF Removes
  <2> QED
    BY <1>2, <2>1, <2>2, <2>3, <2>4
<1>12. CASE RollBack
  <2>1. at = <<"roll_back">> /\ UNCHANGED noted /\ Linking = {}
    BY <1>12 DEF RollBack, Linking
  <2>2. CASE installed = {} /\ Refuse /\ UNCHANGED <<entries, stuck, installed>>
    <3>1. AtTyped' /\ at' = <<"refused">>
      BY <2>2 DEF AtTyped, Refuse
    <3>2. ~Early /\ ~Early' /\ at'[1] = "refused"
      BY <2>1, <3>1 DEF Early
    <3>3. PutInv'
      BY <1>1, <2>1, <2>2, <3>1, <3>2, SameEntries
    <3> QED
      BY <1>1, <1>2, <2>1, <2>2, <3>1, <3>3
  <2>3. ASSUME NEW k \in installed, Removes(k, FALSE), installed' = installed \ {k},
               at' = IF entries' = entries THEN <<"refused">> ELSE at
        PROVE  StagingInv'
    <3>1. k \in Targets /\ installed' = (installed \cup Linking) \ {k}
      BY <1>1, <2>1, <2>3 DEF PutInv, Counted
    <3>2. AtTyped' /\ at'[1] \in {"roll_back", "refused"}
          /\ (at'[1] = "refused" => entries' = entries)
      BY <2>1, <2>3 DEF AtTyped
    <3>3. PutInv'
      BY <1>1, <2>1, <2>3, <3>1, <3>2, GivenUp
    <3>4. stuck' \in BOOLEAN
      BY <1>1, <2>3, Zenon DEF Removes
    <3> QED
      BY <1>2, <2>1, <3>2, <3>3, <3>4
  <2> QED
    BY <1>12, <2>2, <2>3 DEF RollBack
<1> QED
  BY <1>5, <1>6, <1>7, <1>8, <1>9, <1>10, <1>11, <1>12 DEF InstallStep

(* Every step of staging keeps what a run knows.                           *)
LEMMA StagingKeeps == StagingInv /\ [StagingNext]_stagingVars => StagingInv'
<1> SUFFICES ASSUME StagingInv, [StagingNext]_stagingVars PROVE StagingInv'
  OBVIOUS
<1>1. CASE UNCHANGED stagingVars
  <2>1. /\ UNCHANGED <<sourceVars, readerVars, place, entries, disturbed, noted, installed, stuck>>
        /\ UNCHANGED <<runs, at>> /\ StagingTyped /\ ReadInv /\ PutInv /\ AtTyped
    BY <1>1 DEF stagingVars, targetVars, installVars, StagingInv, StagingTyped
  <2>2. PutInv' /\ AtTyped'
    BY <2>1, SourcesSparePut DEF AtTyped
  <2>3. place' \in {1, 2} /\ disturbed' \in BOOLEAN
    BY <2>1 DEF StagingTyped
  <2>4. stuck' \in BOOLEAN
    BY <2>1 DEF StagingTyped
  <2> QED
    BY <2>1, <2>2, <2>3, <2>4, PutTyped DEF StagingInv
<1> QED
  BY <1>1, ReadingKeeps, InstallingKeeps, OthersKeep, NextRun, OthersAtTarget DEF StagingNext

(* What a run knows holds at every moment, over any number of runs.        *)
LEMMA StagingKnows == StagingSpec => []StagingInv
  BY FirstRun, StagingKeeps, PTL DEF StagingSpec

(* What a run accepts was read whole and below RUNNER_TEMP, and a run that *)
(* is refused takes back what it has installed (publish.rs:37-258).        *)
THEOREM StagingIsSound == StagingSpec => []StagedSound
<1>1. StagingInv => StagedSound
  <2> SUFFICES ASSUME StagingInv PROVE StagedSound
    OBVIOUS
  <2>1. AllOrNothing
    <3>1. ASSUME at = <<"refused">>, ~stuck, ~disturbed,
                 NEW e \in entries, e.by = runs, ~e.temporary
          PROVE  FALSE
      <4>1. Linking = {} /\ installed = {}
        BY <3>1 DEF Linking, StagingInv, PutInv, TakenBack
      <4> QED
        BY <3>1, <4>1 DEF StagingInv, PutInv, TakenBack
    <3> QED
      BY <3>1 DEF AllOrNothing
  <2> QED
    BY <2>1 DEF StagedSound, StagingInv, ReadInv
<1> QED
  BY <1>1, StagingKnows, PTL

(* A run that answers success has installed both bundles, and no run       *)
(* removes what it has not put there (publish.rs:60-110,                   *)
(* manifest.rs:94-136).                                                    *)
THEOREM StagingIsSafe == StagingSpec => InstallsSafely
<1> DEFINE Complete == at' = <<"staged">> /\ at # at' =>
                          disturbed \/ \A k \in Targets : Entry(place, k, FALSE, runs) \in entries
           Spares == InstallStep /\ ~disturbed => \A e \in entries \ entries' : e.by = runs
<1>1. StagingInv /\ [StagingNext]_stagingVars => [Complete]_stagingVars
  <2> SUFFICES ASSUME StagingInv, StagingNext, at' = <<"staged">>, at # at', ~disturbed
               PROVE  \A k \in Targets : Entry(place, k, FALSE, runs) \in entries
    OBVIOUS
  <2>1. SameDirectory
    BY DEF StagingNext, ReadStep, Resolve, Examine, Open, Inspect, ReadPiece, Recheck, Accept,
       Refuse, InstallStep, Note, LookForTargets, RollBack, CreateTemporary, WriteTemporary,
       LinkTarget, UnlinkTemporary, UndoLink, Rerun, Tick, WriteInPlace, Replace, RemoveSource,
       Move, KeepStage, ExchangeDirectory, Intrude, Clear, ChangeTarget
  <2>2. PICK k \in 1..3 : at = <<"same", k>>
    BY <2>1 DEF SameDirectory
  <2>3. k = 3
    BY <2>1, <2>2 DEF SameDirectory
  <2>4. installed = Targets
    BY <2>2, <2>3 DEF StagingInv, PutInv, Counted, Targets
  <2> QED
    BY <2>4 DEF StagingInv, PutInv, StillThere, Own
<1>2. StagingInv /\ [StagingNext]_stagingVars => [Spares]_stagingVars
  <2> SUFFICES ASSUME StagingInv, InstallStep, ~disturbed, NEW e \in entries, e \notin entries'
               PROVE  e.by = runs
    OBVIOUS
  <2>1. StagingTyped /\ PutInv
    BY DEF StagingInv
  <2>2. ASSUME NEW k \in Targets, e \in There(k, TRUE) PROVE e.by = runs
    BY <2>1, <2>2, ThereIs
  <2>3. ASSUME NEW k \in Targets, e \in There(k, FALSE), k \in installed \cup Linking
        PROVE  e.by = runs
    <3>1. Own(k) \in entries
      BY <2>1, <2>3 DEF PutInv, StillThere
    <3>2. There(k, FALSE) = {Own(k)} /\ Own(k).by = runs
      BY <2>1, <3>1, ThereIs
    <3> QED
      BY <2>3, <3>2
  <2>4. installed \subseteq Targets
    BY <2>1 DEF PutInv, Counted
  <2>5. ASSUME NEW k \in Targets, CreateTemporary(k) \/ WriteTemporary(k) \/ LinkTarget(k)
                                    \/ UnlinkTemporary(k)
        PROVE  e.by = runs
    BY <2>2, <2>5 DEF CreateTemporary, WriteTemporary, LinkTarget, Linked, UnlinkTemporary, Removes
  <2>6. ASSUME NEW k \in Targets, UndoLink(k) PROVE e.by = runs
    <3>1. e \in There(k, FALSE) /\ k \in Linking
      BY <2>6 DEF UndoLink, Removes, Linking
    <3> QED
      BY <2>3, <3>1
  <2>7. CASE RollBack
    <3>1. \E k \in installed : e \in There(k, FALSE)
      BY <2>7 DEF RollBack, Removes
    <3> QED
      BY <2>3, <2>4, <3>1
  <2> QED
    BY <2>5, <2>6, <2>7 DEF InstallStep, Note, LookForTargets, SameDirectory
<1>3. InstallsSafely <=> [][Complete]_stagingVars /\ [][Spares]_stagingVars
  BY DEF InstallsSafely, StagedIsComplete, OthersKept
<1> HIDE DEF Complete, Spares
<1> QED
  BY <1>1, <1>2, <1>3, StagingKnows, PTL DEF StagingSpec
=============================================================================
