----------------------------- MODULE MCRelease -----------------------------
(***************************************************************************)
(* Instances of the release commands for TLC: publishing two planned       *)
(* assets, the second one an attestation, with one name outside the plan,  *)
(* and staging the attestations.  A behaviour follows one of them, the     *)
(* subject, chosen at the start; they share only finished files.           *)
(***************************************************************************)
EXTENDS ReleasePublisher, AttestationStaging

VARIABLE subject

MCInit ==
    /\ subject \in {"publish", "stage"}
    /\ Init
    /\ subject # "publish" => made = 0 /\ direct /\ setting.outside = 2
    /\ StagingInit

MCNext ==
    /\ UNCHANGED subject
    /\ \/ subject = "publish" /\ Next /\ UNCHANGED stagingVars
       \/ subject = "stage" /\ StagingNext /\ UNCHANGED vars

MCSpec ==
    /\ MCInit /\ [][MCNext]_<<subject, vars, stagingVars>>
    /\ subject = "publish" => WF_vars(Publisher)

MCPlanned == {1, 2}
MCUnplanned == {3}

Setting(a, f, o, l, r) ==
    [attempts |-> a, faults |-> f, outside |-> o, late |-> l, remade |-> r]
MCSettings ==
    {Setting(4, 3, 0, FALSE, {2}), Setting(3, 2, 0, FALSE, {}),
     Setting(2, 2, 1, TRUE, {}), Setting(2, 1, 2, FALSE, {2}),
     Setting(2, 1, 1, TRUE, {2})}
=============================================================================
