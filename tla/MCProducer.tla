------------------------------ MODULE MCProducer -------------------------------
(***************************************************************************)
(* Small instances of Producer: the command lines and the stores the runs  *)
(* choose from.                                                            *)
(***************************************************************************)
EXTENDS Producer, MCChecks

Classes     == {destructive}
Configs     == {"cfg"}
Uris        == {"report"}
TwoSubjects == {"v1", "v2"}

SealJob(cmd, kind, media_type) ==
    [cmd |-> cmd, kind |-> kind, media_type |-> media_type, report |-> None,
     authority |-> "agent", directory |-> FALSE, manifest |-> FALSE,
     sealing |-> TRUE]

ScanJob(scans, media_type, directory, sealing) ==
    [cmd |-> "seal-skillscan", kind |-> "skill_bundle", media_type |-> media_type,
     report |-> [digest |-> Sha256("v1"), config_sha256 |-> "cfg",
                 checks |-> scans],
     authority |-> "agent", directory |-> directory, manifest |-> TRUE,
     sealing |-> sealing]

Scanned(ns, class, result) ==
    [id |-> [ns |-> ns, class |-> class], result |-> result]

RowOf(content, kind, media_type, entry) ==
    [subject |-> [kind |-> kind, digest |-> Sha256(content),
                  media_type |-> media_type], entry |-> entry]
ArtifactRow(content, entry) == RowOf(content, "artifact", None, entry)

(* An enforced check with a proof, pinned to bytes of this instance. *)
Proven == [EnforcedA EXCEPT !.verdict.enforced_proof = Pinned("v1")]

TwoScans == <<Scanned("scan", destructive, "pass"), Scanned("scan", destructive, "fail")>>

AllJobs ==
    {SealJob("seal", "artifact", None), SealJob("seal-keyless", "artifact", None),
     SealJob("seal", "skill_bundle", "bundle-manifest"),
     ScanJob(TwoScans, "bundle-manifest", TRUE, TRUE),
     ScanJob(TwoScans, "mcpb", FALSE, FALSE),
     ScanJob(TwoScans, "mcpb", TRUE, TRUE),
     ScanJob(<<Scanned("runtime", destructive, "pass")>>, "mcpb", FALSE, TRUE),
     ScanJob(<<Scanned("scan", destructive, "skip")>>, "mcpb", FALSE, TRUE)}

AllSeeds ==
    {<<>>,
     <<ArtifactRow("v1", Proven), ArtifactRow("v2", EnforcedBare),
       ArtifactRow("v1", Advisory)>>,
     <<ArtifactRow("v1", EnforcedBare)>>,
     <<ArtifactRow("v1", [Proven EXCEPT !.grade = "B", !.check.config_ref = None])>>,
     <<ArtifactRow("v1", HumanOperator), ArtifactRow("v2", HumanAgent)>>}

(***************************************************************************)
(* What the disk does is explored for few jobs and one store, since the    *)
(* commands differ in what they compute and not in how they put it away.   *)
(***************************************************************************)
DiskJobs  == {SealJob("seal", "artifact", None),
              ScanJob(TwoScans, "bundle-manifest", TRUE, TRUE)}
DiskSeeds == {<<ArtifactRow("v1", Proven)>>}

FromOneStore ==
    store # <<>> /\ Head(store) # ArtifactRow("v1", EnforcedBare) =>
        onDisk' = onDisk /\ Len(store') >= Len(store)

(***************************************************************************)
(* Run producer_doc_ids: a scanner that names its checks as it likes.      *)
(***************************************************************************)
NamingJobs == {ScanJob(<<Scanned("scan", class, "pass")>>, "mcpb", FALSE, FALSE) :
                  class \in {destructive, IllFormed}}
=============================================================================
