---------------------------------- MODULE VCR ----------------------------------
(***************************************************************************)
(* The VCR v0.2 vocabulary of model.py and the trust rules of trust.py:    *)
(* the records a seal carries, the meaning of a result, the trust floor    *)
(* and invariant E1.                                                       *)
(*                                                                         *)
(* Abstractions.  A check id keeps the two parts the code looks at, its    *)
(* first segment (the profile's namespace; None when the id has only one)  *)
(* and its last one (the threat class).  A digest is an injective tag of   *)
(* what was hashed: two contents have the same digest only if they are     *)
(* equal.  Free text, versions and the runtime block are left out: no      *)
(* decision reads them.                                                    *)
(***************************************************************************)
EXTENDS Naturals

CONSTANTS
    ThreatClass,    \* last segments of check ids
    ConfigRef,      \* digests of gating configurations
    Uri,            \* where enforced_proof points
    Content,        \* byte strings: subjects and proof reports
    None            \* an absent optional field

ASSUME NoneAssumption ==
    /\ None \notin ThreatClass /\ None \notin ConfigRef
    /\ None \notin Uri         /\ None \notin Content

SubjectKind   == {"artifact", "harness_config", "skill_bundle", "mcp_server",
                  "unknown"}
CheckKind     == {"review", "guard", "human"}
Namespace     == {"scan", "runtime", "other"}
Results       == {"pass", "fail", "error", "skip", "over_blocked", "n/a"}
Enforced      == {"enforced", "advisory", "observed"}
Grade         == {"A", "B", "C"}
Authority     == {"operator", "agent", "ingested"}
MediaType     == {"bundle-manifest", "mcpb", "other"}

Sha256(content) == [sha256 |-> content]
Digest          == {Sha256(content) : content \in Content}

Subject       == [kind : SubjectKind, digest : Digest,
                  media_type : MediaType \cup {None}]
CheckId       == [ns : Namespace \cup {None}, class : ThreatClass]
Check         == [id : CheckId,
                  kind : CheckKind, config_ref : ConfigRef \cup {None}]
EnforcedProof == [sha256 : Digest, uri : Uri]
Verdict       == [result : Results, enforced : Enforced,
                  enforced_proof : EnforcedProof \cup {None}]
CheckEntry    == [check : Check, verdict : Verdict,
                  grade : Grade, authority : Authority]

(***************************************************************************)
(* Result.is_ok: a skipped or inapplicable check is not a failure.         *)
(***************************************************************************)
IsOk(result) == result \notin {"fail", "error", "over_blocked"}

IsEnforced(entry) == entry.verdict.enforced = "enforced"

BindingRank(entry) == CASE entry.verdict.enforced = "enforced" -> 2
                        [] entry.verdict.enforced = "advisory" -> 1
                        [] entry.verdict.enforced = "observed" -> 0
GradeRank(entry)   == CASE entry.grade = "A" -> 2
                        [] entry.grade = "B" -> 1
                        [] entry.grade = "C" -> 0

(* Mutated form: the two ranks are added up. *)
TrustFloor_Sum(entry) == BindingRank(entry) + GradeRank(entry)

(***************************************************************************)
(* trust_floor: the weaker of how strongly the check binds and how strong  *)
(* its evidence is.                                                        *)
(***************************************************************************)
TrustFloor(entry) == IF BindingRank(entry) <= GradeRank(entry)
                     THEN BindingRank(entry) ELSE GradeRank(entry)

(***************************************************************************)
(* check_invariant_e1: an enforced verdict needs reproducible evidence,    *)
(* grade A, or grade B with a rerunnable config_ref.                       *)
(***************************************************************************)
InvariantE1(entry) ==
    \/ ~IsEnforced(entry)
    \/ entry.grade = "A"
    \/ (entry.grade = "B" /\ entry.check.config_ref # None)
=============================================================================
