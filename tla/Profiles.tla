------------------------------- MODULE Profiles --------------------------------
(***************************************************************************)
(* The producer's profile rules (profile.py, profile_agent_tooling.py).    *)
(* The sealer runs them before it signs; the verifier runs the agent-      *)
(* tooling profile again on subjects of that class.                        *)
(***************************************************************************)
EXTENDS VCR, Sequences

Elements(checks) == {checks[k] : k \in DOMAIN checks}

(***************************************************************************)
(* One check under validate_n1_profile: E1, operator attestation behind    *)
(* grade C, and on a public seal a proof behind every enforced verdict.    *)
(***************************************************************************)
N1Check(entry, public) ==
    /\ InvariantE1(entry)
    /\ entry.grade = "C" => entry.authority = "operator"
    /\ public /\ IsEnforced(entry) => entry.verdict.enforced_proof # None

N1Profile(checks, public) ==
    /\ checks # <<>>
    /\ \A entry \in Elements(checks) : N1Check(entry, public)

IsAgentTooling(subject) ==
    \/ subject.kind \in {"skill_bundle", "mcp_server"}
    \/ subject.media_type \in {"bundle-manifest", "mcpb"}

(***************************************************************************)
(* One check under validate_agent_tooling_profile: a scan/ check of kind   *)
(* review with a pinned ruleset, never enforced, with a result that says   *)
(* an attempt was made and evidence that is not human attestation.         *)
(***************************************************************************)
ScanCheck(entry) ==
    /\ entry.check.id.ns = "scan"
    /\ entry.check.kind = "review"
    /\ entry.check.config_ref # None
    /\ ~IsEnforced(entry)
    /\ entry.verdict.result \in {"pass", "fail", "error"}
    /\ entry.grade \in {"A", "B"}

AgentToolingProfile(subject, checks, public) ==
    /\ subject.kind \in {"skill_bundle", "mcp_server", "artifact"}
    /\ subject.media_type # None
    /\ \A entry \in Elements(checks) : ScanCheck(entry)
    /\ N1Profile(checks, public)
=============================================================================
