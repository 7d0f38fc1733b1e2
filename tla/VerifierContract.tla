--------------------------- MODULE VerifierContract ----------------------------
(***************************************************************************)
(* What a verification promises, without saying how: one report, in which  *)
(* every check is judged by itself, from its own content, the three seal-  *)
(* wide verdicts and the answers given about that check alone: no check's  *)
(* failure taints another's finding.  Or no report at all, for the reasons *)
(* that MayRefuse has.                                                     *)
(***************************************************************************)
EXTENDS Profiles

VARIABLES seal, opts, report

NoReport == [status |-> "none"]
Refused  == [status |-> "refused"]

(***************************************************************************)
(* The judgement of one check.  `gate' and `proven' are what the outside   *)
(* world said of this check, if it was asked.                              *)
(***************************************************************************)
Trusted(entry, bound, gate, proven) ==
    LET proof == entry.verdict.enforced_proof IN
    /\ bound
    /\ InvariantE1(entry)
    /\ IsEnforced(entry) /\ entry.grade = "A" => opts.reexec /\ gate
    /\ IsEnforced(entry) => proof # None
    /\ proof # None => opts.loader /\ proven
    /\ entry.grade = "C" => entry.authority = "operator"

Judgement(entry, is_trusted) ==
    [check |-> entry.check, result |-> entry.verdict.result,
     trust_floor |-> TrustFloor(entry), trusted |-> is_trusted,
     result_ok |-> IsOk(entry.verdict.result)]

InProfile ==
    IsAgentTooling(seal.subject) =>
        AgentToolingProfile(seal.subject, seal.checks, FALSE)

(***************************************************************************)
(* A report the promise allows.                                            *)
(***************************************************************************)
Allowed(r) ==
    /\ r.status = "report"
    /\ r.subject_ok => opts.subject
    /\ r.signature_ok => \E k \in DOMAIN seal.signatures :
                             seal.signatures[k] \in {"valid", "lax"}
    /\ seal.tier = "T2" => r.signature_ok
    /\ seal.tier = "T1" => r.freshness_ok
    /\ r.freshness_ok /\ seal.tier = "T2" /\ opts.max_age # None =>
           seal.integrated # None
    /\ LET bound == InProfile /\ r.subject_ok /\ r.signature_ok /\ r.freshness_ok
       IN \E gate, proven \in [DOMAIN seal.checks -> BOOLEAN] :
            r.findings = [k \in DOMAIN seal.checks |->
                             Judgement(seal.checks[k],
                                       Trusted(seal.checks[k], bound,
                                               gate[k], proven[k]))]

Init == report = NoReport

(***************************************************************************)
(* Only a seal that is no good, or something read outside it (the subject, *)
(* or a proof, which is read only beside a subject), ends in no report.    *)
(***************************************************************************)
MayRefuse ==
    \/ seal.malformed # "no"
    \/ seal.tier = "T2" /\ seal.signatures # <<"valid">>
    \/ opts.subject

Publish == report = NoReport /\ Allowed(report')
Refuse  == report = NoReport /\ MayRefuse /\ report' = Refused

Next == (Publish \/ Refuse) /\ UNCHANGED <<seal, opts>>

Spec == Init /\ [][Next]_<<seal, opts, report>>
=============================================================================
