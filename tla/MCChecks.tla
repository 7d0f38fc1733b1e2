------------------------------- MODULE MCChecks --------------------------------
(***************************************************************************)
(* The checks the instances choose from, one per way a check can stand     *)
(* towards the rules.                                                      *)
(***************************************************************************)
EXTENDS VCR

CONSTANT destructive    \* a threat class

Pinned(content) == [sha256 |-> Sha256(content), uri |-> "report"]

CheckOf(ns, config, result, enforced, pinned, grade, authority) ==
    [check |-> [id |-> [ns |-> ns, class |-> destructive], kind |-> "review",
                config_ref |-> config],
     verdict |-> [result |-> result, enforced |-> enforced,
                  enforced_proof |-> pinned],
     grade |-> grade, authority |-> authority]

EnforcedA      == CheckOf("other", "cfg", "pass", "enforced", Pinned("good"), "A", "agent")
EnforcedB      == [EnforcedA EXCEPT !.grade = "B"]
EnforcedFailed == [EnforcedA EXCEPT !.grade = "B", !.verdict.result = "fail"]
EnforcedBare   == [EnforcedA EXCEPT !.verdict.enforced_proof = None]
BreaksE1       == [EnforcedB EXCEPT !.check.config_ref = None]
Advisory       == CheckOf("other", None, "skip", "advisory", None, "B", "agent")
AdvisoryProven == [EnforcedB EXCEPT !.verdict.enforced = "advisory"]
HumanOperator  == CheckOf("other", None, "pass", "observed", None, "C", "operator")
HumanAgent     == [HumanOperator EXCEPT !.authority = "agent"]
Scan           == CheckOf("scan", "cfg", "fail", "observed", None, "B", "agent")
RuntimeClaim   == [Scan EXCEPT !.check.id.ns = "runtime"]
ScanSkipped    == [Scan EXCEPT !.verdict.result = "skip"]
=============================================================================
