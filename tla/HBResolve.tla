------------------------------ MODULE HBResolve --------------------------------
(***************************************************************************)
(* resolve_enforced_proof (hbresolve.py): what a HarnessBench report must  *)
(* say, and how it must be pinned, before it counts as the proof behind a  *)
(* check.  The code returns at the first rule that fails; every return but *)
(* the last is "not resolved", so the rules are conjuncts here.            *)
(*                                                                         *)
(* A report is the byte string read from the proof file.  ReportOf gives   *)
(* what json.loads makes of it: a record, NotAReport when it raises a      *)
(* JSONDecodeError or the value is no object, Unparsable when it raises    *)
(* anything else, for which there is no handler: bytes that are not UTF-8, *)
(* objects nested too deep, an integer of too many digits.  EES is in      *)
(* hundredths.                                                             *)
(***************************************************************************)
EXTENDS VCR, Integers

CONSTANTS
    ReportOf(_),    \* content -> report record, NotAReport or Unparsable
    NotAReport,     \* not JSON, or a JSON value that is no object
    Unparsable,     \* bytes on which json.loads raises something else
    Unreadable,     \* the loader raises: missing file, outside the proof root
    IllTyped        \* a JSON value of the wrong type

EesFloor == 50

(***************************************************************************)
(* _infer_threat_class: "asi05-destructive-execution" names the class      *)
(* after its first dash; a corpus of another shape names itself, which is  *)
(* a class only when it has no prefix.                                     *)
(***************************************************************************)
InferThreatClass(corpus) ==
    IF corpus.prefix \in {"asi", ""} THEN corpus.class ELSE corpus

(***************************************************************************)
(* report.get("threat_class") or _infer_threat_class(corpus): an absent or *)
(* empty declaration falls back on the corpus name.                        *)
(***************************************************************************)
ThreatClassOf(report) ==
    IF report.threat_class = None THEN InferThreatClass(report.corpus)
                                  ELSE report.threat_class

WellFormedReport(report) ==
    /\ report.schema = "harnessbench-report/v1"
    /\ report.corpus # IllTyped
    /\ report.threat_class # IllTyped
    /\ report.ees \in 0..100
    /\ \A count \in {report.enforced, report.advised, report.others, report.n} :
          count \in Nat

(***************************************************************************)
(* The measured configuration enforces: it blocked at least once, never    *)
(* merely advised, and was effective enough.                               *)
(***************************************************************************)
Enforces(report) ==
    /\ report.enforced > 0
    /\ report.advised = 0
    /\ report.ees >= EesFloor

CoversClass(report, entry) == ThreatClassOf(report) = entry.check.id.class

(* Mutated form: the name match is taken for a binding when no digest is declared. *)
StronglyBound_ByName(report, entry) ==
    report.config_sha256 \in {None, entry.check.config_ref}

(***************************************************************************)
(* The strong binding: the report measured the very configuration the      *)
(* check refers to.                                                        *)
(***************************************************************************)
StronglyBound(report, entry) ==
    /\ report.config_sha256 # IllTyped
    /\ entry.check.config_ref # None
    /\ report.config_sha256 = entry.check.config_ref

(***************************************************************************)
(* json.loads is reached only by the bytes that the check pins; what it    *)
(* raises on them is not caught here, nor by the caller.                   *)
(***************************************************************************)
ParserRaises(entry, raw) ==
    /\ raw # Unreadable
    /\ Sha256(raw) = entry.verdict.enforced_proof.sha256
    /\ ReportOf(raw) = Unparsable

(***************************************************************************)
(* The whole resolution of an entry's proof, given the bytes the loader    *)
(* returned.  The bytes that are hashed are the bytes that are parsed.     *)
(***************************************************************************)
Resolves(entry, raw) ==
    LET report == ReportOf(raw) IN
    /\ raw # Unreadable
    /\ Sha256(raw) = entry.verdict.enforced_proof.sha256
    /\ report \notin {NotAReport, Unparsable}
    /\ WellFormedReport(report)
    /\ CoversClass(report, entry)
    /\ Enforces(report)
    /\ StronglyBound(report, entry)
=============================================================================
