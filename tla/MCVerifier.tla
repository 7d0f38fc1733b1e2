------------------------------ MODULE MCVerifier -------------------------------
(***************************************************************************)
(* Small instances of Verifier: the seals, arguments and proof reports the *)
(* runs choose from.                                                       *)
(***************************************************************************)
EXTENDS BrowserVerifier, MCChecks

CONSTANT exfiltration

Classes  == {destructive, exfiltration}
Configs  == {"cfg", "other-cfg"}
Uris     == {"report"}

(***************************************************************************)
(* Reports: one that proves the check, and variations of it, each with one *)
(* thing wrong (or, last, unusual and still right).                        *)
(***************************************************************************)
GoodReport ==
    [schema |-> "harnessbench-report/v1",
     corpus |-> [prefix |-> "asi", class |-> destructive],
     threat_class |-> None, ees |-> 50,
     enforced |-> 1, advised |-> 0, others |-> 0, n |-> 1,
     config_sha256 |-> "cfg"]

Variation(name) ==
    CASE name = "good"         -> GoodReport
      [] name = "schema"       -> [GoodReport EXCEPT !.schema = "other"]
      [] name = "corpus"       -> [GoodReport EXCEPT !.corpus = IllTyped]
      [] name = "class type"   -> [GoodReport EXCEPT !.threat_class = IllTyped]
      [] name = "class"        -> [GoodReport EXCEPT !.threat_class = exfiltration]
      [] name = "prefix"       -> [GoodReport EXCEPT !.corpus.prefix = "eu"]
      [] name = "nan"          -> [GoodReport EXCEPT !.ees = IllTyped]
      [] name = "ees 101"      -> [GoodReport EXCEPT !.ees = 101]
      [] name = "ees 49"       -> [GoodReport EXCEPT !.ees = 49]
      [] name = "count"        -> [GoodReport EXCEPT !.others = IllTyped]
      [] name = "negative"     -> [GoodReport EXCEPT !.enforced = -1]
      [] name = "never blocks" -> [GoodReport EXCEPT !.enforced = 0]
      [] name = "advises"      -> [GoodReport EXCEPT !.advised = 1]
      [] name = "undeclared"   -> [GoodReport EXCEPT !.config_sha256 = None]
      [] name = "other config" -> [GoodReport EXCEPT !.config_sha256 = "other-cfg"]
      [] name = "renamed"      -> [GoodReport EXCEPT !.corpus.prefix = "eu",
                                      !.threat_class = destructive]

AllReports == {"good", "schema", "corpus", "class type", "class", "prefix",
               "nan", "ees 101", "ees 49", "count", "negative", "never blocks",
               "advises", "undeclared", "other config", "renamed", "list",
               "not UTF-8"}
TwoReports == {"good", "other config"}
TwoSubjects == {"v1", "v2"}
AllContent == AllReports \cup TwoSubjects

MCReportOf(content) ==
    CASE content \in AllReports \ {"list", "not UTF-8"} -> Variation(content)
      [] content = "not UTF-8"                          -> Unparsable
      [] OTHER                                          -> NotAReport

SealOf(tier, malformed, signatures, integrated, kind, media_type, checks) ==
    [tier |-> tier, malformed |-> malformed, oddity |-> "none",
     signatures |-> signatures, integrated |-> integrated,
     subject |-> [kind |-> kind, digest |-> Sha256("v1"), media_type |-> media_type],
     checks |-> checks]

UpTo2(S) == {<<x>> : x \in S} \cup {<<x, y>> : x \in S, y \in S}

OptionsOf(subject, rerun, loader, max_age) ==
    {[subject |-> s, reexec |-> r, loader |-> l, max_age |-> m] :
        s \in subject, r \in rerun, l \in loader, m \in max_age}

(***************************************************************************)
(* Run verifier_local: T1 seals of one or two checks, every argument.      *)
(***************************************************************************)
LocalSeals ==
    {SealOf("T1", "no", sigs, None, "artifact", None, checks) :
        sigs \in {<<"rejected">>, <<"rejected", "valid">>},
        checks \in UpTo2({EnforcedA, EnforcedB, BreaksE1, HumanAgent})
                    \cup {<<EnforcedA, x>> : x \in {EnforcedBare, Advisory,
                              AdvisoryProven, EnforcedFailed, HumanOperator}}}
    \cup {SealOf("T1", bad, <<"valid">>, None, "artifact", None, <<Advisory>>) :
             bad \in {"envelope", "statement"}}
    \cup {SealOf("T1", "no", <<"valid">>, None, kind, media, checks) :
             kind \in {"skill_bundle", "harness_config"},
             media \in {None, "bundle-manifest"},
             checks \in UpTo2({Scan, RuntimeClaim, ScanSkipped})}
    \cup {SealOf("T1", bad, sigs, None, "artifact", None, <<EnforcedFailed>>) :
             bad \in {"no", "signatures", "coupling", "respelled", "record"},
             sigs \in UpTo2(SignatureKind)}
    \cup {[SealOf("T1", "no", sigs, None, "artifact", None, <<Advisory>>)
              EXCEPT !.oddity = oddity] :
             oddity \in {"lax-payload", "loose-digest"}, sigs \in UpTo2({"valid", "lax"})}
LocalOptions == OptionsOf(BOOLEAN, BOOLEAN, BOOLEAN, {None})

(***************************************************************************)
(* Also in it: every report, pinned by an enforced check.                  *)
(***************************************************************************)
ProofSeals ==
    {SealOf("T1", "no", <<"valid">>, None, "artifact", None,
            <<[EnforcedB EXCEPT !.verdict.enforced_proof = Pinned(report),
                                !.check.config_ref = config]>>) :
        report \in AllReports, config \in Configs}
ProofOptions == OptionsOf({TRUE}, {FALSE}, {TRUE}, {None})

AllSeals   == LocalSeals \cup ProofSeals
AllOptions == LocalOptions \cup ProofOptions

(* Of the proof reports, the seals above need only two. *)
ReportsInScope ==
    IF seal \in ProofSeals THEN opts \in ProofOptions
                           ELSE files["report"] \in TwoReports \cup {Unreadable}

(***************************************************************************)
(* Run verifier_keyless: T2 seals, the freshness bound and a gate that may *)
(* hang.                                                                   *)
(***************************************************************************)
KeylessSeals ==
    {SealOf("T2", bad, sigs, at, "artifact", None, checks) :
        bad \in {"no", "envelope", "statement"}, sigs \in {<<"valid">>, <<"rejected">>},
        at \in {None, 1}, checks \in {<<EnforcedA>>, <<HumanOperator, EnforcedB>>,
                                     <<BreaksE1, EnforcedA>>}}
KeylessOptions == OptionsOf(BOOLEAN, {TRUE}, {TRUE}, {None, 0, 1})

(* Which proofs resolve, told from the instance: the bytes the seal pinned *)
(* were read, they are a report that is right in every respect, and it     *)
(* measured the check's own configuration.  Neither weaker nor stricter.   *)
(* (hbresolve.py: resolve_enforced_proof.)                                 *)
ProofVerdictIsExact ==
    \A k \in DOMAIN findings :
        findings[k].enforced_proof \in {"resolved", "unproven"} =>
            (findings[k].enforced_proof = "resolved" <=>
                \E c \in calls :
                    /\ c.of = "loader" /\ c.check = k
                    /\ <<c.answer, seal.checks[k].check.config_ref>> \in
                          {<<"good", "cfg">>, <<"renamed", "cfg">>,
                           <<"other config", "other-cfg">>}
                    /\ Pinned(c.answer) = seal.checks[k].verdict.enforced_proof)

(***************************************************************************)
(* A run that compares the code with what its comments say.                *)
(***************************************************************************)

(* verify.py:9: the verifier resolves an enforced_proof against            *)
(* HarnessBench or marks "gate unproven"; so a session that has read a     *)
(* proof, whatever it found, does not end without a verdict.               *)
ProofsAreJudged ==
    pc = "raised" => ~\E c \in calls : c.of = "loader"
=============================================================================
