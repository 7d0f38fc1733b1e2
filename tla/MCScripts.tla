------------------------------- MODULE MCScripts -------------------------------
(***************************************************************************)
(* Small instances of Scripts: the files, what they say, and which         *)
(* commands run together.                                                  *)
(***************************************************************************)
EXTENDS Scripts

CONSTANTS destructive, p1, p2, p3,
    threeAsText, yes, notANumber    \* JSON values: "3", true, NaN

(* fs/destructive is a declared class; DESTRUCTIVE makes no id.            *)
Classes == {destructive, "case-1", "case-2", "rights-gate", "provenance-ledger",
            "DESTRUCTIVE"}
MCLastSegment(class) == IF class = "fs/destructive" THEN destructive ELSE class

MCIntOf(raw) == CASE raw = threeAsText -> 3
                  [] raw = yes         -> 1
                  [] raw = notANumber  -> IllTyped
                  [] OTHER             -> raw
MCEesOf(raw) == CASE raw = yes -> 100
                  [] raw \in {threeAsText, notANumber} -> IllTyped
                  [] OTHER     -> raw

(* Files: one source of each kind, the artifact they are about, a bundle.  *)
Paths == {"receipt", "report", "rights", "scan", "artifact",
          "skill", "skill-nfd", "lib", "pyc", "ds-store", "git"}
BundleDirs == {"root", "src", "cache"}
MCDirOf(path) == CASE path \in {"skill", "skill-nfd", "ds-store", "git"} -> "root"
                   [] path = "lib" -> "src"
                   [] path = "pyc" -> "cache"
                   [] OTHER        -> None
MCKey(path) == IF path = "skill-nfd" THEN "skill" ELSE path

CaseRecord(case, result, enforced, proof) ==
    [format |-> "vcr/v0.1", case |-> case, result |-> result,
     enforced |-> enforced, proof |-> proof, evidence |-> Sha256("transcript")]
First  == CaseRecord("case-1", "pass", "observed", FALSE)
Second == CaseRecord("case-2", "fail", "observed", FALSE)

MCReceiptOf(content) ==
    CASE content = "two cases" -> <<First, Second>>
      [] content = "flipped"   -> <<[First EXCEPT !.result = "fail"], Second>>
      [] content = "enforced"  -> <<First, [Second EXCEPT !.enforced = "enforced"]>>
      [] content = "proven"    -> <<First, [Second EXCEPT !.proof = TRUE]>>
      [] content = "foreign"   -> <<[First EXCEPT !.format = "other"]>>
      [] content = "unknown"   -> <<[First EXCEPT !.result = "maybe"]>>
      [] content = "no id"     -> <<[First EXCEPT !.case = "DESTRUCTIVE"]>>
      [] content = "blank"     -> <<>>
      [] OTHER                 -> IllTyped

MCReport ==
    [schema |-> "harnessbench-report/v1",
     corpus |-> [prefix |-> "asi", class |-> destructive],
     threat_class |-> destructive, ees |-> 50,
     enforced |-> 1, advised |-> 0, others |-> 0, n |-> 1,
     config_sha256 |-> Sha256("v1")]

MCReportOf(content) ==
    CASE content = "good"      -> MCReport
      [] content = "better"    -> [MCReport EXCEPT !.ees = 90]
      [] content = "v2"        -> [MCReport EXCEPT !.schema = "harnessbench-report/v2"]
      [] content = "ees 101"   -> [MCReport EXCEPT !.ees = 101]
      [] content = "ees 49"    -> [MCReport EXCEPT !.ees = 49]
      [] content = "nameless"  -> [MCReport EXCEPT !.corpus = IllTyped]
      [] content = "advises"   -> [MCReport EXCEPT !.advised = 1]
      [] content = "classless" -> [MCReport EXCEPT !.threat_class = None]
      [] content = "about v2"  -> [MCReport EXCEPT !.config_sha256 = Sha256("v2")]
      [] content = "as text"   -> [MCReport EXCEPT !.enforced = threeAsText]
      [] content = "no advice" -> [MCReport EXCEPT !.advised = None]
      [] content = "no count"  -> [MCReport EXCEPT !.enforced = notANumber]
      [] content = "ees true"  -> [MCReport EXCEPT !.ees = yes]
      [] content = "ees nan"   -> [MCReport EXCEPT !.ees = notANumber]
      [] content = "slashed"   -> [MCReport EXCEPT !.threat_class = "fs/destructive"]
      [] content = "shouted"   -> [MCReport EXCEPT !.threat_class = "DESTRUCTIVE"]
      [] content = "latin-1"   -> Unparsable
      [] OTHER                 -> NotAReport

MCRightsOf(content) ==
    CASE content = "rights"      -> [artifact |-> Sha256("v1"), ledger |-> Sha256("ledger")]
      [] content = "new rights"  -> [artifact |-> Sha256("v2"), ledger |-> Sha256("ledger")]
      [] content = "no ledger"   -> [artifact |-> Sha256("v1"), ledger |-> IllTyped]
      [] OTHER                   -> IllTyped

MCClaimOf(content) ==
    CASE content = "one file"  -> [key \in {"skill"} |-> "v1"]
      [] content = "two files" -> [key \in {"skill", "lib"} |-> "v1"]
      [] OTHER                 -> IllTyped

Receipts == {"two cases", "flipped", "enforced", "proven", "foreign", "unknown",
             "no id", "blank", "torn"}
Reports  == {"good", "better", "v2", "ees 101", "ees 49", "nameless", "advises",
             "classless", "about v2", "as text", "no advice", "no count", "ees true",
             "ees nan", "slashed", "shouted", "latin-1", "list"}
Rights   == {"rights", "new rights", "no ledger"}
Scans    == {"one file", "two files", "torn"}
Subjects == {"v1", "v2"}
AllContent == Receipts \cup Reports \cup Rights \cup Scans \cup Subjects
                \cup {"transcript", "ledger"}
AllDigests == {Sha256(content) : content \in AllContent}

MCVersions(path) ==
    CASE path = "receipt"  -> {File("two cases"), File("flipped")}
      [] path = "report"   -> {File("good"), File("better"), File("about v2"), None}
      [] path = "rights"   -> {File(content) : content \in Rights}
      [] path = "scan"     -> {File("one file"), None}
      [] path = "artifact" -> {File("v1"), File("v2")}
      [] path \in {"skill", "lib"} -> {File("v1"), File("v2"), Link("v1"), None}
      [] path = "skill-nfd" -> {File("v1"), None}
      [] OTHER              -> {None, Link("v2")}

JobOf(kind, source, subject, out) ==
    [kind |-> kind, source |-> source, subject |-> subject, out |-> out]
Judge(out)      == JobOf("judge", "receipt", "receipt", out)
Harness(out)    == JobOf("harness", "report", "artifact", out)
Manual(out)     == JobOf("manual", "rights", "artifact", out)
Keyless(subject) == JobOf("keyless", None, subject, "t2")
Skillscan       == JobOf("skillscan", "scan", None, None)

(* Commands that meet in practice: rival judges and their seal-keyless,    *)
(* scripts on one artifact, and a scan by itself.                          *)
Triple(one, two, three) ==
    [p \in Procs |-> CASE p = p1 -> one [] p = p2 -> two [] p = p3 -> three]

Together ==
    {Triple(one, Judge("t1"), Keyless("receipt")) : one \in {Judge(None), Judge("t1")}}
    \cup {Triple(Harness(None), Manual("t1"), Keyless("artifact"))}
    \cup {Triple(Skillscan, Skillscan, Skillscan)}

Base == [path \in Paths |->
            CASE path = "receipt"  -> File("two cases")
              [] path = "report"   -> File("good")
              [] path = "rights"   -> File("rights")
              [] path = "scan"     -> File("two files")
              [] path = "artifact" -> File("v1")
              [] path \in {"skill", "lib"} -> File("v1")
              [] OTHER             -> None]

With(path, entry) == [Base EXCEPT ![path] = entry]

AllSeeds ==
    {Base} \cup {With("receipt", File(content)) : content \in Receipts}
           \cup {With("report", File(content)) : content \in Reports}
           \cup {With("scan", File(content)) : content \in Scans}
           \cup {[Base EXCEPT !["skill-nfd"] = nfd, !["pyc"] = pyc, !["ds-store"] = ds,
                     !["lib"] = lib, !["scan"] = scan, !["git"] = pyc] :
                   nfd \in {None, File("v1")}, pyc \in {None, Link("v2"), File("v1")},
                   ds \in {None, File("v1"), Link("v2")},
                   lib \in {None, File("v1"), Link("v1")}, scan \in {File("one file"), File("two files")}}

(* One command alone: the harness script on a report whose EES is 1.01,    *)
(* and a scan of each of the bundles.                                      *)
HarnessJobs == {[p \in Procs |-> Harness("t1")]}
HarnessSeeds == {With("report", File("ees 101"))}
ScanJobs == {[p \in Procs |-> Skillscan]}

Kinds(used) == \A p \in Procs : job[p].kind \in used

(* Commands that are alike start in one order; each set of commands only   *)
(* sees the files it reads vary; and one scan stands for three.            *)
InScope ==
    /\ Kinds({"judge", "keyless"}) =>
          \A path \in Paths \ {"receipt"} : files[path] = Base[path]
    /\ Kinds({"harness", "manual", "keyless"}) =>
          \A path \in Paths \ {"report", "rights", "artifact"} : files[path] = Base[path]
    /\ Kinds({"skillscan"}) =>
          /\ \A path \in {"receipt", "report", "rights", "artifact"} : files[path] = Base[path]
          /\ \A p \in Procs \ {p1} : pc[p] = "start"

(* Steps that change nothing for the others are left out: a command that   *)
(* stops where it holds nothing in the making is one that never goes on;   *)
(* seal-keyless begins when there is a store, and files change before,     *)
(* while a command that reads them runs.                                   *)
InOrder ==
    /\ \A p \in Procs : pc'[p] = "stopped" /\ pc[p] # "stopped" =>
          pc[p] \in {"append", "write"} /\ p # p3
    /\ pc[p3] = "start" /\ pc'[p3] # "start" => /\ store # <<>>
                                  /\ ~(job[p1].out = "t1" /\ job[p2].out = "t1")
    /\ rewrites' # rewrites =>
          /\ pc[p3] = "start"
          /\ \E p \in Running : \A path \in Path :
                files'[path] # files[path] =>
                    path \in {job[p].source, job[p].subject} \cup BundlePaths
=============================================================================
