-------------------------------- MODULE Scripts --------------------------------
(***************************************************************************)
(* The commands that turn files into stored checks and seals: the three    *)
(* example scripts (seal_operant_j_run.py with operantj.py,                *)
(* seal_harness_config.py, seal_field_manual.py), the identity part of     *)
(* seal-skillscan (skillscan.py), and seal-keyless, which the scripts name *)
(* as what to run next.                                                    *)
(*                                                                         *)
(* A script reads its source (receipt, report or rights record), decides,  *)
(* hashes the subject, hashes the source again, appends row after row to   *)
(* the one store of all commands, collects all rows of its subject, signs  *)
(* them and rewrites its output file in place.  It may raise or be killed  *)
(* between any two of these.  A row reaches the store in one step here;    *)
(* JsonlStore models the append.                                           *)
(*                                                                         *)
(* `by' in a row (who appended it), `during' in a seal (who was between    *)
(* its first and last row as the seal was assembled) and `met' (pairs of   *)
(* commands that ran at one time) are history.                             *)
(***************************************************************************)
EXTENDS HBResolve, Profiles, Inputs

CONSTANTS
    Out,            \* output files
    ReceiptOf(_),   \* content -> its records, or IllTyped
    RightsOf(_),    \* content -> [artifact, ledger], or IllTyped
    IntOf(_),       \* JSON value -> what int() makes of it, or IllTyped: it raises
    EesOf(_),       \* JSON value -> hundredths, if an int, a float or a bool that
                    \* compares with one, or else IllTyped (a string, NaN)
    LastSegment(_), \* declared threat class -> its part after the last slash
    IllFormed,      \* classes that make an id the parser refuses
    ClaimOf(_),     \* content -> manifest a scan report is about, or IllTyped
    Jobs,           \* bound: what the commands are asked to do together
    Seeds           \* bound: the files they start from

Kind == {"judge", "harness", "manual", "skillscan", "keyless"}
Job  == [kind : Kind, source : Path \cup {None}, subject : Path \cup {None},
         out : Out \cup {None}]

(* A record of a receipt, as far as it has been looked at. *)
Record == [format : STRING, case : ThreatClass, result : STRING,
           enforced : STRING, proof : BOOLEAN, evidence : Digest]

(* A row's evidence is what the source says it is, a digest or not.        *)
Evidence == Digest \cup {IllTyped}
Row  == [subject : Digest, entry : CheckEntry, evidence : Evidence,
         by : Procs, nth : Nat]

(* A seal over some rows of the store, each at its place there; and what   *)
(* an output file may be instead.                                          *)
IsSeal(s) ==
    /\ s \in [subject : Digest, rows : {s.rows}, by : Procs, during : SUBSET Procs]
    /\ DOMAIN s.rows \subseteq Nat /\ \A k \in DOMAIN s.rows : s.rows[k] \in Row
Absent    == [text |-> "absent"]
Truncated == [text |-> "truncated"]
Mixed     == [text |-> "mixed"]

(***************************************************************************)
(* What the parsers yield where they do not raise, and what the command    *)
(* lines say: a judge run's subject is its receipt, and every command but  *)
(* seal-skillscan has a subject.                                           *)
(***************************************************************************)
ASSUME ScriptsAssumption ==
    /\ \A content \in Content :
          /\ ReceiptOf(content) \in {IllTyped} \cup Seq(Record)
          /\ LET report == ReportOf(content) IN report \notin {NotAReport, Unparsable} =>
                /\ report.threat_class \notin {None, IllTyped} =>
                      LastSegment(report.threat_class) \in ThreatClass
                /\ report.config_sha256 \in ConfigRef \cup {None, IllTyped}
                /\ report.ees \in 0..100 => EesOf(report.ees) = report.ees
                /\ \A count \in {report.enforced, report.advised} :
                      count \in Nat => IntOf(count) = count
          /\ RightsOf(content) # IllTyped => RightsOf(content).ledger \in Evidence
    /\ None \notin Nat
    /\ \A keys \in SUBSET {Key(path) : path \in Path} : IllTyped \notin [keys -> Content]
    /\ Unreadable \notin Content
    /\ {"rights-gate", "provenance-ledger"} \subseteq ThreatClass /\ "report" \in Uri
    /\ Seeds \subseteq [Path -> Entry \cup {None}]
    /\ Jobs \subseteq [Procs -> Job]
    /\ \A jobs \in Jobs : \A p \in Procs :
          LET j == jobs[p] IN
          /\ j.kind # "keyless" => j.source \in Path
          /\ j.kind # "skillscan" => j.subject \in Path
          /\ j.kind = "judge" => j.subject = j.source
          /\ j.kind = "keyless" => j.out \in Out

VARIABLES
    job,
    held,           \* what the command read from its source
    digest,         \* the subject digest it computed
    pinned,         \* the digest of the source it computed afterwards
    next,           \* how many of its entries it has appended
    store,          \* its rows; the first append makes the file
    seal,           \* the seal it signed
    outs,           \* the output files
    met             \* history

vars == <<inputVars, pc, walk, job, held, digest, pinned, next, store, seal, outs, met>>
memory  == <<held, digest, pinned, seal>>
storing == <<next, store>>

Steps == {"start", "read", "walk", "hash", "pin", "append", "assemble", "open",
          "write"}

Init ==
    /\ InputsInit(Seeds)
    /\ pc = [p \in Procs |-> "start"]
    /\ job \in Jobs
    /\ held = [p \in Procs |-> None]
    /\ digest = [p \in Procs |-> None]
    /\ pinned = [p \in Procs |-> None]
    /\ next = [p \in Procs |-> 0] /\ store = <<>>
    /\ seal = [p \in Procs |-> Absent]
    /\ outs = [out \in Out |-> Absent]
    /\ met = {}

Running == {p \in Procs : pc[p] \notin {"start"} \cup Ended}

--------------------------------------------------------------------------------
(* What each script makes of its source.                                   *)

(***************************************************************************)
(* entry_from_vcr_v01: a record of another format, one that claims an      *)
(* enforcement or one that carries a proof pointer, at either of its two   *)
(* places, refuses the whole receipt.                                      *)
(***************************************************************************)
JudgeRecord(record) ==
    /\ record.format = "vcr/v0.1"
    /\ record.enforced = "observed"
    /\ ~record.proof
    /\ record.result \in Results
    /\ record.case \notin IllFormed

JudgeVets(content) ==
    LET records == ReceiptOf(content) IN
    /\ records # IllTyped /\ records # <<>>
    /\ \A k \in DOMAIN records : JudgeRecord(records[k])

JudgeEntry(record) ==
    [check |-> [id |-> [ns |-> "other", class |-> record.case], kind |-> "review",
                config_ref |-> None],
     verdict |-> [result |-> record.result, enforced |-> "observed",
                  enforced_proof |-> None],
     grade |-> "B", authority |-> "agent"]

(* int(verdicts.get(name, 0)): "3", 3.5 and True are counts, and so is     *)
(* none at all.                                                            *)
CountOf(raw) == IF raw = None THEN 0 ELSE IntOf(raw)

(***************************************************************************)
(* The harness script's own look at the report: any schema with the prefix *)
(* harnessbench-report/, no upper bound on the EES, no look at the corpus  *)
(* or at counts other than the two, and numbers of any sort.               *)
(***************************************************************************)
HarnessVets(content) ==
    LET report == ReportOf(content) IN
    /\ report \notin {NotAReport, Unparsable}
    /\ report.schema \in {"harnessbench-report/v1", "harnessbench-report/v2"}
    /\ report.config_sha256 \notin {None, IllTyped}
    /\ report.threat_class \notin {None, IllTyped}
    /\ EesOf(report.ees) # IllTyped /\ EesOf(report.ees) >= EesFloor
    /\ IllTyped \notin {CountOf(report.enforced), CountOf(report.advised)}
    /\ CountOf(report.enforced) > 0 /\ CountOf(report.advised) = 0

(***************************************************************************)
(* The id is guard/ and the declared class as it is, so that the class the *)
(* resolver reads off it is only what follows the last slash.  The id is   *)
(* not parsed here.                                                        *)
(***************************************************************************)
HarnessEntry(report, proof) ==
    [check |-> [id |-> [ns |-> "other", class |-> LastSegment(report.threat_class)],
                kind |-> "guard", config_ref |-> report.config_sha256],
     verdict |-> [result |-> "pass", enforced |-> "enforced",
                  enforced_proof |-> [sha256 |-> proof, uri |-> "report"]],
     grade |-> "B", authority |-> "agent"]

ManualEntry(class) ==
    [check |-> [id |-> [ns |-> "other", class |-> class], kind |-> "human",
                config_ref |-> None],
     verdict |-> [result |-> "pass", enforced |-> "advisory",
                  enforced_proof |-> None],
     grade |-> "B", authority |-> "operator"]

Vets(kind, content) ==
    CASE kind = "judge"     -> JudgeVets(content)
      [] kind = "harness"   -> HarnessVets(content)
      [] kind = "manual"    -> RightsOf(content) # IllTyped
      [] kind = "skillscan" -> ClaimOf(content) # IllTyped

(* The subject the source is about, for the two scripts that compare.      *)
AboutSubject(kind, content, subject) ==
    CASE kind = "harness" -> ReportOf(content).config_sha256 = subject
      [] kind = "manual"  -> RightsOf(content).artifact = subject
      [] OTHER            -> TRUE

(***************************************************************************)
(* The entries, each with its evidence digest, that a command appends.     *)
(***************************************************************************)
ToAppend(kind, content, pin) ==
    CASE kind = "judge" ->
           [k \in DOMAIN ReceiptOf(content) |->
               <<JudgeEntry(ReceiptOf(content)[k]), ReceiptOf(content)[k].evidence>>]
      [] kind = "harness" -> <<<<HarnessEntry(ReportOf(content), pin), pin>>>>
      [] kind = "manual"  -> <<<<ManualEntry("rights-gate"), pin>>,
             <<ManualEntry("provenance-ledger"), RightsOf(content).ledger>>>>

--------------------------------------------------------------------------------
(* The steps of a command.                                                 *)

(* Mutated form: the check for an old store is dropped. *)
Start_OldStore(p) ==
    /\ pc[p] = "start"
    /\ Begin(p)
    /\ met' = met \cup {{p, q} : q \in Running}
    /\ Goto(p, IF job[p].kind = "keyless" THEN "hash" ELSE "read")
    /\ UNCHANGED <<files, rewrites, walk, job, memory, storing, outs>>

(***************************************************************************)
(* Only the judge script refuses a store that exists already.              *)
(***************************************************************************)
Start(p) ==
    /\ pc[p] = "start"
    /\ Begin(p)
    /\ met' = met \cup {{p, q} : q \in Running}
    /\ Goto(p, IF job[p].kind = "judge" /\ store # <<>> THEN "refused"
               ELSE IF job[p].kind = "keyless" THEN "hash" ELSE "read")
    /\ UNCHANGED <<files, rewrites, walk, job, memory, storing, outs>>

Bytes(path) == IF files[path] = None THEN None ELSE files[path].bytes

Read(p) ==
    LET content == Bytes(job[p].source) IN
    /\ pc[p] = "read"
    /\ IF content # None /\ Vets(job[p].kind, content)
         THEN /\ held' = [held EXCEPT ![p] = content]
              /\ IF job[p].kind = "skillscan"
                   THEN Goto(p, "walk") /\ StartWalk(p)
                   ELSE Goto(p, "hash") /\ UNCHANGED walk
         ELSE Goto(p, "refused") /\ UNCHANGED <<held, walk>>
    /\ UNCHANGED <<inputVars, job, digest, pinned, seal, storing, outs, met>>

(* Mutated form: the source is not hashed. *)
AfterHash_Unpinned(kind) == IF kind = "keyless" THEN "assemble" ELSE "append"

AfterHash(kind) == CASE kind = "judge"   -> "append"
                     [] kind = "keyless" -> "assemble"
                     [] OTHER            -> "pin"

(* Mutated form: the source is not compared with the subject. *)
Hash_AnySubject(p) ==
    LET content == Bytes(job[p].subject) IN
    /\ pc[p] = "hash"
    /\ IF content # None
         THEN /\ digest' = [digest EXCEPT ![p] = Sha256(content)]
              /\ Goto(p, AfterHash(job[p].kind))
         ELSE Goto(p, "refused") /\ UNCHANGED digest
    /\ UNCHANGED <<inputVars, walk, job, held, pinned, seal, storing, outs, met>>

(***************************************************************************)
(* sha256_file of the subject.  A judge run's subject is the receipt, read *)
(* again.                                                                  *)
(***************************************************************************)
Hash(p) ==
    LET content == Bytes(job[p].subject) IN
    /\ pc[p] = "hash"
    /\ IF content # None /\ AboutSubject(job[p].kind, held[p], Sha256(content))
         THEN /\ digest' = [digest EXCEPT ![p] = Sha256(content)]
              /\ Goto(p, AfterHash(job[p].kind))
         ELSE Goto(p, "refused") /\ UNCHANGED digest
    /\ UNCHANGED <<inputVars, walk, job, held, pinned, seal, storing, outs, met>>

(* sha256_file of the report or rights record, read again.                 *)
Pin(p) ==
    LET content == Bytes(job[p].source) IN
    /\ pc[p] = "pin"
    /\ IF content # None
         THEN /\ pinned' = [pinned EXCEPT ![p] = Sha256(content)]
              /\ Goto(p, "append")
         ELSE Goto(p, "refused") /\ UNCHANGED pinned
    /\ UNCHANGED <<inputVars, walk, job, held, digest, seal, storing, outs, met>>

Entries(p)     == ToAppend(job[p].kind, held[p], pinned[p])
AllAppended(p) == next[p] = Len(Entries(p))

AppendRow(p) ==
    LET n     == next[p] + 1
        entry == Entries(p)[n]
    IN /\ pc[p] = "append" /\ ~AllAppended(p)
       /\ next' = [next EXCEPT ![p] = n]
       /\ store' = Append(store, [subject |-> digest[p], entry |-> entry[1],
                                   evidence |-> entry[2], by |-> p, nth |-> n])
       /\ UNCHANGED <<inputVars, pc, walk, job, memory, outs, met>>

Appended(p) ==
    /\ pc[p] = "append" /\ AllAppended(p)
    /\ Goto(p, IF job[p].out = None THEN "done" ELSE "assemble")
    /\ UNCHANGED <<inputVars, walk, job, memory, storing, outs, met>>

Appending == {p \in Procs : pc[p] = "append" /\ ~AllAppended(p)}

About(subject) == {k \in DOMAIN store : store[k].subject = subject}

(* Mutated form: only the last row of a subject is kept. *)
Collected_Latest(p) ==
    [k \in {k \in About(digest[p]) : \A j \in About(digest[p]) : j <= k} |-> store[k]]

(***************************************************************************)
(* store.read_for_subject: the rows of the subject in the store's order,   *)
(* whoever stored them.                                                    *)
(***************************************************************************)
Collected(p) == [k \in About(digest[p]) |-> store[k]]

ChecksOf(found) == [k \in DOMAIN found |-> found[k].entry]

(* The parser takes a stored row back: its id and its evidence digest.     *)
ReadsBack(row) ==
    row.entry.check.id.class \notin IllFormed /\ row.evidence # IllTyped

(***************************************************************************)
(* assemble and sign: a row of the store that the parser refuses, whatever *)
(* its subject, no rows, or a broken profile raises.                       *)
(***************************************************************************)
Assemble(p) ==
    /\ pc[p] = "assemble"
    /\ IF /\ \A k \in DOMAIN store : ReadsBack(store[k])
          /\ N1Profile(ChecksOf(Collected(p)), job[p].kind = "keyless")
         THEN /\ seal' = [seal EXCEPT ![p] = [subject |-> digest[p], rows |-> Collected(p),
                                               by |-> p, during |-> Appending]]
              /\ Goto(p, IF job[p].kind = "keyless" THEN "write" ELSE "open")
         ELSE Goto(p, "refused") /\ UNCHANGED seal
    /\ UNCHANGED <<inputVars, walk, job, held, digest, pinned, storing, outs, met>>

(* open(args.out, "w"): what was there is gone. *)
OpenOut(p) ==
    /\ pc[p] = "open"
    /\ outs' = [outs EXCEPT ![job[p].out] = Truncated]
    /\ Goto(p, "write")
    /\ UNCHANGED <<inputVars, walk, job, memory, storing, met>>

(***************************************************************************)
(* The text goes over what another script wrote meanwhile, and covers it   *)
(* or not.  seal-keyless replaces the file.                                *)
(***************************************************************************)
WriteOut(p) ==
    /\ pc[p] = "write"
    /\ \E text \in {seal[p], Mixed} :
          /\ text = Mixed => /\ job[p].kind # "keyless"
                            /\ outs[job[p].out] # Truncated
          /\ outs' = [outs EXCEPT ![job[p].out] = text]
    /\ Goto(p, "done")
    /\ UNCHANGED <<inputVars, walk, job, memory, storing, met>>

(* derive_subject: the bundle's own manifest must be the one reported on.  *)
CompareClaim(p) ==
    /\ Walked(p)
    /\ Goto(p, IF walk[p].manifest # NoManifest
                    /\ walk[p].manifest = ClaimOf(held[p]) THEN "done" ELSE "refused")
    /\ UNCHANGED <<inputVars, walk, job, memory, storing, outs, met>>

(* Any step may raise (a key that does not load, no space) or be the last. *)
Stop(p) ==
    /\ p \in Running
    /\ Goto(p, "stopped")
    /\ UNCHANGED <<inputVars, walk, job, memory, storing, outs, met>>

Step(p) == \/ Start(p) \/ Read(p) \/ Hash(p) \/ Pin(p)
           \/ ListDirectory(p) /\ UNCHANGED <<job, memory, storing, outs, met>>
           \/ Look(p)          /\ UNCHANGED <<job, memory, storing, outs, met>>
           \/ HashFile(p)      /\ UNCHANGED <<job, memory, storing, outs, met>>
           \/ CompareClaim(p)
           \/ AppendRow(p) \/ Appended(p) \/ Assemble(p)
           \/ OpenOut(p) \/ WriteOut(p) \/ Stop(p)

Change(path) == Rewrite(path) /\ UNCHANGED <<job, memory, storing, outs, met>>

Next == (\E p \in Procs : Step(p)) \/ (\E path \in Path : Change(path))

Spec == Init /\ [][Next]_vars

--------------------------------------------------------------------------------
(* Properties.                                                             *)

TypeOK ==
    /\ InputsTypeOK
    /\ pc \in [Procs -> Steps \cup Ended]
    /\ job \in [Procs -> Job]
    /\ held \in [Procs -> Content \cup {None}]
    /\ digest \in [Procs -> Digest \cup {None}]
    /\ pinned \in [Procs -> Digest \cup {None}]
    /\ next \in [Procs -> Nat] /\ store \in Seq(Row)
    /\ DOMAIN seal = Procs
    /\ \A p \in Procs : seal[p] = Absent \/ IsSeal(seal[p])
    /\ DOMAIN outs = Out
    /\ \A out \in Out :
          outs[out] \in {Absent, Truncated, Mixed} \/ IsSeal(outs[out])
    /\ met \subseteq SUBSET Procs

WasThere(p, path) == {entry.bytes : entry \in since[p][path] \ {None}}

(* What makes a row right, told from the row, what its source said as the  *)
(* script read it and what it was as the script hashed it: a judge row is  *)
(* an observed record of the receipt whose digest is its subject; a        *)
(* harness row is about the configuration its report measured and pins the *)
(* report, and the resolver takes a report that is well formed and names   *)
(* its class without a slash; a manual row's rights record is about its    *)
(* subject.                                                                *)
Backs(kind, said, hashed, row) ==
    CASE kind = "judge" ->
           /\ row.subject = Sha256(hashed)
           /\ \E k \in DOMAIN ReceiptOf(said) :
                 LET record == ReceiptOf(said)[k] IN
                 /\ record.enforced = "observed" /\ ~record.proof
                 /\ row.entry.check.id.class = record.case
                 /\ row.entry.verdict.result = record.result
                 /\ row.evidence = record.evidence
      [] kind = "harness" ->
           LET report == ReportOf(said) IN
           /\ report.config_sha256 = row.subject
           /\ row.entry.check.id.class = LastSegment(report.threat_class)
           /\ row.evidence = Sha256(hashed)
           /\ row.entry.verdict.enforced_proof.sha256 = row.evidence
           /\ /\ said = hashed
              /\ WellFormedReport(report)
              /\ LastSegment(report.threat_class) = report.threat_class
              => Resolves(row.entry, said)
      [] kind = "manual" ->
           /\ RightsOf(said).artifact = row.subject
           /\ row.evidence \in {Sha256(hashed), RightsOf(said).ledger}

(* Every stored row is about bytes its script found in the subject, and is *)
(* backed by its source: by one version of it where the source did not     *)
(* change meanwhile, by at most two where it did, the one that was read    *)
(* for what it says and the one that was hashed.  (operantj.py:170 and     *)
(* 181; seal_harness_config.py:79 and 108; seal_field_manual.py:60 and     *)
(* 76.)                                                                    *)
EvidenceBacksTheRow ==
    \A k \in DOMAIN store :
        LET row == store[k]
            p   == row.by
        IN /\ \E content \in WasThere(p, job[p].subject) : row.subject = Sha256(content)
           /\ \E said, hashed \in WasThere(p, job[p].source) :
                 Backs(job[p].kind, said, hashed, row)

(* Two judge runs share a store only if they overlapped: the test for an   *)
(* old store keeps every later run out, after a stopped one too.           *)
(* (seal_operant_j_run.py:43.)                                             *)
OneJudgePerStore ==
    \A j, k \in DOMAIN store :
        LET p == store[j].by
            q == store[k].by
        IN p # q /\ job[p].kind = "judge" /\ job[q].kind = "judge" =>
              {p, q} \in met

Sealed == {outs[out] : out \in Out} \ {Absent, Truncated, Mixed}

OwnIn(s, p) == {k \in DOMAIN s.rows : s.rows[k].by = p}

(* None of the entries of p is missing. *)
HasAll(s, p) == {s.rows[k].nth : k \in OwnIn(s, p)} = DOMAIN Entries(p)

(* A seal has all of the checks of a command or none, unless the command   *)
(* was stopped, or was not through when the seal was assembled.  What a    *)
(* stopped script left in the store can be sealed as if it were whole.     *)
(* (store.py: read_for_subject; seal_operant_j_run.py:50.)                 *)
OnlyStoppedRunsAreSealedInPart ==
    \A s \in Sealed : \A p \in Procs \ s.during :
        OwnIn(s, p) # {} /\ pc[p] # "stopped" => HasAll(s, p)

(* A script that ended well has its seal in its own output file, with all  *)
(* its checks in the order of its source, whatever other scripts stored.   *)
DoneMeansSealed ==
    \A p \in Procs :
        /\ pc[p] = "done" /\ job[p].kind \notin {"keyless", "skillscan"}
        /\ job[p].out # None
        /\ \A q \in Procs \ {p} : job[q].out # job[p].out
        => LET s == outs[job[p].out] IN
           /\ s \in Sealed /\ HasAll(s, p)
           /\ \A k \in OwnIn(s, p) :
                 /\ <<s.rows[k].entry, s.rows[k].evidence>> = Entries(p)[s.rows[k].nth]
                 /\ \A j \in OwnIn(s, p) : j < k <=> s.rows[j].nth < s.rows[k].nth

Scanned(p) == job[p].kind = "skillscan" /\ pc[p] = "done"
Counts(path) == /\ path \in BundlePaths
                /\ ~Noise(path) /\ path \notin NoiseNames

(* What an accepted bundle is taken to be was there, file by file, while   *)
(* it was walked; and a file of the identity that was there all along is   *)
(* in it, and was not a link all along.  Noise is passed over, links among *)
(* it too.  (bundle.py:54-74.)                                             *)
AcceptedManifestWasThere ==
    \A p \in Procs : Scanned(p) =>
        /\ \A key \in DOMAIN walk[p].manifest :
              \E path \in BundlePaths :
                  /\ Counts(path) /\ Key(path) = key
                  /\ walk[p].manifest[key] \in WasThere(p, path)
        /\ \A path \in BundlePaths : Counts(path) /\ None \notin since[p][path] =>
              /\ Key(path) \in DOMAIN walk[p].manifest
              /\ \E entry \in since[p][path] : entry.kind = "file"
        /\ \E content \in WasThere(p, job[p].source) :
              ClaimOf(content) = walk[p].manifest

(* The manifest of a tree, from what each path of the bundle was.          *)
WasIn(p)    == [path \in BundlePaths |-> CHOOSE entry \in since[p][path] : TRUE]
Tree(was)   == {path \in BundlePaths : Counts(path) /\ was[path] # None}
ManifestOf(was) ==
    [key \in {Key(path) : path \in Tree(was)} |->
        was[CHOOSE path \in Tree(was) : Key(path) = key].bytes]
HasManifest(was) ==
    /\ Tree(was) # {}
    /\ \A path \in BundlePaths :
          ~Noise(path) /\ was[path] # None => was[path].kind = "file"
    /\ \A x, y \in Tree(was) : Key(x) = Key(y) => x = y

Quiet(p) == \A path \in BundlePaths \cup {job[p].source} : Untouched(p, path)

ClaimsTheTree(p) ==
    /\ HasManifest(WasIn(p))
    /\ \E content \in WasThere(p, job[p].source) : ClaimOf(content) = ManifestOf(WasIn(p))

(* In a bundle that nobody touches meanwhile a scan is accepted exactly    *)
(* when the report claims the manifest of the tree and the tree has one:   *)
(* no links that are not noise, no two files of one name, at least one     *)
(* file.                                                                   *)
(* (bundle.py: canonical_manifest; skillscan.py: derive_subject.)          *)
QuietBundlesAreJudgedExactly ==
    \A p \in Procs :
        job[p].kind = "skillscan" /\ pc[p] \in {"done", "refused"} /\ Quiet(p) =>
            (pc[p] = "done" <=> ClaimsTheTree(p))

(* bundle.py:48: any symlink in the tree raises.  No bundle is accepted    *)
(* that had a link in it from beginning to end.                            *)
AnySymlinkIsRefused ==
    \A p \in Procs : Scanned(p) =>
        \A path \in BundlePaths :
            \E entry \in since[p][path] : entry = None \/ entry.kind = "file"

(* seal_harness_config.py:54: the script mirrors the resolver's floor so   *)
(* that it refuses to seal what verify would reject.                       *)
HarnessSealsResolve ==
    \A s \in Sealed : \A k \in DOMAIN s.rows :
        LET p == s.rows[k].by IN
        job[p].kind = "harness" /\ Untouched(p, job[p].source) =>
            \A content \in WasThere(p, job[p].source) :
                Resolves(s.rows[k].entry, content)
=============================================================================
