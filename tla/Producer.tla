------------------------------- MODULE Producer --------------------------------
(***************************************************************************)
(* The commands that make seals (__main__.py): seal, seal-keyless and      *)
(* seal-skillscan, run by any number of processes over one subject, one    *)
(* store and one pair of output files.                                     *)
(*                                                                         *)
(* A command is a sequence of effects: read the subject, collect or append *)
(* rows of the store, load the key, validate and sign, and put each output *)
(* in place through _write_atomic (a temporary file, written, fsynced and  *)
(* renamed).  It may fail or be killed between any two of them, the        *)
(* subject may be rewritten meanwhile, and the power may go.  A process    *)
(* runs one command; a retry is another process with the same job.         *)
(*                                                                         *)
(* The disk: `out' is what the running system sees under a name, `onDisk'  *)
(* what a restart would find there, since a rename reaches the disk at the *)
(* system's leisure; an unsynced file may be found torn.                   *)
(*                                                                         *)
(* `read', `began' and `installed' are history: the bytes a command found  *)
(* under the subject's name, how long the store was then, and what was     *)
(* renamed into place, and by whom.                                        *)
(***************************************************************************)
EXTENDS Profiles, FiniteSets

CONSTANTS
    Procs,          \* the commands that are run
    Jobs,           \* their arguments
    Seeds,          \* what the store may hold at the start
    Unreadable,     \* no subject file
    IllFormed,      \* last segment of an id that Check.from_jsonable rejects
    PowerJobs       \* bound: the power may go while only these are run

(* An entry as a command builds it: nothing has parsed its id yet.         *)
Id       == [ns : Namespace \cup {None}, class : ThreatClass \cup {IllFormed}]
Entry    == [check : [id : Id, kind : CheckKind,
                      config_ref : ConfigRef \cup {None}],
             verdict : Verdict, grade : Grade, authority : Authority]
Row      == [subject : Subject, entry : Entry]
Seal     == [tier : {"T1", "T2"}, subject : Subject, checks : Seq(Entry) \ {<<>>}]
Manifest == [manifest : Content]
Torn     == [torn |-> TRUE]
File     == [text : Seal \cup Manifest \cup {Torn}, synced : BOOLEAN]
Targets  == {"seal", "manifest"}

(* A skillscan-report/v1 that is an object of the right shape.             *)
Report   == [digest : Digest, config_sha256 : ConfigRef,
             checks : Seq([id : Id, result : Results]) \ {<<>>}]

JobType ==
    [cmd        : {"seal", "seal-keyless", "seal-skillscan"},
     kind       : SubjectKind,
     media_type : MediaType \cup {None},
     report     : Report \cup {None},
     authority  : Authority,
     directory  : BOOLEAN,          \* the bundle is a tree, not an archive
     manifest   : BOOLEAN,          \* --manifest-out is given
     sealing    : BOOLEAN]          \* --key and --out are given

ParametersOK ==
    /\ Jobs \subseteq JobType
    /\ \A j \in Jobs : /\ j.cmd = "seal-skillscan" => j.report # None
                       /\ j.cmd # "seal-skillscan" => j.sealing
    /\ IllFormed \notin ThreatClass
    /\ Seeds \subseteq Seq(Row)
    /\ \A seed \in Seeds : \A k \in DOMAIN seed :
          IsAgentTooling(seed[k].subject) => ScanCheck(seed[k].entry)
    /\ Unreadable \notin Content
    /\ PowerJobs \subseteq Jobs

ASSUME ProducerAssumption == ParametersOK

VARIABLES
    live,           \* the subject file, or the bundle
    store,          \* the rows a read of the store returns
    out, onDisk,    \* the output files, and what is on disk under their names
    job, pc,        \* per process
    subject,        \* the Subject a command made
    checks,         \* the entries it is about to store or seal
    stored,         \* how many of them it has appended
    target, text,   \* what _write_atomic writes, and where
    temp,           \* its temporary file
    read, began, installed

vars == <<live, store, out, onDisk, job, pc, subject, checks, stored,
          target, text, temp, read, began, installed>>

disk    == <<out, onDisk, installed>>
writing == <<target, text, temp>>
history == <<read, began>>

Writing == {"write", "sync", "replace"}
Running == {"start", "assemble", "store", "manifest", "key", "sign",
            "mktemp", "announce"} \cup Writing
Ended   == {"done", "failed", "killed"}

TypeOK ==
    /\ live \in Content \cup {Unreadable}
    /\ store \in Seq(Row)
    /\ out \in [Targets -> File \cup {None}]
    /\ onDisk \in [Targets -> File \cup {None}]
    /\ job \in [Procs -> Jobs]
    /\ pc \in [Procs -> Running \cup Ended]
    /\ subject \in [Procs -> Subject \cup {None}]
    /\ checks \in [Procs -> Seq(Entry)]
    /\ stored \in [Procs -> Nat]
    /\ target \in [Procs -> Targets \cup {None}]
    /\ text \in [Procs -> Seal \cup Manifest \cup {None}]
    /\ temp \in [Procs -> File \cup {None}]
    /\ read \in [Procs -> Content \cup {None}]
    /\ began \in [Procs -> Nat]
    /\ installed \subseteq [by : Procs, target : Targets,
                      text : Seal \cup Manifest]

Init ==
    /\ live \in Content
    /\ store \in Seeds
    /\ out = [t \in Targets |-> None] /\ onDisk = out
    /\ job \in [Procs -> Jobs]
    /\ pc = [p \in Procs |-> "start"]
    /\ subject = [p \in Procs |-> None]
    /\ checks = [p \in Procs |-> <<>>]
    /\ stored = [p \in Procs |-> 0]
    /\ target = [p \in Procs |-> None]
    /\ text = [p \in Procs |-> None]
    /\ temp = [p \in Procs |-> None]
    /\ read = [p \in Procs |-> None]
    /\ began = [p \in Procs |-> 0]
    /\ installed = {}

Goto(p, step) == pc' = [pc EXCEPT ![p] = step]

--------------------------------------------------------------------------------
(* seal and seal-keyless: the subject is hashed, then the store is read.   *)

HashSubject(p) ==
    /\ pc[p] = "start" /\ job[p].cmd \in {"seal", "seal-keyless"}
    /\ live # Unreadable
    /\ subject' = [subject EXCEPT ![p] =
                      [kind |-> job[p].kind, digest |-> Sha256(live),
                       media_type |-> job[p].media_type]]
    /\ read' = [read EXCEPT ![p] = live]
    /\ began' = [began EXCEPT ![p] = Len(store)]
    /\ Goto(p, "assemble")
    /\ UNCHANGED <<live, store, disk, job, checks, stored, writing>>

(* Where the rows with that digest stand, and how manieth of them one is.  *)
Places(rows, digest) == {k \in DOMAIN rows : rows[k].subject.digest = digest}
Rank(k, places)      == Cardinality({j \in places : j <= k})

(* Mutated form: every row is taken for one of the subject's. *)
RowsFor_AnySubject(rows, digest) == [k \in DOMAIN rows |-> rows[k].entry]

(* Mutated form: the rows themselves are returned. *)
RowsFor_WholeRows(rows, digest) ==
    SelectSeq(rows, LAMBDA row : row.subject.digest = digest)

(***************************************************************************)
(* read_for_subject: the entries of the rows with that digest, whatever    *)
(* else their subject says.  Every row of the store is parsed on the way,  *)
(* and one that does not parse makes the read raise.                       *)
(***************************************************************************)
RowsFor(rows, digest) ==
    LET own == Places(rows, digest)
    IN [n \in 1..Cardinality(own) |-> rows[CHOOSE k \in own : Rank(k, own) = n].entry]

RowsParse(rows) == \A k \in DOMAIN rows : rows[k].entry.check.id.class # IllFormed

Assemble(p) ==
    /\ pc[p] = "assemble"
    /\ RowsParse(store)
    /\ LET entries == RowsFor(store, subject[p].digest) IN
         /\ entries # <<>>
         /\ checks' = [checks EXCEPT ![p] = entries]
    /\ Goto(p, IF job[p].cmd = "seal" THEN "key" ELSE "sign")
    /\ UNCHANGED <<live, store, disk, job, subject, stored, writing, history>>

--------------------------------------------------------------------------------
(* seal-skillscan: a report becomes rows of the store.                     *)

EntryOf(j, check) ==
    [check |-> [id |-> check.id, kind |-> "review",
                config_ref |-> j.report.config_sha256],
     verdict |-> [result |-> check.result, enforced |-> "observed",
                  enforced_proof |-> None],
     grade |-> "B", authority |-> j.authority]

(* Mutated form: the report's digest is believed. *)
DerivesSubject_Claimed(j, content) ==
    /\ j.kind \in {"skill_bundle", "mcp_server"} /\ j.media_type # None
    /\ j.directory => j.media_type = "bundle-manifest"

(***************************************************************************)
(* derive_subject: identity comes from the bundle's bytes, and a report    *)
(* that claims another one is refused.  A directory stands for the         *)
(* manifest of its files.                                                  *)
(***************************************************************************)
DerivesSubject(j, content) ==
    /\ j.kind \in {"skill_bundle", "mcp_server"} /\ j.media_type # None
    /\ j.directory => j.media_type = "bundle-manifest"
    /\ Sha256(content) = j.report.digest

(* Mutated form: the profile is left to sign_local. *)
Seedable_Unprofiled(made, entries) == TRUE

(***************************************************************************)
(* parse_report and the profile: nothing is stored of a report with a      *)
(* result that no scan has, or outside the agent-tooling profile.          *)
(***************************************************************************)
Seedable(made, entries) ==
    /\ \A entry \in Elements(entries) : entry.verdict.result \in {"pass", "fail", "error"}
    /\ AgentToolingProfile(made, entries, FALSE)

IngestReport(p) ==
    /\ pc[p] = "start" /\ job[p].cmd = "seal-skillscan"
    /\ live # Unreadable /\ DerivesSubject(job[p], live)
    /\ LET j       == job[p]
           made    == [kind |-> j.kind, digest |-> j.report.digest,
                       media_type |-> j.media_type]
           entries == [k \in DOMAIN j.report.checks |->
                          EntryOf(j, j.report.checks[k])]
       IN /\ Seedable(made, entries)
          /\ subject' = [subject EXCEPT ![p] = made]
          /\ checks' = [checks EXCEPT ![p] = entries]
    /\ read' = [read EXCEPT ![p] = live]
    /\ began' = [began EXCEPT ![p] = Len(store)]
    /\ Goto(p, "store")
    /\ UNCHANGED <<live, store, disk, job, stored, writing>>

AfterManifest(j) == IF j.sealing THEN "key" ELSE "announce"
AfterStore(j)    == IF j.directory /\ j.manifest THEN "manifest" ELSE AfterManifest(j)

StoreRow(p) ==
    /\ pc[p] = "store"
    /\ store' = Append(store, [subject |-> subject[p],
                               entry |-> checks[p][stored[p] + 1]])
    /\ stored' = [stored EXCEPT ![p] = @ + 1]
    /\ Goto(p, IF stored'[p] = Len(checks[p]) THEN AfterStore(job[p]) ELSE "store")
    /\ UNCHANGED <<live, disk, job, subject, checks, writing, history>>

(* _write_atomic is called with the manifest. *)
PutManifest(p) ==
    /\ pc[p] = "manifest"
    /\ target' = [target EXCEPT ![p] = "manifest"]
    /\ text' = [text EXCEPT ![p] = [manifest |-> subject[p].digest.sha256]]
    /\ Goto(p, "mktemp")
    /\ UNCHANGED <<live, store, disk, job, subject, checks, stored, temp, history>>

--------------------------------------------------------------------------------
(* Signing.                                                                *)

LoadKey(p) ==
    /\ pc[p] = "key"
    /\ Goto(p, "sign")
    /\ UNCHANGED <<live, store, disk, job, subject, checks, stored, writing,
                   history>>

(* Mutated form: the rules for private seals apply to public ones. *)
MaySign_Private(made, entries, public) ==
    /\ N1Profile(entries, FALSE)
    /\ IsAgentTooling(made) => AgentToolingProfile(made, entries, FALSE)

(***************************************************************************)
(* What sign_local and sign_keyless accept.                                *)
(***************************************************************************)
MaySign(made, entries, public) ==
    /\ N1Profile(entries, public)
    /\ IsAgentTooling(made) => AgentToolingProfile(made, entries, public)

Sign(p) ==
    /\ pc[p] = "sign"
    /\ LET public == job[p].cmd = "seal-keyless" IN
         /\ MaySign(subject[p], checks[p], public)
         /\ text' = [text EXCEPT ![p] =
                       [tier |-> IF public THEN "T2" ELSE "T1",
                        subject |-> subject[p], checks |-> checks[p]]]
    /\ target' = [target EXCEPT ![p] = "seal"]
    /\ Goto(p, "mktemp")
    /\ UNCHANGED <<live, store, disk, job, subject, checks, stored, temp, history>>

--------------------------------------------------------------------------------
(* _write_atomic: what is under the name is the old file or the new one.   *)

MakeTemp(p) ==
    /\ pc[p] = "mktemp"
    /\ temp' = [temp EXCEPT ![p] = [text |-> Torn, synced |-> FALSE]]
    /\ Goto(p, "write")
    /\ UNCHANGED <<live, store, disk, job, subject, checks, stored, target,
                   text, history>>

(* Mutated form: the temporary file is not fsynced. *)
WriteTemp_Unsynced(p) ==
    /\ pc[p] = "write"
    /\ temp' = [temp EXCEPT ![p] = [text |-> text[p], synced |-> FALSE]]
    /\ Goto(p, "replace")
    /\ UNCHANGED <<live, store, disk, job, subject, checks, stored, target,
                   text, history>>

WriteTemp(p) ==
    /\ pc[p] = "write"
    /\ temp' = [temp EXCEPT ![p] = [text |-> text[p], synced |-> FALSE]]
    /\ Goto(p, "sync")
    /\ UNCHANGED <<live, store, disk, job, subject, checks, stored, target,
                   text, history>>

SyncTemp(p) ==
    /\ pc[p] = "sync"
    /\ temp' = [temp EXCEPT ![p] = [text |-> text[p], synced |-> TRUE]]
    /\ Goto(p, "replace")
    /\ UNCHANGED <<live, store, disk, job, subject, checks, stored, target,
                   text, history>>

Replace(p) ==
    /\ pc[p] = "replace"
    /\ out' = [out EXCEPT ![target[p]] = temp[p]]
    /\ temp' = [temp EXCEPT ![p] = None]
    /\ installed' = installed \cup
                       {[by |-> p, target |-> target[p], text |-> temp[p].text]}
    /\ Goto(p, IF target[p] = "manifest" THEN AfterManifest(job[p]) ELSE "announce")
    /\ UNCHANGED <<live, store, onDisk, job, subject, checks, stored, target,
                   text, history>>

(* Saying so may still fail: the output may be closed.                     *)
Announce(p) ==
    /\ pc[p] = "announce"
    /\ Goto(p, "done")
    /\ UNCHANGED <<live, store, disk, job, subject, checks, stored, writing,
                   history>>

--------------------------------------------------------------------------------
(* Failures.                                                               *)

(* Mutated form: the temporary file is left behind. *)
Raise_Litters(p) ==
    /\ pc[p] \in Running
    /\ Goto(p, "failed")
    /\ UNCHANGED <<live, store, disk, job, subject, checks, stored, writing,
                   history>>

(***************************************************************************)
(* Any step may raise (no file, no key, no credential, a full disk), and a *)
(* step whose conditions do not hold can do nothing else.  _write_atomic   *)
(* unlinks its temporary file, if it can (see Kill); the command ends with *)
(* a non-zero status.                                                      *)
(***************************************************************************)
Raise(p) ==
    /\ pc[p] \in Running
    /\ temp' = [temp EXCEPT ![p] = None]
    /\ Goto(p, "failed")
    /\ UNCHANGED <<live, store, disk, job, subject, checks, stored, target,
                   text, history>>

(***************************************************************************)
(* The command ends without having cleaned up.  It is killed; or it raises *)
(* where _write_atomic does not unlink the temporary file: between mkstemp *)
(* and the try, or when unlink itself fails and the file is still there.   *)
(***************************************************************************)
Kill(p) ==
    /\ pc[p] \in Running
    /\ Goto(p, "killed")
    /\ UNCHANGED <<live, store, disk, job, subject, checks, stored, writing,
                   history>>

--------------------------------------------------------------------------------
(* The world beside the commands.                                          *)

SubjectRewritten ==
    /\ live' \in (Content \cup {Unreadable}) \ {live}
    /\ UNCHANGED <<store, disk, job, pc, subject, checks, stored, writing, history>>

PowerMayGo == \A p \in Procs : job[p] \in PowerJobs

(* The directory reaches the disk. *)
DirectoryFlushed ==
    /\ PowerMayGo /\ onDisk # out
    /\ onDisk' = out
    /\ UNCHANGED <<live, store, out, installed, job, pc, subject, checks,
                   stored, writing, history>>

(* What a restart finds of a file. *)
Survives(file, torn) ==
    IF file # None /\ ~file.synced /\ torn THEN [text |-> Torn, synced |-> TRUE]
                                            ELSE file

(***************************************************************************)
(* The power goes: every command dies, unsynced files may be torn, renames *)
(* that had not reached the disk are undone, and so are the last appends   *)
(* to the store, which nobody syncs.                                       *)
(***************************************************************************)
PowerFailure ==
    /\ PowerMayGo /\ \E p \in Procs : pc[p] \in Running \ {"start"}
    /\ pc' = [p \in Procs |-> IF pc[p] \in Running \ {"start"} THEN "killed"
                                                             ELSE pc[p]]
    /\ \E torn \in [Targets -> BOOLEAN] :
          /\ onDisk' = [t \in Targets |-> Survives(onDisk[t], torn[t])]
          /\ out' = onDisk'
    /\ \E n \in 0..Len(store) : store' = SubSeq(store, 1, n)
    /\ UNCHANGED <<live, installed, job, subject, checks, stored, writing, history>>

Step(p) ==
    \/ HashSubject(p) \/ Assemble(p)
    \/ IngestReport(p) \/ StoreRow(p) \/ PutManifest(p)
    \/ LoadKey(p) \/ Sign(p)
    \/ MakeTemp(p) \/ WriteTemp(p) \/ SyncTemp(p) \/ Replace(p)
    \/ Announce(p)
    \/ Raise(p) \/ Kill(p)

Next == (\E p \in Procs : Step(p)) \/ SubjectRewritten \/ DirectoryFlushed
        \/ PowerFailure

Spec == Init /\ [][Next]_vars

--------------------------------------------------------------------------------
(* Properties.                                                             *)

InstalledSeals == {i \in installed : i.target = "seal"}

(* Whatever fails, is killed or loses power, and whoever else writes to    *)
(* the same name, each output is absent or one whole file some command     *)
(* finished.  (__main__.py: _write_atomic.)                                *)
WholeFiles ==
    \A t \in Targets : out[t] # None =>
        \E i \in installed : i.target = t /\ i.text = out[t].text /\ i.text # Torn

(* A seal that over-claims is not minted: when the subject is bound, every *)
(* gate confirms and every proof resolves, the verifier's own judgement    *)
(* trusts each check of every seal that was put in place; the one thing a  *)
(* private seal may still lack is a proof.  (seal.py: the profiles run     *)
(* before signing; profile_agent_tooling.py: "a seal that over-claims must *)
(* be unmintable".)                                                        *)
Judge == INSTANCE VerifierContract WITH
             seal <- None, report <- None,
             opts <- [subject |-> TRUE, reexec |-> TRUE, loader |-> TRUE,
                      max_age |-> None]

NoOverclaimIsMinted ==
    \A i \in InstalledSeals :
        LET seal == i.text IN
        /\ IsAgentTooling(seal.subject) =>
               AgentToolingProfile(seal.subject, seal.checks, FALSE)
        /\ \A entry \in Elements(seal.checks) :
              \/ Judge!Trusted(entry, TRUE, TRUE, TRUE)
              \/ /\ seal.tier = "T1" /\ IsEnforced(entry) /\ InvariantE1(entry)
                 /\ entry.verdict.enforced_proof = None

(* The entries are, in order, what the rows say of the digest.             *)
SaysAll(entries, rows, digest) ==
    LET own == Places(rows, digest)
    IN /\ Len(entries) = Cardinality(own)
       /\ \A k \in own : entries[Rank(k, own)] = rows[k].entry

(* When a seal made from the store is put in place, it says all the store  *)
(* said of its subject, in order and without picking: exactly the          *)
(* subject's rows at one instant since the command began.  A scan's own    *)
(* seal (seal-skillscan) is not made from the store: it says nothing of    *)
(* other rows of its subject, but every check in it has a row by then.     *)
(* (seal.py: assemble; __main__.py:175, 187; store.py: "before they are    *)
(* sealed".)                                                               *)
TellsTheWholeStore(i) ==
    LET seal == i.text IN
    IF job[i.by].cmd = "seal-skillscan"
      THEN \A entry \in Elements(seal.checks) : \E k \in DOMAIN store :
               store[k] = [subject |-> seal.subject, entry |-> entry]
      ELSE \E n \in began[i.by]..Len(store) :
               SaysAll(seal.checks, SubSeq(store, 1, n), seal.subject.digest)

SealsTellTheWholeStore ==
    [][\A i \in installed' \ installed :
           i.target = "seal" => TellsTheWholeStore(i)]_vars

(* A seal is about bytes that its command itself found under the subject's *)
(* name, whatever the report claimed and however often they were rewritten.*)
(* (__main__.py: _cmd_seal; skillscan.py: derive_subject.)                 *)
SealedBytesWereRead ==
    \A i \in InstalledSeals :
        /\ read[i.by] # None
        /\ i.text.subject.digest = Sha256(read[i.by])

(* A command's exit status is the truth: one that succeeds has put its     *)
(* seal in place, if it was to make one; nothing is left to do after that  *)
(* but to say so, so one that fails before has put none; and neither       *)
(* leaves a temporary file, except where cleaning up itself failed, which  *)
(* counts as killed here.  (__main__.py: _write_atomic, main.)             *)
StatusTellsTheOutcome ==
    \A p \in Procs :
        LET sealed == \E i \in InstalledSeals : i.by = p IN
        /\ pc[p] = "done" => (sealed <=> job[p].sealing)
        /\ sealed => pc[p] \in {"announce"} \cup Ended
        /\ pc[p] \in {"done", "failed"} => temp[p] = None

(* No row is stored of a scan that the profile refuses, even by a command  *)
(* that fails later.  (docs/skillscan-report-v1.md: "validates before      *)
(* anything is stored or signed".)                                         *)
OnlyVettedScansAreStored ==
    \A k \in DOMAIN store :
        IsAgentTooling(store[k].subject) => ScanCheck(store[k].entry)

(* store.py:107: reading for a subject gives every check entry with its    *)
(* digest, so no command leaves the store in a state where it raises.      *)
EverySubjectCanBeRead == RowsParse(store)
=============================================================================
