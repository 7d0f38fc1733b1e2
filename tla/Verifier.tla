------------------------------- MODULE Verifier --------------------------------
(***************************************************************************)
(* One verification session of verify.py: verify_local_seal (T1) and       *)
(* verify_keyless_seal (T2), step by step, beside the world it reads.      *)
(*                                                                         *)
(* The session reads that world at different instants: the subject file    *)
(* once, the clock once, one gate process per enforced grade-A check, one  *)
(* proof file per check with a proof.  Between any two steps the subject   *)
(* may be rewritten, a proof file replaced or removed, and time passes.    *)
(*                                                                         *)
(* The variables `started', `served' and `calls' are history: no action of *)
(* the session reads them, only the properties do.                         *)
(***************************************************************************)
EXTENDS Profiles, HBResolve

CONSTANTS
    Seals,          \* the seals a session may be given
    Options,        \* the arguments a session may be given
    Subjects,       \* contents the subject file may take
    Reports,        \* contents a proof file may take
    MaxClock        \* bound on the clock

(***************************************************************************)
(* How a seal may fail to parse: no DSSE envelope; an envelope that only   *)
(* Envelope.from_jsonable refuses (its signature list, a payload that is   *)
(* not padded); no Statement in it (not JSON, a duplicate key, another     *)
(* type, no digest); a Statement subject that is not the predicate's, or   *)
(* that repeats a predicate digest _sha256 has to normalise, for it is     *)
(* compared raw; a payload that only Python refuses (a byte order mark, a  *)
(* name too long, an unknown enum value, an integer of too many digits).   *)
(*                                                                         *)
(* A signature: valid under the key, not valid, or valid but marked with   *)
(* another key's id.  "lax" and "ill-encoded" are a valid and an invalid   *)
(* one whose text is not strictly base64: standard_b64decode skips what    *)
(* does not belong to the alphabet.                                        *)
(*                                                                         *)
(* An oddity is a liberty the session allows and no decision of it sees:   *)
(* a payload of lax base64, no vcr_version, a null duration, NaN where no  *)
(* field is read ("lax-payload"), or a predicate digest in capitals or     *)
(* between blanks, which _sha256 normalises ("loose-digest").              *)
(***************************************************************************)
SignatureKind == {"valid", "lax", "rejected", "misattributed", "ill-encoded"}
Accepted      == {"valid", "lax"}

SealType ==
    [tier        : {"T1", "T2"},
     malformed   : {"no", "envelope", "signatures", "statement", "coupling",
                    "respelled", "record"},
     oddity      : {"none", "lax-payload", "loose-digest"},
     signatures  : Seq(SignatureKind),
     integrated  : (Nat \ {0}) \cup {None},  \* Rekor's integratedTime
     subject     : Subject,
     checks      : Seq(CheckEntry) \ {<<>>}]

OptionsType ==
    [subject : BOOLEAN,                      \* a live subject is supplied
     reexec  : BOOLEAN,                      \* a re-executor is supplied
     loader  : BOOLEAN,                      \* a proof root is supplied
     max_age : Nat \cup {None}]              \* the freshness bound requested

ASSUME ConstantsAssumption ==
    /\ Seals \subseteq SealType
    /\ Options \subseteq OptionsType
    /\ Subjects \subseteq Content /\ Reports \subseteq Content
    /\ Unreadable \notin Content
    /\ MaxClock \in Nat

VARIABLES
    live,           \* the bytes at subject_path
    files,          \* the bytes at each proof uri
    clock,          \* time.time()
    seal, opts,     \* the call's arguments
    pc,             \* where the session stands
    subject_ok, signature_ok, freshness_ok,
    idx,            \* the check under the loop
    trusted, reexec, proof,      \* the loop's locals
    findings,       \* the EntryFindings produced so far
    started,        \* history: the clock when the session began
    served,         \* history: what the subject file held during the session
    calls           \* history: what gates and loader answered

world   == <<live, files, clock, served>>
args    == <<seal, opts, started>>
flags   == <<subject_ok, signature_ok, freshness_ok>>
locals  == <<trusted, reexec, proof>>
vars    == <<world, args, pc, flags, idx, locals, findings, calls>>

Steps == {"load", "parse", "subject", "signature", "freshness", "profile",
          "e1", "reexec", "gate", "proof", "authority", "done", "raised"}

Reexecutions == {"confirmed", "not-applicable", "not-run", "FAILED",
                 "producer-trusted"}
Proofs       == {"resolved", "unproven", "not-run", "n/a", "violated"}
Finding      == [check : Check, result : Results, trust_floor : 0..2,
                 reexecution : Reexecutions, enforced_proof : Proofs,
                 trusted : BOOLEAN, result_ok : BOOLEAN]
Call         == [of : {"gate"}, check : Nat, answer : BOOLEAN]
                \cup [of : {"loader"}, check : Nat,
                      answer : Content \cup {Unreadable}]

TypeOK ==
    /\ live \in Subjects \cup {Unreadable}
    /\ files \in [Uri -> Reports \cup {Unreadable}]
    /\ clock \in Nat /\ started \in Nat
    /\ seal \in Seals /\ opts \in Options
    /\ pc \in Steps
    /\ subject_ok \in BOOLEAN /\ signature_ok \in BOOLEAN
    /\ freshness_ok \in BOOLEAN /\ trusted \in BOOLEAN
    /\ idx \in 1..Len(seal.checks) + 1
    /\ reexec \in Reexecutions /\ proof \in Proofs
    /\ findings \in Seq(Finding)
    /\ served \subseteq Subjects \cup {Unreadable}
    /\ calls \subseteq Call

--------------------------------------------------------------------------------
(* The report a session ends with (VerificationReport).                    *)

Authentic ==
    /\ subject_ok /\ signature_ok /\ freshness_ok
    /\ \A k \in DOMAIN findings : findings[k].trusted

ChecksPassed == \A k \in DOMAIN findings : findings[k].result_ok

Passes(authentic_only) == Authentic /\ (authentic_only \/ ChecksPassed)

--------------------------------------------------------------------------------
Init ==
    /\ seal \in Seals /\ opts \in Options
    /\ live \in Subjects \cup {Unreadable}
    /\ files \in [Uri -> Reports \cup {Unreadable}]
    /\ clock \in 0..MaxClock
    /\ pc = "load"
    /\ subject_ok = FALSE /\ signature_ok = FALSE /\ freshness_ok = TRUE
    /\ idx = 1
    /\ trusted = FALSE /\ reexec = "not-run" /\ proof = "not-run"
    /\ findings = <<>>
    /\ started = clock /\ served = {live} /\ calls = {}

Goto(step) == pc' = step

(***************************************************************************)
(* load_envelope: one line of the seal file, parsed as a DSSE envelope.    *)
(***************************************************************************)
EnvelopeParses == seal.malformed \notin {"envelope", "signatures"}

LoadEnvelope ==
    /\ pc = "load" /\ seal.tier = "T1"
    /\ Goto(IF EnvelopeParses THEN "parse" ELSE "raised")
    /\ UNCHANGED <<world, args, flags, idx, locals, findings, calls>>

(* Mutated form: a bundle is parsed without being verified. *)
VerifyBundle_Unchecked ==
    /\ pc = "load" /\ seal.tier = "T2"
    /\ Goto("parse") /\ signature_ok' = TRUE
    /\ UNCHANGED <<world, args, subject_ok, freshness_ok, idx, locals,
                   findings, calls>>

(***************************************************************************)
(* verify_bundle_keyless: raises unless the certificate chain, the         *)
(* expected identity, the signature and the Rekor inclusion all hold.      *)
(***************************************************************************)
VerifyBundle ==
    /\ pc = "load" /\ seal.tier = "T2"
    /\ IF EnvelopeParses /\ seal.signatures = <<"valid">>
         THEN Goto("parse") /\ signature_ok' = TRUE
         ELSE Goto("raised") /\ UNCHANGED signature_ok
    /\ UNCHANGED <<world, args, subject_ok, freshness_ok, idx, locals,
                   findings, calls>>

(***************************************************************************)
(* parse_statement and the payload type: untrusted content is validated    *)
(* before anything in it is used.                                          *)
(***************************************************************************)
ParseStatement ==
    /\ pc = "parse"
    /\ Goto(IF seal.malformed # "no" THEN "raised" ELSE "subject")
    /\ UNCHANGED <<world, args, flags, idx, locals, findings, calls>>

(* Mutated form: a seal verified in isolation passes for a current one. *)
SubjectMatches_FailsOpen == opts.subject => Sha256(live) = seal.subject.digest

(***************************************************************************)
(* _check_subject: without a live subject the seal proves only the past.   *)
(***************************************************************************)
SubjectMatches == opts.subject /\ Sha256(live) = seal.subject.digest

CheckSubject ==
    /\ pc = "subject"
    /\ IF opts.subject /\ live = Unreadable
         THEN Goto("raised") /\ UNCHANGED subject_ok
         ELSE /\ subject_ok' = SubjectMatches
              /\ Goto(IF seal.tier = "T1" THEN "signature" ELSE "freshness")
    /\ UNCHANGED <<world, args, signature_ok, freshness_ok, idx, locals,
                   findings, calls>>

(***************************************************************************)
(* _verify_signature_local: the first signature the key accepts; verify    *)
(* refuses one that is marked with another key's id.                       *)
(***************************************************************************)
VerifySignatureLocal ==
    /\ pc = "signature"
    /\ signature_ok' = (\E k \in DOMAIN seal.signatures :
                            seal.signatures[k] \in Accepted)
    /\ Goto("profile")
    /\ UNCHANGED <<world, args, subject_ok, freshness_ok, idx, locals,
                   findings, calls>>

(* Mutated form: a seal is stale when its age reaches the bound. *)
IsFresh_Strict ==
    \/ opts.max_age = None
    \/ /\ seal.integrated # None
       /\ clock < seal.integrated + opts.max_age

(* Mutated form: an unreadable integratedTime passes for a fresh one. *)
IsFresh_FailsOpen ==
    \/ opts.max_age = None
    \/ seal.integrated = None
    \/ clock <= seal.integrated + opts.max_age

(***************************************************************************)
(* _freshness: the requested bound against Rekor's integratedTime, read    *)
(* once; a bound that cannot be evaluated fails closed.                    *)
(***************************************************************************)
IsFresh ==
    \/ opts.max_age = None
    \/ /\ seal.integrated # None
       /\ clock <= seal.integrated + opts.max_age

CheckFreshness ==
    /\ pc = "freshness"
    /\ freshness_ok' = IsFresh
    /\ Goto("profile")
    /\ UNCHANGED <<world, args, subject_ok, signature_ok, idx, locals,
                   findings, calls>>

--------------------------------------------------------------------------------
(* The loop of _verify_entries over seal.checks.                           *)

Entry == seal.checks[idx]

(* Mutated form: external calls before the signature is known to hold. *)
AllowExternal_Unsigned == subject_ok /\ freshness_ok

(* Mutated form: external calls for a seal that is too old. *)
AllowExternal_Stale == subject_ok /\ signature_ok

(***************************************************************************)
(* allow_external: nothing outside the session is consulted on behalf of a *)
(* seal that is not signed, bound to the live subject and fresh.  The      *)
(* local path has freshness_ok TRUE, the keyless one signature_ok TRUE.    *)
(***************************************************************************)
AllowExternal == subject_ok /\ signature_ok /\ freshness_ok

EntryFinding(entry, reexecution, enforced_proof, is_trusted) ==
    [check |-> entry.check, result |-> entry.verdict.result,
     trust_floor |-> TrustFloor(entry), reexecution |-> reexecution,
     enforced_proof |-> enforced_proof, trusted |-> is_trusted,
     result_ok |-> IsOk(entry.verdict.result)]

FailFinding(entry) == EntryFinding(entry, "not-run", "violated", FALSE)

ViolatesProfile ==
    /\ IsAgentTooling(seal.subject)
    /\ ~AgentToolingProfile(seal.subject, seal.checks, FALSE)

(***************************************************************************)
(* A seal over a skill or an MCP server that breaks the agent-tooling      *)
(* profile is refused check by check, without consulting anything.         *)
(***************************************************************************)
CheckProfile ==
    /\ pc = "profile"
    /\ IF ViolatesProfile
         THEN /\ findings' = [k \in DOMAIN seal.checks |->
                                  FailFinding(seal.checks[k])]
              /\ Goto("done")
         ELSE Goto("e1") /\ UNCHANGED findings
    /\ UNCHANGED <<world, args, flags, idx, locals, calls>>

(* Append the finding of the current check and take the next one.          *)
Record(finding) ==
    /\ findings' = Append(findings, finding)
    /\ idx' = idx + 1
    /\ Goto(IF idx = Len(seal.checks) THEN "done" ELSE "e1")

(* Mutated form: `trusted' is not reset between checks. *)
BeginEntry_NoReset ==
    /\ pc = "e1" /\ InvariantE1(Entry)
    /\ trusted' = (idx = 1 \/ trusted)
    /\ reexec' = "not-applicable" /\ proof' = "n/a"
    /\ Goto("reexec")
    /\ UNCHANGED <<world, args, flags, idx, findings, calls>>

(***************************************************************************)
(* The top of the loop body: E1 is structural, a violation ends this       *)
(* check's turn at once.                                                   *)
(***************************************************************************)
BeginEntry ==
    /\ pc = "e1" /\ InvariantE1(Entry)
    /\ trusted' = TRUE /\ reexec' = "not-applicable" /\ proof' = "n/a"
    /\ Goto("reexec")
    /\ UNCHANGED <<world, args, flags, idx, findings, calls>>

RejectEntry ==
    /\ pc = "e1" /\ ~InvariantE1(Entry)
    /\ Record(FailFinding(Entry))
    /\ UNCHANGED <<world, args, flags, locals, calls>>

NeedsRerun(entry) == IsEnforced(entry) /\ entry.grade = "A"

(***************************************************************************)
(* Step 3 without a gate process: external calls withheld, no re-executor, *)
(* grade B taken on the producer's word, or nothing to re-run.             *)
(***************************************************************************)
WithholdReexec ==
    /\ pc = "reexec"
    /\ ~AllowExternal \/ (NeedsRerun(Entry) /\ ~opts.reexec)
    /\ reexec' = "not-run" /\ trusted' = FALSE
    /\ Goto("proof")
    /\ UNCHANGED <<world, args, flags, idx, proof, findings, calls>>

SkipReexec ==
    /\ pc = "reexec" /\ AllowExternal /\ ~NeedsRerun(Entry)
    /\ reexec' = IF IsEnforced(Entry) /\ Entry.grade = "B"
                 THEN "producer-trusted" ELSE "not-applicable"
    /\ Goto("proof")
    /\ UNCHANGED <<world, args, flags, idx, trusted, proof, findings, calls>>

(***************************************************************************)
(* Step 3 with one: subprocess.run starts the gate and waits for it.  It   *)
(* exits 0, fails (exit code or launch error), or is killed after 30 s.    *)
(***************************************************************************)
StartGate ==
    /\ pc = "reexec" /\ AllowExternal /\ NeedsRerun(Entry) /\ opts.reexec
    /\ Goto("gate")
    /\ UNCHANGED <<world, args, flags, idx, locals, findings, calls>>

(* Mutated form: a gate that ran counts, whatever it said. *)
GateReturns_AnyExit(confirmed) ==
    /\ reexec' = "confirmed"
    /\ calls' = calls \cup {[of |-> "gate", check |-> idx, answer |-> confirmed]}
    /\ Goto("proof")
    /\ UNCHANGED <<world, args, flags, idx, trusted, proof, findings>>

GateReturns(confirmed) ==
    /\ reexec' = IF confirmed THEN "confirmed" ELSE "FAILED"
    /\ trusted' = (trusted /\ confirmed)
    /\ calls' = calls \cup {[of |-> "gate", check |-> idx, answer |-> confirmed]}
    /\ Goto("proof")
    /\ UNCHANGED <<world, args, flags, idx, proof, findings>>

GateExits    == pc = "gate" /\ \E code_ok \in BOOLEAN : GateReturns(code_ok)
(* Mutated form: subprocess.run is called without a timeout. *)
GateTimesOut_Never == FALSE

GateTimesOut == pc = "gate" /\ GateReturns(FALSE)

(***************************************************************************)
(* Step 4: an enforced_proof is resolved through the loader; an enforced   *)
(* verdict without one is a gate unproven.                                 *)
(***************************************************************************)
Proof == Entry.verdict.enforced_proof

WithholdProof ==
    /\ pc = "proof" /\ Proof # None
    /\ ~AllowExternal \/ ~opts.loader
    /\ proof' = "not-run" /\ trusted' = FALSE
    /\ Goto("authority")
    /\ UNCHANGED <<world, args, flags, idx, reexec, findings, calls>>

(* Mutated form: an exception of the loader ends the verification. *)
ResolveProof_Propagates ==
    /\ pc = "proof" /\ Proof # None /\ AllowExternal /\ opts.loader
    /\ LET raw == files[Proof.uri] IN
         /\ ~ParserRaises(Entry, raw)
         /\ proof' = IF Resolves(Entry, raw) THEN "resolved" ELSE "unproven"
         /\ trusted' = (trusted /\ Resolves(Entry, raw))
         /\ calls' = calls \cup {[of |-> "loader", check |-> idx, answer |-> raw]}
         /\ Goto(IF raw = Unreadable THEN "raised" ELSE "authority")
    /\ UNCHANGED <<world, args, flags, idx, reexec, findings>>

ResolveProof ==
    /\ pc = "proof" /\ Proof # None /\ AllowExternal /\ opts.loader
    /\ LET raw == files[Proof.uri] IN
         /\ ~ParserRaises(Entry, raw)
         /\ proof' = IF Resolves(Entry, raw) THEN "resolved" ELSE "unproven"
         /\ trusted' = (trusted /\ Resolves(Entry, raw))
         /\ calls' = calls \cup {[of |-> "loader", check |-> idx, answer |-> raw]}
    /\ Goto("authority")
    /\ UNCHANGED <<world, args, flags, idx, reexec, findings>>

(***************************************************************************)
(* An exception of the parser that resolve_enforced_proof does not catch   *)
(* goes through _verify_entries, and the findings so far are lost.         *)
(***************************************************************************)
AbortOnProof ==
    /\ pc = "proof" /\ Proof # None /\ AllowExternal /\ opts.loader
    /\ LET raw == files[Proof.uri] IN
         /\ ParserRaises(Entry, raw)
         /\ calls' = calls \cup {[of |-> "loader", check |-> idx, answer |-> raw]}
    /\ Goto("raised")
    /\ UNCHANGED <<world, args, flags, idx, locals, findings>>

NoProof ==
    /\ pc = "proof" /\ Proof = None
    /\ proof' = IF IsEnforced(Entry) THEN "unproven" ELSE "n/a"
    /\ trusted' = (trusted /\ ~IsEnforced(Entry))
    /\ Goto("authority")
    /\ UNCHANGED <<world, args, flags, idx, reexec, findings, calls>>

(***************************************************************************)
(* Grade C stands only on operator authority; then the finding is made.    *)
(***************************************************************************)
AuthorityHolds(entry) == entry.grade = "C" => entry.authority = "operator"

RecordEntry ==
    /\ pc = "authority"
    /\ Record(EntryFinding(Entry, reexec, proof,
                           trusted /\ AuthorityHolds(Entry)))
    /\ UNCHANGED <<world, args, flags, locals, calls>>

--------------------------------------------------------------------------------
(* The world beside the session.                                           *)

SubjectRewritten ==
    /\ live' \in (Subjects \cup {Unreadable}) \ {live}
    /\ served' = served \cup {live'}
    /\ UNCHANGED <<files, clock, args, pc, flags, idx, locals, findings, calls>>

ProofReplaced ==
    /\ \E uri \in Uri, raw \in Reports \cup {Unreadable} :
          /\ raw # files[uri]
          /\ files' = [files EXCEPT ![uri] = raw]
    /\ UNCHANGED <<live, clock, served, args, pc, flags, idx, locals,
                   findings, calls>>

Tick ==
    /\ clock < MaxClock
    /\ clock' = clock + 1
    /\ UNCHANGED <<live, files, served, args, pc, flags, idx, locals,
                   findings, calls>>

Environment == SubjectRewritten \/ ProofReplaced \/ Tick

--------------------------------------------------------------------------------
(* Everything the session does of its own accord; a gate's exit is up to   *)
(* the gate.                                                               *)

SessionStep ==
    \/ LoadEnvelope \/ VerifyBundle \/ ParseStatement
    \/ CheckSubject \/ VerifySignatureLocal \/ CheckFreshness
    \/ CheckProfile \/ BeginEntry \/ RejectEntry
    \/ WithholdReexec \/ SkipReexec \/ StartGate \/ GateTimesOut
    \/ WithholdProof \/ ResolveProof \/ AbortOnProof \/ NoProof
    \/ RecordEntry

Next == SessionStep \/ GateExits \/ Environment

Spec == Init /\ [][Next]_vars

(***************************************************************************)
(* The session is one thread that is always scheduled, and subprocess.run  *)
(* enforces its timeout, so a hung gate is killed.  Nothing is assumed of  *)
(* the gate or of the environment.                                         *)
(***************************************************************************)
FairSpec == Spec /\ WF_vars(SessionStep)

--------------------------------------------------------------------------------
(* Properties.                                                             *)

SubjectServed == \E bytes \in served : Sha256(bytes) = seal.subject.digest

SignatureValid ==
    \E k \in DOMAIN seal.signatures : seal.signatures[k] \in Accepted

FreshAt(time) ==
    seal.tier = "T2" /\ opts.max_age # None =>
        /\ seal.integrated # None
        /\ time <= seal.integrated + opts.max_age

(* The age was within the bound when the session began; the clock only     *)
(* advances, so a fresh verdict implies it.                                *)
FreshAtStart == FreshAt(started)

(* A gate is run and a proof file opened only on behalf of a seal that is  *)
(* really signed, really about bytes the subject file held during this     *)
(* session, and really fresh.  (verify.py: "allow_external".)              *)
ExternalCallsOnlyWhenBound ==
    calls # {} => SignatureValid /\ SubjectServed /\ FreshAtStart

(* An authentic report is about bytes the subject file held during the     *)
(* session, under a valid signature within the requested age, whatever the *)
(* environment did meanwhile.  (verify.py: VerificationReport.authentic.)  *)
AuthenticIsCurrent ==
    pc = "done" /\ Authentic => SignatureValid /\ SubjectServed /\ FreshAtStart

GateConfirmed(k) ==
    \E c \in calls : c.of = "gate" /\ c.check = k /\ c.answer = TRUE

ProofRead(k) ==
    \E c \in calls :
        /\ c.of = "loader" /\ c.check = k
        /\ c.answer # Unreadable
        /\ LET entry == seal.checks[k]
               report == ReportOf(c.answer)
           IN /\ Sha256(c.answer) = entry.verdict.enforced_proof.sha256
              /\ report.config_sha256 = entry.check.config_ref
              /\ report.enforced > 0 /\ report.advised = 0
              /\ report.ees >= 50

(* No over-claim: a trusted enforced finding rests on a report this very   *)
(* session read, pinned by the seal, measuring that check's configuration  *)
(* and showing it enforces; of grade A, also on a gate this session ran to *)
(* a confirmed exit for that check.  (verify.py steps 3 and 4.)            *)
TrustedEnforcedIsBacked ==
    \A k \in DOMAIN findings :
        findings[k].trusted /\ IsEnforced(seal.checks[k]) =>
            /\ ProofRead(k)
            /\ seal.checks[k].grade = "A" => GateConfirmed(k)

(* A proof was read that has the pinned digest and that the parser chokes  *)
(* on with anything but a JSONDecodeError.                                 *)
ChokedOnProof ==
    \E c \in calls :
        c.of = "loader" /\ ParserRaises(seal.checks[c.check], c.answer)

(* What ends a session without a report: the seal, a bad bundle signature, *)
(* an unreadable subject, or a pinned proof whose bytes the parser chokes  *)
(* on; and such a proof always does.  A failing gate, a timeout, a proof   *)
(* that is missing, of another digest, not JSON or malformed do not.       *)
(* (verify.py: the except clauses around re-executor, loader and           *)
(* json.loads.)                                                            *)
RaisedOnlyOnBadInput ==
    /\ pc = "raised" =>
          \/ seal.malformed # "no"
          \/ (seal.tier = "T2" /\ seal.signatures # <<"valid">>)
          \/ (opts.subject /\ Unreadable \in served)
          \/ ChokedOnProof
    /\ ChokedOnProof => pc = "raised"

(***************************************************************************)
(* The report a caller can see: nothing before the session ends, then the  *)
(* seal-wide verdicts and the findings.  How each finding came about is    *)
(* left out.                                                               *)
(***************************************************************************)
Summary(finding) ==
    [check |-> finding.check, result |-> finding.result,
     trust_floor |-> finding.trust_floor, trusted |-> finding.trusted,
     result_ok |-> finding.result_ok]

VisibleReport ==
    CASE pc = "done"   -> [status |-> "report", subject_ok |-> subject_ok,
                           signature_ok |-> signature_ok,
                           freshness_ok |-> freshness_ok,
                           findings |-> [k \in DOMAIN findings |->
                                            Summary(findings[k])]]
      [] pc = "raised" -> [status |-> "refused"]
      [] OTHER         -> [status |-> "none"]

Contract == INSTANCE VerifierContract WITH report <- VisibleReport

(* The loop, with its early continues and its running `trusted' flag,      *)
(* implements the contract: each check is judged by itself, the findings   *)
(* are the checks one for one and in order, and a report once published    *)
(* never changes.  (verify.py: _verify_entries.)                           *)
ImplementsContract == Contract!Spec

(* The seal is what it should be: whole, signed, within the profile, with  *)
(* every check one that the contract trusts when the answers are good; and *)
(* the call gives what it takes to ask for them.                           *)
Worthy ==
    /\ seal.malformed = "no"
    /\ IF seal.tier = "T2" THEN seal.signatures = <<"valid">> ELSE SignatureValid
    /\ opts.subject /\ Contract!InProfile
    /\ \A k \in DOMAIN seal.checks : Contract!Trusted(seal.checks[k], TRUE, TRUE, TRUE)

(* No gate that was run failed, no proof that was read fails to resolve.   *)
AnswersAreGood ==
    \A c \in calls :
        /\ c.of = "gate" => c.answer = TRUE
        /\ c.of = "loader" => Resolves(seal.checks[c.check], c.answer)

(* The world bore the seal out: nor were any other bytes served.           *)
BorneOut ==
    /\ \A bytes \in served : Sha256(bytes) = seal.subject.digest
    /\ AnswersAreGood

(* No false alarm: a worthy seal that the world bears out and that is      *)
(* still fresh is neither refused nor called unauthentic, whatever else    *)
(* goes on.  (verify.py: VerificationReport.authentic.)                    *)
GoodSealsPass ==
    Worthy /\ BorneOut /\ FreshAt(clock) =>
        pc # "raised" /\ (pc = "done" => Authentic)

(* Every session ends in a report or an exception, even when a gate hangs. *)
Terminates == <>(pc \in {"done", "raised"})
=============================================================================
