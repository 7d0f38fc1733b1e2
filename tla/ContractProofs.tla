---------------------------- MODULE ContractProofs -----------------------------
(***************************************************************************)
(* A session of Verifier implements VerifierContract: the loop, with its   *)
(* early continues and the `trusted' it carries from step to step, judges  *)
(* each check by itself, and what it publishes never changes.              *)
(*                                                                         *)
(* The contract leaves open what the gate and the proof of each check      *)
(* answered.  A finding is what the contract says of some answers: of two  *)
(* good ones when it is trusted, of two bad ones when it is not.  So the   *)
(* invariant carries both halves: what `trusted' implies if the answers    *)
(* are good, and what its absence implies if they are bad.                 *)
(*                                                                         *)
(* The browser verifier is compared with the session at its end: for that  *)
(* the session's flags must be exact, not only sound.  Last, the verdict   *)
(* itself is exact: a seal that deserves it passes, and no other.          *)
(***************************************************************************)
EXTENDS VerifierProofs, BrowserVerifier

(* The contract's `bound'. *)
Bound == ~ViolatesProfile /\ AllowExternal

(* What has been asked of the current check by the proof step, and by the  *)
(* authority step, when the answers are all `good'.                        *)
AfterRerun(good) == AllowExternal /\ (NeedsRerun(Entry) => opts.reexec /\ good)
AfterProof(good) == /\ AfterRerun(good)
                    /\ IsEnforced(Entry) => Proof # None
                    /\ Proof # None => opts.loader /\ good

Mirrors(holds, good, bad) == (holds => good) /\ (~holds => ~bad)

Judged(entry, finding) ==
    /\ Summary(finding) = Contract!Judgement(entry, finding.trusted)
    /\ Mirrors(finding.trusted, Contract!Trusted(entry, Bound, TRUE, TRUE),
                                Contract!Trusted(entry, Bound, FALSE, FALSE))

FindingsJudged ==
    /\ \A k \in DOMAIN findings : Judged(seal.checks[k], findings[k])
    /\ pc = "done" => Len(findings) = Len(seal.checks)

CheckJudged ==
    /\ pc \in Loop => ~ViolatesProfile
    /\ pc \in Loop \ {"e1"} => InvariantE1(Entry)
    /\ pc \in {"reexec", "gate"} => trusted
    /\ pc = "gate" => AllowExternal /\ NeedsRerun(Entry) /\ opts.reexec
    /\ pc = "proof" => Mirrors(trusted, AfterRerun(TRUE), AfterRerun(FALSE))
    /\ pc = "authority" => Mirrors(trusted, AfterProof(TRUE), AfterProof(FALSE))

FlagsJudged ==
    /\ subject_ok => opts.subject
    /\ seal.tier = "T1" => freshness_ok
    /\ seal.tier = "T2" /\ pc \notin {"load", "raised"} => signature_ok
    /\ pc = "freshness" => seal.tier = "T2"

JudgedInv == FindingsJudged /\ CheckJudged /\ FlagsJudged

--------------------------------------------------------------------------------
(* The contract's copies of the rules say what the verifier's do.          *)

LEMMA JudgementIsSummary ==
  ASSUME NEW e, NEW r, NEW p, NEW t
  PROVE  Summary(EntryFinding(e, r, p, t)) = Contract!Judgement(e, t)
BY DEF Summary, EntryFinding, Contract!Judgement, TrustFloor, BindingRank, GradeRank,
   IsOk, Contract!TrustFloor, Contract!BindingRank, Contract!GradeRank, Contract!IsOk

LEMMA TrustedIsAfterProof ==
  ASSUME NEW good \in BOOLEAN
  PROVE  Contract!Trusted(Entry, Bound, good, good)
            <=> /\ ~ViolatesProfile /\ InvariantE1(Entry)
                /\ AfterProof(good) /\ AuthorityHolds(Entry)
BY DEF Contract!Trusted, Bound, AfterProof, AfterRerun, NeedsRerun, AuthorityHolds,
   Proof, InvariantE1, IsEnforced, Contract!InvariantE1, Contract!IsEnforced

LEMMA InProfileIsNotViolated == Contract!InProfile <=> ~ViolatesProfile
BY DEF Contract!InProfile, ViolatesProfile, IsAgentTooling, AgentToolingProfile,
   Elements, ScanCheck, N1Profile, N1Check, InvariantE1, IsEnforced,
   Contract!IsAgentTooling, Contract!AgentToolingProfile, Contract!Elements,
   Contract!ScanCheck, Contract!N1Profile, Contract!N1Check,
   Contract!InvariantE1, Contract!IsEnforced

--------------------------------------------------------------------------------
(* The invariant holds at first and before the loop.                       *)

LEMMA InitJudged == Init => JudgedInv
BY DEF Init, JudgedInv, FindingsJudged, CheckJudged, FlagsJudged, Loop

LEMMA PreambleJudged ==
  ASSUME Inv, JudgedInv,
         LoadEnvelope \/ VerifyBundle \/ ParseStatement \/ CheckSubject
            \/ VerifySignatureLocal \/ CheckFreshness
  PROVE  JudgedInv'
<1>1. /\ findings = <<>> /\ findings' = findings /\ UNCHANGED args
      /\ pc \in Before /\ pc' \notin Loop \cup {"done"}
  BY DEF Inv, LoopInv, Before, Loop, LoadEnvelope, VerifyBundle, ParseStatement,
     CheckSubject, VerifySignatureLocal, CheckFreshness, Goto
<1>2. FindingsJudged' /\ CheckJudged'
  BY <1>1 DEF FindingsJudged, CheckJudged, Loop, Mirrors, AfterRerun, AfterProof
<1>3. seal.tier \in {"T1", "T2"} /\ seal' = seal /\ opts' = opts
  BY <1>1, SealFacts DEF Inv, TypeOK, args
<1>4. FlagsJudged'
  <2> USE <1>3 DEF Inv, FlagsInv, JudgedInv, FlagsJudged, Goto, flags
  <2>1. CASE LoadEnvelope \/ ParseStatement
    BY <2>1 DEF LoadEnvelope, ParseStatement
  <2>2. CASE VerifyBundle
    BY <2>2 DEF VerifyBundle
  <2>3. CASE CheckSubject
    BY <2>3 DEF CheckSubject, SubjectMatches
  <2>4. CASE VerifySignatureLocal
    BY <2>4 DEF VerifySignatureLocal
  <2>5. CASE CheckFreshness
    BY <2>5 DEF CheckFreshness
  <2> QED
    BY <2>1, <2>2, <2>3, <2>4, <2>5
<1> QED
  BY <1>2, <1>4 DEF JudgedInv

(* What the invariant reads of the state, but for the check under way. *)
judged == <<args, flags>>

LEMMA SameRules ==
  ASSUME UNCHANGED judged
  PROVE  /\ Bound' = Bound /\ ViolatesProfile' = ViolatesProfile
         /\ AllowExternal' = AllowExternal
         /\ \A e, f : Judged(e, f)' <=> Judged(e, f)
         /\ FlagsJudged /\ pc \notin {"load", "raised"} /\ pc' # "freshness" => FlagsJudged'
<1>1. /\ seal' = seal /\ opts' = opts /\ subject_ok' = subject_ok
      /\ signature_ok' = signature_ok /\ freshness_ok' = freshness_ok
  BY DEF judged, args, flags
<1>2. ViolatesProfile' = ViolatesProfile
  BY <1>1 DEF ViolatesProfile
<1>3. AllowExternal' = AllowExternal
  BY <1>1 DEF AllowExternal
<1>4. Bound' = Bound
  BY <1>2, <1>3 DEF Bound
<1>5. \A e, f : Judged(e, f)' <=> Judged(e, f)
  BY <1>1, <1>4 DEF Judged, Mirrors, Contract!Trusted
<1>6. FlagsJudged /\ pc \notin {"load", "raised"} /\ pc' # "freshness" => FlagsJudged'
  BY <1>1 DEF FlagsJudged
<1> QED
  BY <1>2, <1>3, <1>4, <1>5, <1>6

LEMMA EnvironmentJudged ==
  ASSUME JudgedInv, Environment \/ UNCHANGED vars
  PROVE  JudgedInv' /\ UNCHANGED <<judged, pc, findings>>
<1>1. UNCHANGED <<args, flags, pc, idx, locals, findings>>
  BY DEF Environment, SubjectRewritten, ProofReplaced, Tick, vars
<1>2. /\ seal' = seal /\ opts' = opts /\ pc' = pc /\ idx' = idx /\ findings' = findings
      /\ subject_ok' = subject_ok /\ signature_ok' = signature_ok
      /\ freshness_ok' = freshness_ok /\ trusted' = trusted
  BY <1>1 DEF args, flags, locals
<1>3. UNCHANGED judged
  BY <1>1 DEF judged
<1>4. FindingsJudged'
  BY <1>2, <1>3, SameRules DEF JudgedInv, FindingsJudged
<1>5. CheckJudged'
  BY <1>2 DEF JudgedInv, CheckJudged, Mirrors, ViolatesProfile, AllowExternal,
     AfterRerun, AfterProof, Entry, Proof, NeedsRerun
<1>6. FlagsJudged'
  BY <1>2 DEF JudgedInv, FlagsJudged
<1> QED
  BY <1>1, <1>3, <1>4, <1>5, <1>6 DEF JudgedInv

(* A refused seal: nothing is trusted, and nothing would be.               *)
LEMMA ProfileJudged ==
  ASSUME Inv, JudgedInv, CheckProfile
  PROVE  JudgedInv'
<1>1. /\ findings = <<>> /\ UNCHANGED judged /\ pc = "profile"
      /\ seal' = seal /\ seal \in Seals
  BY DEF Inv, TypeOK, LoopInv, Before, CheckProfile, judged, args
<1>2. FlagsJudged'
  BY <1>1, SameRules DEF JudgedInv, CheckProfile, Goto
<1>3. CASE ViolatesProfile
  <2>1. /\ findings' = [k \in DOMAIN seal.checks |-> FailFinding(seal.checks[k])]
        /\ pc' = "done"
    BY <1>3 DEF CheckProfile, Goto
  <2>2. \A e : Judged(e, FailFinding(e))
    <3> TAKE e
    <3>1. Summary(FailFinding(e)) = Contract!Judgement(e, FALSE)
      BY JudgementIsSummary DEF FailFinding
    <3>2. FailFinding(e).trusted = FALSE
      BY DEF FailFinding, EntryFinding
    <3>3. ~Contract!Trusted(e, Bound, FALSE, FALSE)
      BY <1>3 DEF Contract!Trusted, Bound
    <3> QED
      BY <3>1, <3>2, <3>3 DEF Judged, Mirrors
  <2>3. Len(findings') = Len(seal'.checks)
    <3>1. DOMAIN seal.checks = 1..Len(seal.checks) /\ Len(seal.checks) \in Nat
      BY <1>1, SealFacts
    <3> QED
      BY <1>1, <2>1, <3>1
  <2>4. FindingsJudged'
    BY <1>1, <2>1, <2>2, <2>3, SameRules DEF FindingsJudged
  <2> QED
    BY <1>2, <2>1, <2>4 DEF JudgedInv, CheckJudged, Loop
<1>4. CASE ~ViolatesProfile
  <2>1. pc' = "e1" /\ findings' = findings /\ ~ViolatesProfile'
    BY <1>1, <1>4, SameRules DEF CheckProfile, Goto
  <2> QED
    BY <1>1, <1>2, <2>1 DEF JudgedInv, FindingsJudged, CheckJudged, Loop
<1> QED
  BY <1>3, <1>4

--------------------------------------------------------------------------------
(* The loop.                                                               *)

(* A step that records nothing: only what it says of its check is new.     *)
LEMMA SameFindingsJudged ==
  ASSUME JudgedInv, UNCHANGED <<judged, findings>>, pc \in Loop, pc' \in Loop,
         CheckJudged'
  PROVE  JudgedInv'
<1>1. FlagsJudged'
  BY SameRules DEF JudgedInv, Loop
<1>2. FindingsJudged'
  BY SameRules DEF JudgedInv, FindingsJudged, Loop, judged, args
<1> QED
  BY <1>1, <1>2 DEF JudgedInv

LEMMA CheckStepJudged ==
  ASSUME Inv, JudgedInv,
         \/ BeginEntry \/ WithholdReexec \/ SkipReexec \/ StartGate
         \/ WithholdProof \/ NoProof \/ ResolveProof
         \/ \E confirmed \in BOOLEAN : pc = "gate" /\ GateReturns(confirmed)
  PROVE  JudgedInv'
<1>1. UNCHANGED <<judged, idx, findings>> /\ pc \in Loop /\ pc' \in Loop
  BY DEF BeginEntry, WithholdReexec, SkipReexec, StartGate, WithholdProof, NoProof,
     ResolveProof, GateReturns, Goto, Loop, judged
<1>2. /\ Entry' = Entry /\ Proof' = Proof /\ opts' = opts
      /\ ViolatesProfile' = ViolatesProfile /\ AllowExternal' = AllowExternal
  BY <1>1, SameRules DEF Entry, Proof, judged, args
<1>3. CheckJudged'
  <2> USE <1>2 DEF JudgedInv, CheckJudged, Goto, locals, Loop, Mirrors, AfterRerun,
         AfterProof, InvariantE1, NeedsRerun, IsEnforced
  <2>1. CASE BeginEntry
    BY <2>1 DEF BeginEntry
  <2>2. CASE WithholdReexec
    BY <2>2 DEF WithholdReexec
  <2>3. CASE SkipReexec
    BY <2>3 DEF SkipReexec
  <2>4. CASE StartGate
    BY <2>4 DEF StartGate
  <2>5. CASE \E confirmed \in BOOLEAN : pc = "gate" /\ GateReturns(confirmed)
    BY <2>5 DEF GateReturns
  <2>6. CASE WithholdProof
    BY <2>6 DEF WithholdProof
  <2>7. CASE NoProof
    BY <2>7 DEF NoProof
  <2>8. CASE ResolveProof
    BY <2>8 DEF ResolveProof
  <2> QED
    BY <2>1, <2>2, <2>3, <2>4, <2>5, <2>6, <2>7, <2>8
<1> QED
  BY <1>1, <1>3, SameFindingsJudged

LEMMA RecordJudged ==
  ASSUME Inv, JudgedInv, pc \in Loop, UNCHANGED judged, NEW f, Record(f),
         Judged(Entry, f)
  PROVE  JudgedInv'
<1>1. /\ seal' = seal /\ seal \in Seals /\ findings \in Seq(Finding)
      /\ findings' = Append(findings, f) /\ ~ViolatesProfile
      /\ pc' = IF idx = Len(seal.checks) THEN "done" ELSE "e1"
  BY DEF Inv, TypeOK, judged, args, Record, Goto, JudgedInv, CheckJudged
<1>2. /\ idx \in 1..Len(seal.checks) /\ Len(findings) = idx - 1
      /\ Entry = seal.checks[idx]
  BY EntryFacts
<1>3. /\ Len(findings') = idx /\ DOMAIN findings' = 1..idx
      /\ findings'[idx] = f
      /\ \A k \in 1..(idx - 1) : k \in DOMAIN findings /\ findings'[k] = findings[k]
  BY <1>1, <1>2
<1>4. \A k \in DOMAIN findings' : Judged(seal.checks[k], findings'[k])
  <2> SUFFICES ASSUME NEW k \in 1..idx PROVE Judged(seal.checks[k], findings'[k])
    BY <1>3
  <2>1. CASE k = idx
    BY <1>2, <1>3, <2>1
  <2>2. CASE k # idx
    <3>1. k \in 1..(idx - 1)
      BY <1>2, <2>2
    <3> QED
      BY <3>1, <1>3 DEF JudgedInv, FindingsJudged
  <2> QED
    BY <2>1, <2>2
<1>5. FindingsJudged'
  BY <1>1, <1>3, <1>4, SameRules DEF FindingsJudged
<1>6. CheckJudged' /\ FlagsJudged'
  BY <1>1, SameRules DEF JudgedInv, CheckJudged, Loop
<1> QED
  BY <1>5, <1>6 DEF JudgedInv

LEMMA RejectJudged ==
  ASSUME Inv, JudgedInv, RejectEntry
  PROVE  JudgedInv'
<1>1. Summary(FailFinding(Entry)) = Contract!Judgement(Entry, FALSE)
      /\ FailFinding(Entry).trusted = FALSE
  BY JudgementIsSummary DEF FailFinding, EntryFinding
<1>2. ~Contract!Trusted(Entry, Bound, FALSE, FALSE)
  BY TrustedIsAfterProof DEF RejectEntry
<1>3. Judged(Entry, FailFinding(Entry))
  BY <1>1, <1>2 DEF Judged, Mirrors
<1> QED
  BY <1>3, RecordJudged DEF RejectEntry, judged, Loop

LEMMA RecordEntryJudged ==
  ASSUME Inv, JudgedInv, RecordEntry
  PROVE  JudgedInv'
<1> DEFINE t == trusted /\ AuthorityHolds(Entry)
           f == EntryFinding(Entry, reexec, proof, t)
<1>1. Summary(f) = Contract!Judgement(Entry, t) /\ f.trusted = t
  BY JudgementIsSummary DEF EntryFinding
<1>2. /\ ~ViolatesProfile /\ InvariantE1(Entry)
      /\ Mirrors(trusted, AfterProof(TRUE), AfterProof(FALSE))
  BY DEF RecordEntry, JudgedInv, CheckJudged, Loop
<1>3. /\ t => Contract!Trusted(Entry, Bound, TRUE, TRUE)
      /\ ~t => ~Contract!Trusted(Entry, Bound, FALSE, FALSE)
  BY <1>2, TrustedIsAfterProof DEF Mirrors
<1> HIDE DEF t
<1>4. Judged(Entry, f)
  BY <1>1, <1>3 DEF Judged, Mirrors
<1> HIDE DEF f
<1>5. Record(f) /\ pc \in Loop /\ UNCHANGED judged
  BY DEF RecordEntry, f, t, Loop, judged
<1> QED
  BY <1>4, <1>5, RecordJudged

(* A session that a proof ends keeps what was judged.                      *)
LEMMA AbortJudged ==
  ASSUME JudgedInv, AbortOnProof
  PROVE  JudgedInv'
<1>1. /\ UNCHANGED <<judged, findings>> /\ seal' = seal
      /\ pc = "proof" /\ pc' = "raised"
  BY DEF AbortOnProof, Goto, judged, args
<1>2. FlagsJudged'
  BY <1>1, SameRules DEF JudgedInv
<1>3. FindingsJudged'
  BY <1>1, SameRules DEF JudgedInv, FindingsJudged
<1>4. CheckJudged'
  BY <1>1 DEF CheckJudged, Loop
<1> QED
  BY <1>2, <1>3, <1>4 DEF JudgedInv

LEMMA NextJudged ==
  ASSUME Inv, JudgedInv, [Next]_vars
  PROVE  JudgedInv'
<1>1. CASE Environment \/ UNCHANGED vars
  BY <1>1, EnvironmentJudged
<1>2. CASE GateExits \/ GateTimesOut
  BY <1>2, CheckStepJudged DEF GateExits, GateTimesOut
<1>3. CASE SessionStep /\ ~GateTimesOut
  BY <1>3, PreambleJudged, ProfileJudged, CheckStepJudged, RejectJudged,
     RecordEntryJudged, AbortJudged
  DEF SessionStep
<1> QED
  BY <1>1, <1>2, <1>3 DEF Next

LEMMA JudgedIsInvariant == Spec => [](Inv /\ JudgedInv)
BY InitInv, NextInv, InitJudged, NextJudged, PTL DEF Spec

--------------------------------------------------------------------------------
(* Every step of a session is a step of the contract or leaves what it     *)
(* shows unchanged.                                                        *)

(* The findings a report shows, told by the contract's rules. *)
Told(r, answers) ==
    LET bound == Contract!InProfile /\ r.subject_ok /\ r.signature_ok /\ r.freshness_ok
    IN [k \in DOMAIN seal.checks |->
           Contract!Judgement(seal.checks[k],
               Contract!Trusted(seal.checks[k], bound, answers[k], answers[k]))]

(* A report that some answers explain, the same for gate and proof, is one *)
(* that the contract allows.                                               *)
Explains(r, answers) ==
    /\ r.status = "report"
    /\ r.subject_ok => opts.subject
    /\ r.signature_ok => \E k \in DOMAIN seal.signatures :
                             seal.signatures[k] \in {"valid", "lax"}
    /\ seal.tier = "T2" => r.signature_ok
    /\ seal.tier = "T1" => r.freshness_ok
    /\ r.freshness_ok /\ seal.tier = "T2" /\ opts.max_age # None =>
           seal.integrated # None
    /\ answers \in [DOMAIN seal.checks -> BOOLEAN]
    /\ r.findings = Told(r, answers)

LEMMA ExplainedIsAllowed ==
  ASSUME NEW r, NEW answers, Explains(r, answers)
  PROVE  Contract!Allowed(r)
<1> DEFINE bound == Contract!InProfile /\ r.subject_ok /\ r.signature_ok /\ r.freshness_ok
<1>1. \E gate, proven \in [DOMAIN seal.checks -> BOOLEAN] :
         r.findings = [k \in DOMAIN seal.checks |->
            Contract!Judgement(seal.checks[k],
               Contract!Trusted(seal.checks[k], bound, gate[k], proven[k]))]
  <2>1. answers \in [DOMAIN seal.checks -> BOOLEAN]
    BY DEF Explains
  <2> WITNESS answers \in [DOMAIN seal.checks -> BOOLEAN],
              answers \in [DOMAIN seal.checks -> BOOLEAN]
  <2> QED
    BY DEF Explains, Told
<1> QED
  BY <1>1 DEF Explains, Contract!Allowed

Answers == [k \in DOMAIN seal.checks |-> findings[k].trusted]

(* A session ends with a report that its own verdicts explain.             *)
LEMMA ReportIsExplained ==
  Inv /\ JudgedInv /\ pc = "done" => Explains(VisibleReport, Answers)
<1> SUFFICES ASSUME Inv, JudgedInv, pc = "done"
             PROVE  Explains(VisibleReport, Answers)
  OBVIOUS
<1> DEFINE r == VisibleReport
           bound == Contract!InProfile /\ r.subject_ok /\ r.signature_ok /\ r.freshness_ok
<1>1. /\ r.status = "report" /\ r.subject_ok = subject_ok
      /\ r.signature_ok = signature_ok /\ r.freshness_ok = freshness_ok
      /\ r.findings = [k \in DOMAIN findings |-> Summary(findings[k])]
  BY DEF VisibleReport
<1> HIDE DEF r
<1>2. bound <=> Bound
  BY <1>1, InProfileIsNotViolated DEF Bound, AllowExternal
<1>3. /\ seal \in Seals /\ findings \in Seq(Finding)
      /\ Len(findings) = Len(seal.checks)
  BY DEF Inv, TypeOK, JudgedInv, FindingsJudged
<1>4. DOMAIN findings = DOMAIN seal.checks
  BY <1>3, SealFacts
<1>5. \A k \in DOMAIN seal.checks : findings[k] \in Finding
  BY <1>3, <1>4
<1>6. \A k \in DOMAIN seal.checks :
         findings[k].trusted \in BOOLEAN /\ Answers[k] = findings[k].trusted
  BY <1>5 DEF Finding, Answers
<1>7. Answers \in [DOMAIN seal.checks -> BOOLEAN]
  BY <1>6 DEF Answers
<1>8. \A k \in DOMAIN seal.checks :
         Summary(findings[k]) =
            Contract!Judgement(seal.checks[k],
               Contract!Trusted(seal.checks[k], bound, Answers[k], Answers[k]))
  <2> TAKE k \in DOMAIN seal.checks
  <2>1. Judged(seal.checks[k], findings[k])
    BY <1>4 DEF JudgedInv, FindingsJudged
  <2>2. Contract!Trusted(seal.checks[k], bound, Answers[k], Answers[k])
           = findings[k].trusted
    <3>1. Contract!Trusted(seal.checks[k], bound, Answers[k], Answers[k])
             <=> Contract!Trusted(seal.checks[k], Bound, Answers[k], Answers[k])
      BY <1>2 DEF Contract!Trusted
    <3>2. CASE findings[k].trusted = TRUE
      BY <1>6, <2>1, <3>1, <3>2 DEF Judged, Mirrors, Contract!Trusted
    <3>3. CASE findings[k].trusted = FALSE
      BY <1>6, <2>1, <3>1, <3>3 DEF Judged, Mirrors, Contract!Trusted
    <3> QED
      BY <1>6, <3>2, <3>3
  <2> QED
    BY <2>1, <2>2 DEF Judged
<1>9. r.findings = Told(r, Answers)
  BY <1>1, <1>4, <1>8 DEF Told
<1>10. /\ subject_ok => opts.subject
       /\ signature_ok => \E k \in DOMAIN seal.signatures :
                              seal.signatures[k] \in {"valid", "lax"}
       /\ seal.tier = "T2" => signature_ok
       /\ seal.tier = "T1" => freshness_ok
       /\ freshness_ok /\ seal.tier = "T2" /\ opts.max_age # None =>
             seal.integrated # None
  BY DEF Inv, FlagsInv, SignatureValid, Accepted, FreshAtStart, FreshAt, After,
     JudgedInv, FlagsJudged
<1>11. Explains(r, Answers)
  BY <1>1, <1>7, <1>9, <1>10 DEF Explains
<1> QED
  BY <1>11 DEF r

(* The steps that raise, and what they raise on.                           *)
LEMMA RaisedForACause ==
  ASSUME Inv, JudgedInv, SessionStep \/ GateExits, pc' = "raised",
         pc \notin {"done", "raised"}
  PROVE  Contract!MayRefuse
<1>1. LoadEnvelope \/ VerifyBundle \/ ParseStatement \/ CheckSubject \/ AbortOnProof
  BY DEF SessionStep, Goto, Record, VerifySignatureLocal, CheckFreshness,
     CheckProfile, BeginEntry, RejectEntry, WithholdReexec, SkipReexec, StartGate,
     GateTimesOut, GateExits, GateReturns, WithholdProof, ResolveProof, NoProof,
     RecordEntry
<1>2. CASE LoadEnvelope \/ VerifyBundle \/ ParseStatement
  BY <1>2 DEF LoadEnvelope, VerifyBundle, ParseStatement, EnvelopeParses, Goto,
     Contract!MayRefuse
<1>3. CASE CheckSubject
  BY <1>3 DEF CheckSubject, Goto, Contract!MayRefuse
<1>4. CASE AbortOnProof
  BY <1>4 DEF AbortOnProof, AllowExternal, JudgedInv, FlagsJudged, Contract!MayRefuse
<1> QED
  BY <1>1, <1>2, <1>3, <1>4

LEMMA StepIsAllowed ==
  Inv /\ JudgedInv /\ [Next]_vars /\ (Inv /\ JudgedInv)'
     => [Contract!Next]_<<seal, opts, VisibleReport>>
<1> SUFFICES ASSUME Inv, JudgedInv, [Next]_vars, Inv', JudgedInv'
             PROVE  [Contract!Next]_<<seal, opts, VisibleReport>>
  OBVIOUS
<1>1. CASE Environment \/ UNCHANGED vars
  <2>1. UNCHANGED <<args, flags, pc, findings>>
    BY <1>1, EnvironmentJudged DEF judged
  <2> QED
    BY <2>1 DEF args, flags, VisibleReport, Summary
<1>2. CASE SessionStep \/ GateExits
  <2>1. /\ pc \notin {"done", "raised"} /\ UNCHANGED args
    BY <1>2 DEF SessionStep, LoadEnvelope, VerifyBundle, ParseStatement, CheckSubject,
       VerifySignatureLocal, CheckFreshness, CheckProfile, BeginEntry, RejectEntry,
       WithholdReexec, SkipReexec, StartGate, GateTimesOut, GateExits, GateReturns,
       WithholdProof, ResolveProof, AbortOnProof, NoProof, RecordEntry
  <2>2. seal' = seal /\ opts' = opts /\ VisibleReport = Contract!NoReport
    BY <2>1 DEF args, VisibleReport, Contract!NoReport
  <2>3. CASE pc' = "done"
    <3>1. (pc = "done")'
      BY <2>3
    <3>2. Explains(VisibleReport, Answers)'
      BY <3>1, ReportIsExplained, PTL
    <3>3. Explains(VisibleReport', Answers')
      BY <2>2, <3>2 DEF Explains, Told, Contract!Trusted, Contract!InProfile
    <3>4. Contract!Allowed(VisibleReport')
      BY <3>3, ExplainedIsAllowed
    <3> QED
      BY <2>2, <3>4 DEF Contract!Next, Contract!Publish
  <2>4. CASE pc' = "raised"
    <3>1. Contract!MayRefuse
      BY <1>2, <2>1, <2>4, RaisedForACause
    <3> QED
      BY <2>2, <2>4, <3>1 DEF VisibleReport, Contract!Next, Contract!Refuse,
         Contract!Refused
  <2>5. CASE pc' \notin {"done", "raised"}
    BY <2>1, <2>2, <2>5 DEF VisibleReport
  <2> QED
    BY <2>3, <2>4, <2>5
<1> QED
  BY <1>1, <1>2 DEF Next

(* verify_local_seal and verify_keyless_seal keep the contract's promise:  *)
(* one report or a refusal, each check judged by itself and in its place.  *)
(* (verify.py: _verify_entries.)                                           *)
THEOREM SessionKeepsTheContract == Spec => ImplementsContract
<1>1. Init => Contract!Init
  BY DEF Init, Contract!Init, Contract!NoReport, VisibleReport
<1> QED
  BY <1>1, JudgedIsInvariant, StepIsAllowed, PTL
  DEF Spec, ImplementsContract, Contract!Spec

LEMMA InitRaises == Init => RaisedOnlyOnBadInput
BY DEF Init, RaisedOnlyOnBadInput, ChokedOnProof

(* The steps that ask nobody.                                              *)
LEMMA SilentRaises ==
  ASSUME Inv, RaisedOnlyOnBadInput, UNCHANGED <<args, calls>>, served \subseteq served',
         \/ pc' = pc
         \/ pc \notin {"done", "raised"} /\ calls = {}
         \/ pc \notin {"done", "raised"} /\ pc' # "raised",
         pc # "raised" /\ pc' = "raised" =>
            \/ seal.malformed # "no"
            \/ (seal.tier = "T2" /\ seal.signatures # <<"valid">>)
            \/ (opts.subject /\ Unreadable \in served)
  PROVE  RaisedOnlyOnBadInput'
<1>1. ChokedOnProof' = ChokedOnProof /\ (calls = {} => ~ChokedOnProof)
  BY DEF ChokedOnProof, args
<1>2. seal' = seal /\ opts' = opts
  BY DEF args
<1> QED
  BY <1>1, <1>2 DEF RaisedOnlyOnBadInput

LEMMA AskingRaises ==
  ASSUME Inv, RaisedOnlyOnBadInput,
         \/ \E confirmed \in BOOLEAN : pc = "gate" /\ GateReturns(confirmed)
         \/ ResolveProof
  PROVE  RaisedOnlyOnBadInput'
<1>1. /\ seal' = seal /\ pc # "raised" /\ pc' # "raised" /\ pc \in Loop
  BY DEF GateReturns, ResolveProof, Goto, args, Loop
<1>2. Entry = seal.checks[idx]
  BY <1>1, EntryFacts
<1>3. \A c \in calls' \ calls : c.of = "loader" =>
         c.check = idx /\ ~ParserRaises(Entry, c.answer)
  BY DEF GateReturns, ResolveProof
<1>4. ~ChokedOnProof
  BY <1>1 DEF RaisedOnlyOnBadInput
<1>5. ~ChokedOnProof'
  BY <1>1, <1>2, <1>3, <1>4 DEF ChokedOnProof
<1> QED
  BY <1>1, <1>5 DEF RaisedOnlyOnBadInput

LEMMA AbortRaises ==
  ASSUME Inv, RaisedOnlyOnBadInput, AbortOnProof
  PROVE  RaisedOnlyOnBadInput'
<1> DEFINE raw == files[Proof.uri]
           call == [of |-> "loader", check |-> idx, answer |-> raw]
<1>1. /\ seal' = seal /\ pc' = "raised" /\ pc \in Loop
      /\ call \in calls' /\ ParserRaises(Entry, raw)
  BY DEF AbortOnProof, Goto, args, Loop
<1>2. Entry = seal.checks[idx]
  BY <1>1, EntryFacts
<1>3. call.of = "loader" /\ ParserRaises(seal'.checks[call.check], call.answer)
  BY <1>1, <1>2
<1> HIDE DEF call, raw
<1>4. ChokedOnProof'
  BY <1>1, <1>3 DEF ChokedOnProof
<1> QED
  BY <1>1, <1>4 DEF RaisedOnlyOnBadInput

LEMMA NextRaises ==
  ASSUME Inv, RaisedOnlyOnBadInput, [Next]_vars
  PROVE  RaisedOnlyOnBadInput'
<1>1. CASE Environment \/ UNCHANGED vars
  BY <1>1, SilentRaises DEF Environment, SubjectRewritten, ProofReplaced, Tick, vars,
     world
<1>2. CASE LoadEnvelope \/ VerifyBundle \/ ParseStatement \/ CheckSubject
  <2>1. pc \in Before /\ calls = {}
    BY <1>2 DEF LoadEnvelope, VerifyBundle, ParseStatement, CheckSubject, Before,
       Inv, CallsInv, After, Loop
  <2>2. UNCHANGED <<args, calls, world>> /\ pc # "raised" /\ pc # "done"
    BY <1>2 DEF LoadEnvelope, VerifyBundle, ParseStatement, CheckSubject
  <2>3. served' = served
    BY <2>2 DEF world
  <2>4. pc' = "raised" =>
            \/ seal.malformed # "no"
            \/ (seal.tier = "T2" /\ seal.signatures # <<"valid">>)
            \/ (opts.subject /\ Unreadable \in served)
    BY <1>2 DEF LoadEnvelope, VerifyBundle, ParseStatement, CheckSubject,
       EnvelopeParses, Goto, Inv, HistoryInv
  <2> QED
    BY <2>1, <2>2, <2>3, <2>4, SilentRaises
<1>3. CASE \/ VerifySignatureLocal \/ CheckFreshness \/ CheckProfile \/ BeginEntry
           \/ RejectEntry \/ WithholdReexec \/ SkipReexec \/ StartGate
           \/ WithholdProof \/ NoProof \/ RecordEntry
  <2>1. /\ UNCHANGED <<args, calls, world>> /\ pc \notin {"done", "raised"}
        /\ pc' # "raised"
    BY <1>3 DEF VerifySignatureLocal, CheckFreshness, CheckProfile, BeginEntry,
       RejectEntry, WithholdReexec, SkipReexec, StartGate, WithholdProof, NoProof,
       RecordEntry, Record, Goto
  <2> QED
    BY <2>1, SilentRaises DEF world
<1>4. CASE GateTimesOut \/ GateExits \/ ResolveProof
  BY <1>4, AskingRaises DEF GateTimesOut, GateExits
<1>5. CASE AbortOnProof
  BY <1>5, AbortRaises
<1> QED
  BY <1>1, <1>2, <1>3, <1>4, <1>5 DEF Next, SessionStep

(* An exception comes from the seal, from a bundle whose signature does    *)
(* not hold, from an unreadable subject or from a pinned proof the parser  *)
(* chokes on, and such a proof always ends in one.  No gate raises, and no *)
(* other proof.  (verify.py: the except clauses around re-executor and     *)
(* loader; hbresolve.py: the one around json.loads.)                       *)
THEOREM OnlyBadInputRaises == Spec => []RaisedOnlyOnBadInput
BY InitRaises, NextRaises, InvIsInvariant, PTL DEF Spec

--------------------------------------------------------------------------------
(* The answers that explain a finding are those that were given.           *)

Exactly(e, f) ==
    f.trusted <=> Contract!Trusted(e, Bound, f.reexecution = "confirmed",
                                             f.enforced_proof = "resolved")

ProvenSoFar ==
    /\ AfterRerun(reexec = "confirmed")
    /\ IsEnforced(Entry) => Proof # None
    /\ Proof # None => opts.loader /\ proof = "resolved"

ExactInv ==
    /\ \A k \in DOMAIN findings : Exactly(seal.checks[k], findings[k])
    /\ pc = "proof" => (trusted <=> AfterRerun(reexec = "confirmed"))
    /\ pc = "authority" => (trusted <=> ProvenSoFar)

(* A check is trusted exactly when the contract trusts it on what its own  *)
(* gate and its own proof said: no more is reported than was shown, and    *)
(* nothing that was shown is held back.  (verify.py: _verify_entries.)     *)
TrustIsExact ==
    \A k \in DOMAIN findings :
        findings[k].trusted <=>
            Contract!Trusted(seal.checks[k], Bound, Heard("gate", k) = {TRUE},
                \E raw \in Content \cup {Unreadable} :
                    Heard("loader", k) = {raw} /\ Resolves(seal.checks[k], raw))

LEMMA InitExactly == Init => ExactInv
BY DEF Init, ExactInv

LEMMA SameExactly ==
  ASSUME UNCHANGED judged
  PROVE  \A e, f : Exactly(e, f)' <=> Exactly(e, f)
<1>1. Bound' = Bound
  BY SameRules
<1> QED
  BY <1>1 DEF Exactly, Contract!Trusted, judged, args

(* The steps of a check, from what is known of it to what is known next.   *)
LEMMA CheckStepExactly ==
  ASSUME Inv, JudgedInv, ExactInv,
         \/ BeginEntry \/ WithholdReexec \/ SkipReexec \/ StartGate
         \/ WithholdProof \/ NoProof \/ ResolveProof
         \/ \E confirmed \in BOOLEAN : pc = "gate" /\ GateReturns(confirmed)
  PROVE  ExactInv'
<1>1. UNCHANGED <<judged, idx, findings>> /\ pc \in Loop
  BY DEF BeginEntry, WithholdReexec, SkipReexec, StartGate, WithholdProof, NoProof,
     ResolveProof, GateReturns, Goto, Loop, judged
<1>2. /\ Entry' = Entry /\ Proof' = Proof /\ opts' = opts
      /\ AllowExternal' = AllowExternal
  BY <1>1, SameRules DEF Entry, Proof, judged, args
<1>3. (\A k \in DOMAIN findings : Exactly(seal.checks[k], findings[k]))'
  BY <1>1, SameExactly DEF ExactInv, judged, args
<1>4. /\ (pc = "proof" => (trusted <=> AfterRerun(reexec = "confirmed")))'
      /\ (pc = "authority" => (trusted <=> ProvenSoFar))'
  <2> USE <1>2 DEF JudgedInv, CheckJudged, ExactInv, Goto, Loop, AfterRerun,
         ProvenSoFar, NeedsRerun, IsEnforced
  <2>1. CASE BeginEntry \/ StartGate
    BY <2>1 DEF BeginEntry, StartGate
  <2>2. CASE WithholdReexec
    BY <2>2 DEF WithholdReexec
  <2>3. CASE SkipReexec
    BY <2>3 DEF SkipReexec
  <2>4. CASE \E confirmed \in BOOLEAN : pc = "gate" /\ GateReturns(confirmed)
    BY <2>4 DEF GateReturns
  <2>5. CASE WithholdProof
    BY <2>5 DEF WithholdProof
  <2>6. CASE NoProof
    BY <2>6 DEF NoProof
  <2>7. CASE ResolveProof
    BY <2>7 DEF ResolveProof
  <2> QED
    BY <2>1, <2>2, <2>3, <2>4, <2>5, <2>6, <2>7
<1> QED
  BY <1>3, <1>4 DEF ExactInv

LEMMA RecordExactly ==
  ASSUME Inv, JudgedInv, ExactInv, RejectEntry \/ RecordEntry
  PROVE  ExactInv'
<1> DEFINE t == trusted /\ AuthorityHolds(Entry)
           g == EntryFinding(Entry, reexec, proof, t)
<1>1. /\ UNCHANGED judged /\ pc \in Loop /\ seal' = seal /\ findings \in Seq(Finding)
      /\ ~ViolatesProfile
  BY DEF RejectEntry, RecordEntry, Loop, judged, args, Inv, TypeOK, JudgedInv, CheckJudged
<1>2. idx \in Nat /\ Len(findings) = idx - 1 /\ Entry = seal.checks[idx]
  BY <1>1, EntryFacts, SealFacts DEF Inv, TypeOK
<1>3. PICK f : /\ findings' = Append(findings, f) /\ pc' \in {"e1", "done"}
               /\ Exactly(Entry, f)
  <2>1. CASE RejectEntry
    <3>1. FailFinding(Entry).trusted = FALSE
      BY DEF FailFinding, EntryFinding
    <3>2. ~InvariantE1(Entry) /\ findings' = Append(findings, FailFinding(Entry))
          /\ pc' \in {"e1", "done"}
      BY <2>1 DEF RejectEntry, Record, Goto
    <3>3. Exactly(Entry, FailFinding(Entry))
      BY <3>1, <3>2 DEF Exactly, Contract!Trusted, InvariantE1, IsEnforced,
         Contract!InvariantE1, Contract!IsEnforced
    <3> QED
      BY <3>2, <3>3
  <2>2. CASE RecordEntry
    <3>1. /\ g.trusted = t /\ g.reexecution = reexec /\ g.enforced_proof = proof
      BY DEF EntryFinding
    <3>2. /\ findings' = Append(findings, g) /\ pc' \in {"e1", "done"}
          /\ pc = "authority"
      BY <2>2 DEF RecordEntry, Record, Goto
    <3>3. (trusted <=> ProvenSoFar) /\ InvariantE1(Entry)
      BY <3>2 DEF ExactInv, JudgedInv, CheckJudged, Loop
    <3> HIDE DEF g
    <3>4. Exactly(Entry, g)
      BY <1>1, <3>1, <3>3 DEF Exactly, Contract!Trusted, ProvenSoFar, AfterRerun,
         Bound, NeedsRerun, AuthorityHolds, Proof, InvariantE1, IsEnforced,
         Contract!InvariantE1, Contract!IsEnforced
    <3> QED
      BY <3>2, <3>4
  <2> QED
    BY <2>1, <2>2
<1>4. /\ DOMAIN findings' = 1..idx /\ findings'[idx] = f
      /\ \A k \in 1..idx : k # idx => k \in DOMAIN findings /\ findings'[k] = findings[k]
  BY <1>1, <1>2, <1>3
<1>5. \A k \in 1..idx : Exactly(seal.checks[k], findings'[k])
  BY <1>2, <1>3, <1>4 DEF ExactInv
<1>6. (\A k \in DOMAIN findings : Exactly(seal.checks[k], findings[k]))'
  BY <1>1, <1>4, <1>5, SameExactly
<1> QED
  BY <1>3, <1>6 DEF ExactInv

LEMMA OtherStepExactly ==
  ASSUME Inv, JudgedInv, ExactInv,
         \/ LoadEnvelope \/ VerifyBundle \/ ParseStatement \/ CheckSubject
         \/ VerifySignatureLocal \/ CheckFreshness \/ CheckProfile
         \/ AbortOnProof \/ Environment \/ UNCHANGED vars
  PROVE  ExactInv'
<1>1. CASE Environment \/ UNCHANGED vars
  <2>1. /\ UNCHANGED <<judged, pc, findings>> /\ trusted' = trusted
        /\ reexec' = reexec /\ proof' = proof /\ idx' = idx
    BY <1>1, EnvironmentJudged DEF Environment, SubjectRewritten, ProofReplaced, Tick,
       vars, locals
  <2>2. seal' = seal /\ opts' = opts /\ AllowExternal' = AllowExternal
    BY <2>1, SameRules DEF judged, args
  <2>3. (\A k \in DOMAIN findings : Exactly(seal.checks[k], findings[k]))'
    BY <2>1, <2>2, SameExactly DEF ExactInv
  <2> QED
    BY <2>1, <2>2, <2>3 DEF ExactInv, AfterRerun, ProvenSoFar, Entry, Proof, NeedsRerun
<1>2. CASE CheckProfile
  <2>1. UNCHANGED judged /\ findings = <<>> /\ pc' \in {"e1", "done"} /\ seal' = seal
    BY <1>2 DEF CheckProfile, Goto, judged, args, Inv, LoopInv, Before
  <2>2. CASE ViolatesProfile
    <3>1. findings' = [k \in DOMAIN seal.checks |-> FailFinding(seal.checks[k])]
      BY <1>2, <2>2 DEF CheckProfile
    <3>2. \A e : Exactly(e, FailFinding(e))
      BY <2>2 DEF Exactly, Contract!Trusted, Bound, FailFinding, EntryFinding
    <3>3. (\A k \in DOMAIN findings : Exactly(seal.checks[k], findings[k]))'
      BY <2>1, <3>1, <3>2, SameExactly
    <3> QED
      BY <2>1, <3>3 DEF ExactInv
  <2>3. CASE ~ViolatesProfile
    BY <1>2, <2>1, <2>3 DEF CheckProfile, ExactInv
  <2> QED
    BY <2>2, <2>3
<1>3. CASE \/ LoadEnvelope \/ VerifyBundle \/ ParseStatement \/ CheckSubject
           \/ VerifySignatureLocal \/ CheckFreshness
  <2>1. /\ findings = <<>> /\ findings' = findings /\ pc' \notin {"proof", "authority"}
    BY <1>3 DEF LoadEnvelope, VerifyBundle, ParseStatement, CheckSubject,
       VerifySignatureLocal, CheckFreshness, Goto, Inv, LoopInv, Before
  <2> QED
    BY <2>1 DEF ExactInv
<1>4. CASE AbortOnProof
  <2>1. UNCHANGED <<judged, findings>> /\ seal' = seal /\ pc' = "raised"
    BY <1>4 DEF AbortOnProof, Goto, judged, args
  <2> QED
    BY <2>1, SameExactly DEF ExactInv
<1> QED
  BY <1>1, <1>2, <1>3, <1>4

(* What verify.py trusts is what the rules trust on the answers that were  *)
(* really given, check by check, in both directions.                       *)
(* (verify.py: _verify_entries.)                                           *)
THEOREM TrustIsNeitherMoreNorLess == Spec => []TrustIsExact
<1>1. Inv /\ JudgedInv /\ ExactInv /\ [Next]_vars => ExactInv'
  BY CheckStepExactly, RecordExactly, OtherStepExactly
  DEF Next, SessionStep, GateExits, GateTimesOut
<1>2. Spec => []ExactInv
  BY <1>1, InitExactly, JudgedIsInvariant, PTL DEF Spec
<1>3. ExactInv /\ FindingsTellTheAnswers => TrustIsExact
  <2> SUFFICES ASSUME ExactInv, FindingsTellTheAnswers, NEW k \in DOMAIN findings
               PROVE  findings[k].trusted <=>
                         Contract!Trusted(seal.checks[k], Bound, Heard("gate", k) = {TRUE},
                            \E raw \in Content \cup {Unreadable} :
                               Heard("loader", k) = {raw} /\ Resolves(seal.checks[k], raw))
    BY DEF TrustIsExact
  <2>1. /\ Heard("gate", k) = GateAnswer(findings[k].reexecution)
        /\ LoaderAnswers(k, findings[k].enforced_proof)
    BY DEF FindingsTellTheAnswers, Tells
  <2>2. Heard("gate", k) = {TRUE} <=> findings[k].reexecution = "confirmed"
    BY <2>1 DEF GateAnswer
  <2>3. (\E raw \in Content \cup {Unreadable} :
            Heard("loader", k) = {raw} /\ Resolves(seal.checks[k], raw))
         <=> findings[k].enforced_proof = "resolved"
    BY <2>1 DEF LoaderAnswers
  <2>4. Exactly(seal.checks[k], findings[k])
    BY DEF ExactInv
  <2> QED
    BY <2>2, <2>3, <2>4 DEF Exactly, Contract!Trusted
<1> QED
  BY <1>2, <1>3, FindingsRestOnTheirAnswers, PTL

--------------------------------------------------------------------------------
(* The browser beside the session.                                         *)

(* What a session says when it is past a step, and not only if it says so: *)
(* the seal was parsed; the flags tell of the signatures and of bytes that *)
(* were served.                                                            *)
FlagsAreExact ==
    /\ pc \notin {"load", "parse", "raised"} => seal.malformed = "no"
    /\ pc \in After /\ seal.tier = "T1" => (signature_ok <=> SignatureValid)
    /\ pc \in {"signature", "freshness"} \cup After =>
          \E bytes \in served :
              subject_ok <=> opts.subject /\ Sha256(bytes) = seal.subject.digest

LEMMA InitExact == Init => FlagsAreExact
BY DEF Init, FlagsAreExact, After, Loop

LEMMA NextExact ==
  ASSUME Inv, JudgedInv, FlagsAreExact, [Next]_vars
  PROVE  FlagsAreExact'
<1>1. seal \in Seals /\ live \in served
  BY DEF Inv, TypeOK, HistoryInv
<1>2. CASE LoadEnvelope \/ VerifyBundle \/ ParseStatement
  BY <1>2 DEF LoadEnvelope, VerifyBundle, ParseStatement, Goto, FlagsAreExact, After,
     Loop, args
<1>3. CASE CheckSubject
  <2>1. /\ seal' = seal /\ opts' = opts /\ served' = served
        /\ pc' \notin After /\ seal.malformed = "no"
        /\ pc' \in {"signature", "freshness"} => subject_ok' = SubjectMatches
    BY <1>3 DEF CheckSubject, Goto, After, Loop, args, world, FlagsAreExact
  <2> QED
    BY <1>1, <2>1 DEF FlagsAreExact, SubjectMatches
<1>4. CASE VerifySignatureLocal
  BY <1>4 DEF VerifySignatureLocal, Goto, After, Loop, args, world, FlagsAreExact,
     SignatureValid
<1>5. CASE CheckFreshness
  BY <1>5 DEF CheckFreshness, Goto, After, Loop, args, world, FlagsAreExact,
     SignatureValid, JudgedInv, FlagsJudged
<1>6. CASE Environment \/ UNCHANGED vars
  <2>1. /\ seal' = seal /\ opts' = opts /\ pc' = pc /\ served \subseteq served'
        /\ subject_ok' = subject_ok /\ signature_ok' = signature_ok
    BY <1>6 DEF Environment, SubjectRewritten, ProofReplaced, Tick, vars, args, flags,
       world
  <2> QED
    BY <2>1 DEF FlagsAreExact, SignatureValid
<1>7. CASE \/ CheckProfile \/ BeginEntry \/ RejectEntry \/ WithholdReexec
           \/ SkipReexec \/ StartGate \/ GateTimesOut \/ GateExits
           \/ WithholdProof \/ ResolveProof \/ NoProof \/ RecordEntry
  <2>1. UNCHANGED <<args, flags, world>> /\ pc \in After /\ pc' \in After
    BY <1>7 DEF CheckProfile, BeginEntry, RejectEntry, WithholdReexec, SkipReexec,
       StartGate, GateTimesOut, GateExits, GateReturns, WithholdProof, ResolveProof,
       NoProof, RecordEntry, Record, Goto, After, Loop
  <2> QED
    BY <2>1 DEF FlagsAreExact, SignatureValid, args, flags, world, After, Loop
<1>8. CASE AbortOnProof
  BY <1>8 DEF AbortOnProof, Goto, FlagsAreExact, After, Loop
<1> QED
  BY <1>2, <1>3, <1>4, <1>5, <1>6, <1>7, <1>8 DEF Next, SessionStep

LEMMA ExactFlags == Spec => []FlagsAreExact
BY JudgedIsInvariant, InitExact, NextExact, PTL DEF Spec

(* The rows of the browser's table are the findings of the session.        *)
LEMMA BrowserSaysTheSame ==
  ASSUME Inv, JudgedInv, pc = "done", seal.malformed = "no",
         seal.oddity # "lax-payload"
  PROVE  BrowserEntries = [k \in DOMAIN findings |->
             [id |-> findings[k].check.id, result |-> findings[k].result,
              trust_floor |-> findings[k].trust_floor]]
<1>1. DOMAIN findings = DOMAIN seal.checks
  <2>1. /\ seal \in Seals /\ findings \in Seq(Finding)
        /\ Len(findings) = Len(seal.checks)
    BY DEF Inv, TypeOK, JudgedInv, FindingsJudged
  <2>2. DOMAIN seal.checks = 1..Len(seal.checks)
    BY <2>1, SealFacts
  <2>3. DOMAIN findings = 1..Len(findings)
    BY <2>1
  <2> QED
    BY <2>1, <2>2, <2>3
<1>2. ASSUME NEW k \in DOMAIN seal.checks
      PROVE  /\ findings[k].check = seal.checks[k].check
             /\ findings[k].result = seal.checks[k].verdict.result
             /\ findings[k].trust_floor = BrowserFloor(seal.checks[k])
  <2> PICK e : e = seal.checks[k]
    OBVIOUS
  <2> PICK f : f = findings[k]
    OBVIOUS
  <2>1. Summary(f) = Contract!Judgement(e, f.trusted)
    BY <1>1 DEF JudgedInv, FindingsJudged, Judged
  <2>2. /\ f.check = e.check /\ f.result = e.verdict.result
        /\ f.trust_floor = Contract!TrustFloor(e)
    BY <2>1 DEF Summary, Contract!Judgement
  <2>3. Contract!TrustFloor(e) = BrowserFloor(e)
    BY DEF BrowserFloor, Contract!TrustFloor, BindingRank, GradeRank,
       Contract!BindingRank, Contract!GradeRank
  <2> QED
    BY <2>2, <2>3
<1> QED
  BY <1>1, <1>2 DEF BrowserEntries, ReadsStatement

LEMMA SubsetAtTheEnd ==
  Inv /\ JudgedInv /\ FlagsAreExact /\ RaisedOnlyOnBadInput => BrowserIsASubset
<1> SUFFICES ASSUME Inv, JudgedInv, FlagsAreExact, RaisedOnlyOnBadInput
             PROVE  BrowserIsASubset
  OBVIOUS
<1>1. seal \in SealType /\ \A bytes \in Subjects : bytes # None
  BY ConstantsAssumption, NoneAssumption DEF Inv, TypeOK
<1>2. ASSUME pc = "done", seal.tier = "T1"
      PROVE  /\ seal.malformed = "no" /\ (signature_ok <=> SignatureValid)
             /\ \A bytes : served = {bytes} =>
                   (subject_ok <=> opts.subject /\ Sha256(bytes) = seal.subject.digest)
  BY <1>2 DEF FlagsAreExact, After
<1>3. ASSUME pc = "done", seal.tier = "T1", NEW bytes \in Subjects, served = {bytes},
             opts.subject
      PROVE  /\ BrowserSubject(bytes) => subject_ok
             /\ subject_ok /\ seal.oddity = "none" => BrowserSubject(bytes)
  BY <1>1, <1>2, <1>3 DEF BrowserSubject, ReadsStatement
<1>4. ASSUME pc = "done", seal.tier = "T1", NEW bytes \in Subjects, served = {bytes},
             opts.subject, Authentic, seal.oddity = "none",
             ~Signs("lax"), ~Signs("ill-encoded")
      PROVE  AuthenticSubset(bytes)
  <2>1. seal.malformed = "no" /\ SignatureValid /\ BrowserSubject(bytes)
    BY <1>2, <1>3, <1>4 DEF Authentic
  <2>2. PICK k \in DOMAIN seal.signatures : seal.signatures[k] = "valid"
    BY <1>4, <2>1 DEF SignatureValid, Accepted, Signs
  <2>3. \A j \in 1..k - 1 : j \in DOMAIN seal.signatures
    <3>1. seal.signatures \in Seq(SignatureKind)
      BY SealFacts DEF Inv, TypeOK
    <3> QED
      BY <2>2, <3>1
  <2>4. \A j \in 1..k - 1 : seal.signatures[j] \notin {"lax", "ill-encoded"}
    BY <1>4, <2>3 DEF Signs
  <2>5. BrowserSignature
    BY <1>4, <2>1, <2>2, <2>4 DEF BrowserSignature, ReadsStatement
  <2> QED
    BY <1>4, <2>1, <2>5 DEF AuthenticSubset, SubjectCoupled, ReadsStatement
<1>5. ASSUME pc = "done", seal.tier = "T1", BrowserSignature, ~Signs("misattributed")
      PROVE  signature_ok
  BY <1>2, <1>5 DEF BrowserSignature, Signs, SignatureValid, Accepted
<1>6. ASSUME pc = "raised", seal.tier = "T1", NEW bytes \in Subjects,
             AuthenticSubset(bytes)
      PROVE  \/ seal.malformed \in {"record", "signatures"}
             \/ Unreadable \in served \/ ChokedOnProof
  <2>1. seal.malformed \in {"no", "envelope", "signatures", "statement", "coupling",
                            "respelled", "record"}
    BY <1>1 DEF SealType
  <2>2. seal.malformed \in {"no", "signatures", "record"}
    BY <1>6, <2>1 DEF AuthenticSubset, SubjectCoupled, ReadsStatement, BrowserSubject
  <2> QED
    BY <1>6, <2>2 DEF RaisedOnlyOnBadInput
<1> QED
  BY <1>2, <1>3, <1>4, <1>5, <1>6, BrowserSaysTheSame DEF BrowserIsASubset

(* Of the same seal and bytes the browser says what the session says, but  *)
(* for the differences the property names.  (js/checkseal_verify.mjs:      *)
(* verifySeal; verify.py: verify_local_seal.)                              *)
THEOREM BrowserAgrees == Spec => []BrowserIsASubset
BY JudgedIsInvariant, ExactFlags, OnlyBadInputRaises, SubsetAtTheEnd, PTL

--------------------------------------------------------------------------------
(* No false alarm.  Everything so far bounds what is reported from above;  *)
(* for the converse the session must have asked whatever there was to ask  *)
(* about, and what it found wanting must be wanting.                       *)

Asked(k) ==
    LET entry == seal.checks[k] IN
    Bound /\ InvariantE1(entry) =>
        /\ NeedsRerun(entry) /\ opts.reexec => Heard("gate", k) # {}
        /\ entry.verdict.enforced_proof # None /\ opts.loader => Heard("loader", k) # {}

EveryoneAsked ==
    /\ \A k \in DOMAIN findings : Asked(k)
    /\ pc \in {"proof", "authority"} /\ AllowExternal /\ NeedsRerun(Entry) /\ opts.reexec =>
           Heard("gate", idx) # {}
    /\ pc = "authority" /\ AllowExternal /\ Proof # None /\ opts.loader =>
           Heard("loader", idx) # {}

(* A flag that is FALSE is so for a reason that no later time takes away.  *)
FlagsHaveReasons ==
    /\ seal.tier = "T2" /\ pc \notin {"load", "raised"} => seal.signatures = <<"valid">>
    /\ pc \in After /\ ~freshness_ok => ~FreshAt(clock)

(* Gates and proofs are of checks that call for them.                      *)
AskedWithCause ==
    \A c \in calls :
        /\ c.check \in DOMAIN seal.checks
        /\ c.of = "gate" => NeedsRerun(seal.checks[c.check])
        /\ c.of = "loader" => seal.checks[c.check].verdict.enforced_proof # None

CompleteInv == EveryoneAsked /\ FlagsHaveReasons /\ AskedWithCause

(* Over a subject file nobody rewrote, and within one second.              *)
Undisturbed == served = {live} /\ started = clock

(* The verdict of an undisturbed session is the conjunction of what the    *)
(* seal is, what the call supplies and what gates and proofs answered; it  *)
(* is no stricter and no more lenient.                                     *)
(* (verify.py: verify_local_seal, verify_keyless_seal.)                    *)
VerdictIsExact ==
    pc = "done" /\ Undisturbed =>
        (Authentic <=> Worthy /\ BorneOut /\ FreshAt(clock))

LEMMA InitComplete == Init => CompleteInv
BY DEF Init, CompleteInv, EveryoneAsked, FlagsHaveReasons, AskedWithCause, After, Loop

LEMMA AskedStays ==
  ASSUME UNCHANGED judged, calls \subseteq calls'
  PROVE  /\ \A k : Asked(k) => Asked(k)'
         /\ \A of, k : Heard(of, k) \subseteq Heard(of, k)'
<1>1. seal' = seal /\ opts' = opts /\ Bound' = Bound
  BY SameRules DEF judged, args
<1>2. \A of, k : Heard(of, k) \subseteq Heard(of, k)'
  BY DEF Heard
<1>3. ASSUME NEW k, Asked(k) PROVE Asked(k)'
  <2>1. /\ Heard("gate", k) # {} => Heard("gate", k)' # {}
        /\ Heard("loader", k) # {} => Heard("loader", k)' # {}
    BY <1>2
  <2> QED
    BY <1>1, <1>3, <2>1 DEF Asked, NeedsRerun, InvariantE1, IsEnforced
<1> QED
  BY <1>2, <1>3

(* A step that asks nobody keeps the causes.                               *)
LEMMA CausesStay ==
  ASSUME AskedWithCause, UNCHANGED <<calls, args>>
  PROVE  AskedWithCause'
BY DEF AskedWithCause, args, NeedsRerun, IsEnforced

LEMMA ReasonsStay ==
  ASSUME Inv, FlagsHaveReasons, UNCHANGED <<args, flags, clock>>,
         pc \in After, pc' \in After
  PROVE  FlagsHaveReasons'
BY DEF FlagsHaveReasons, FreshAt, args, flags, After, Loop

LEMMA PreambleComplete ==
  ASSUME Inv, JudgedInv, CompleteInv,
         LoadEnvelope \/ VerifyBundle \/ ParseStatement \/ CheckSubject
            \/ VerifySignatureLocal \/ CheckFreshness
  PROVE  CompleteInv'
<1>1. /\ findings = <<>> /\ findings' = findings /\ UNCHANGED <<calls, args>>
      /\ pc' \notin Loop
  BY DEF Inv, LoopInv, Before, Loop, LoadEnvelope, VerifyBundle, ParseStatement,
     CheckSubject, VerifySignatureLocal, CheckFreshness, Goto
<1>2. EveryoneAsked'
  BY <1>1 DEF EveryoneAsked, Loop
<1>3. AskedWithCause'
  BY <1>1, CausesStay DEF CompleteInv
<1>4. seal' = seal /\ opts' = opts /\ seal.tier \in {"T1", "T2"}
  BY <1>1, SealFacts DEF args, Inv, TypeOK
<1>5. FlagsHaveReasons'
  <2> USE <1>4 DEF CompleteInv, FlagsHaveReasons, Goto, After, Loop, FreshAt
  <2>1. CASE LoadEnvelope \/ ParseStatement
    BY <2>1 DEF LoadEnvelope, ParseStatement, flags
  <2>2. CASE VerifyBundle
    BY <2>2 DEF VerifyBundle
  <2>3. CASE CheckSubject
    BY <2>3 DEF CheckSubject
  <2>4. CASE VerifySignatureLocal
    BY <2>4 DEF VerifySignatureLocal, Inv, FlagsInv, JudgedInv, FlagsJudged
  <2>5. CASE CheckFreshness
    BY <2>5 DEF CheckFreshness, IsFresh, JudgedInv, FlagsJudged, world
  <2> QED
    BY <2>1, <2>2, <2>3, <2>4, <2>5
<1> QED
  BY <1>2, <1>3, <1>5 DEF CompleteInv

LEMMA EnvironmentComplete ==
  ASSUME Inv, JudgedInv, CompleteInv, Environment \/ UNCHANGED vars
  PROVE  CompleteInv'
<1>1. /\ UNCHANGED <<args, flags, pc, idx, findings, calls, judged>>
      /\ clock \in Nat /\ clock' \in Nat /\ clock <= clock'
  BY DEF Environment, SubjectRewritten, ProofReplaced, Tick, vars, world, Inv, TypeOK,
     judged
<1>2. /\ seal' = seal /\ opts' = opts /\ pc' = pc /\ findings' = findings /\ idx' = idx
      /\ freshness_ok' = freshness_ok /\ AllowExternal' = AllowExternal
      /\ seal \in SealType /\ opts \in OptionsType
  BY <1>1, SameRules, ConstantsAssumption DEF args, flags, Inv, TypeOK
<1>3. FlagsHaveReasons'
  <2>1. seal.integrated \in Nat \cup {None} /\ opts.max_age \in Nat \cup {None}
    BY <1>2 DEF SealType, OptionsType
  <2>2. FreshAt(clock)' => FreshAt(clock)
    BY <1>1, <1>2, <2>1 DEF FreshAt
  <2> QED
    BY <1>2, <2>2 DEF CompleteInv, FlagsHaveReasons
<1>4. \A of, k : Heard(of, k)' = Heard(of, k)
  BY <1>1, NobodyAsked
<1>5. Entry' = Entry /\ Proof' = Proof
  BY <1>2 DEF Entry, Proof
<1>6. (\A k \in DOMAIN findings : Asked(k))'
  BY <1>1, <1>2, AskedStays DEF CompleteInv, EveryoneAsked
<1>7. EveryoneAsked'
  BY <1>1, <1>2, <1>4, <1>5, <1>6 DEF CompleteInv, EveryoneAsked, NeedsRerun, IsEnforced
<1> QED
  BY <1>1, <1>3, <1>7, CausesStay DEF CompleteInv

(* The steps of a check: to go on without asking there must be no cause.   *)
LEMMA CheckStepComplete ==
  ASSUME Inv, JudgedInv, CompleteInv,
         \/ BeginEntry \/ WithholdReexec \/ SkipReexec \/ StartGate
         \/ WithholdProof \/ NoProof \/ ResolveProof
         \/ \E confirmed \in BOOLEAN : pc = "gate" /\ GateReturns(confirmed)
  PROVE  CompleteInv'
<1>1. /\ UNCHANGED <<judged, idx, findings, world>> /\ calls \subseteq calls'
      /\ pc \in Loop /\ pc' \in Loop
  BY DEF BeginEntry, WithholdReexec, SkipReexec, StartGate, WithholdProof, NoProof,
     ResolveProof, GateReturns, Goto, Loop, judged
<1>2. /\ seal' = seal /\ Entry' = Entry /\ Proof' = Proof /\ opts' = opts
      /\ AllowExternal' = AllowExternal
  BY <1>1, SameRules DEF Entry, Proof, judged, args
<1>3. /\ idx \in DOMAIN seal.checks /\ Entry = seal.checks[idx] /\ idx' = idx /\ idx \in Nat
  BY <1>1, EntryFacts
<1>4. FlagsHaveReasons'
  BY <1>1, ReasonsStay DEF CompleteInv, judged, world, After
<1>5. (\A k \in DOMAIN findings : Asked(k))'
  BY <1>1, AskedStays DEF CompleteInv, EveryoneAsked
<1>6. (NeedsRerun(Entry) <=> NeedsRerun(Entry)')
  BY <1>2 DEF NeedsRerun, IsEnforced
<1>7. CASE BeginEntry \/ WithholdReexec \/ SkipReexec \/ StartGate
  <2>1. /\ UNCHANGED <<calls, args>> /\ pc' # "authority"
        /\ pc' = "proof" => ~AllowExternal \/ ~NeedsRerun(Entry) \/ ~opts.reexec
    BY <1>7 DEF BeginEntry, WithholdReexec, SkipReexec, StartGate, Goto
  <2> QED
    BY <1>2, <1>4, <1>5, <1>6, <2>1, CausesStay DEF CompleteInv, EveryoneAsked
<1>8. CASE WithholdProof \/ NoProof
  <2>1. /\ UNCHANGED <<calls, args>> /\ pc = "proof" /\ pc' = "authority"
        /\ ~AllowExternal \/ Proof = None \/ ~opts.loader
    BY <1>8 DEF WithholdProof, NoProof, Goto
  <2>2. Heard("gate", idx)' = Heard("gate", idx)
    BY <1>3, <2>1 DEF Heard
  <2> QED
    BY <1>2, <1>4, <1>5, <1>6, <2>1, <2>2, CausesStay DEF CompleteInv, EveryoneAsked
<1>9. CASE ResolveProof
  <2>1. PICK raw : calls' = calls \cup {[of |-> "loader", check |-> idx, answer |-> raw]}
    BY <1>9 DEF ResolveProof
  <2>2. /\ Heard("loader", idx)' = Heard("loader", idx) \cup {raw}
        /\ Heard("gate", idx)' = Heard("gate", idx)
    BY <1>1, <1>3, <2>1, OneAsked DEF judged
  <2>3. pc = "proof" /\ pc' = "authority" /\ Proof # None
    BY <1>9 DEF ResolveProof, Goto
  <2>4. AskedWithCause'
    BY <1>2, <1>3, <2>1, <2>3 DEF CompleteInv, AskedWithCause, Proof, NeedsRerun, IsEnforced
  <2> QED
    BY <1>2, <1>4, <1>5, <1>6, <2>2, <2>3, <2>4 DEF CompleteInv, EveryoneAsked
<1>10. CASE \E confirmed \in BOOLEAN : pc = "gate" /\ GateReturns(confirmed)
  <2>1. PICK confirmed \in BOOLEAN :
           calls' = calls \cup {[of |-> "gate", check |-> idx, answer |-> confirmed]}
    BY <1>10 DEF GateReturns
  <2>2. Heard("gate", idx)' = Heard("gate", idx) \cup {confirmed}
    BY <1>1, <1>3, <2>1, OneAsked DEF judged
  <2>3. pc' = "proof" /\ NeedsRerun(Entry)
    BY <1>10 DEF GateReturns, Goto, JudgedInv, CheckJudged
  <2>4. AskedWithCause'
    BY <1>2, <1>3, <2>1, <2>3 DEF CompleteInv, AskedWithCause, NeedsRerun, IsEnforced
  <2> QED
    BY <1>2, <1>4, <1>5, <1>6, <2>2, <2>3, <2>4 DEF CompleteInv, EveryoneAsked
<1> QED
  BY <1>7, <1>8, <1>9, <1>10

LEMMA RecordComplete ==
  ASSUME Inv, JudgedInv, CompleteInv, RejectEntry \/ RecordEntry
  PROVE  CompleteInv'
<1>1. /\ UNCHANGED <<judged, world, calls>> /\ pc \in Loop /\ pc' \in {"e1", "done"}
      /\ findings \in Seq(Finding)
  BY DEF RejectEntry, RecordEntry, Record, Goto, Loop, judged, Inv, TypeOK
<1>2. PICK f : findings' = Append(findings, f)
  BY DEF RejectEntry, RecordEntry, Record
<1>3. idx \in DOMAIN seal.checks /\ Len(findings) = idx - 1 /\ Entry = seal.checks[idx]
      /\ idx \in Nat
  BY <1>1, EntryFacts
<1>4. DOMAIN findings' = DOMAIN findings \cup {idx}
  BY <1>1, <1>2, <1>3
<1>5. Asked(idx)
  <2>1. CASE RejectEntry
    BY <1>3, <2>1 DEF RejectEntry, Asked
  <2>2. CASE RecordEntry
    BY <1>3, <2>2 DEF RecordEntry, Asked, CompleteInv, EveryoneAsked, Bound, Proof
  <2> QED
    BY <2>1, <2>2
<1>6. \A k \in DOMAIN findings' : Asked(k)
  BY <1>4, <1>5 DEF CompleteInv, EveryoneAsked
<1>7. (\A k \in DOMAIN findings : Asked(k))'
  BY <1>1, <1>6, AskedStays
<1>8. EveryoneAsked'
  BY <1>1, <1>7 DEF EveryoneAsked
<1>9. FlagsHaveReasons'
  BY <1>1, ReasonsStay DEF CompleteInv, judged, world, After, Loop
<1> QED
  BY <1>1, <1>8, <1>9, CausesStay DEF CompleteInv, judged

LEMMA ProfileComplete ==
  ASSUME Inv, JudgedInv, CompleteInv, CheckProfile
  PROVE  CompleteInv'
<1>1. /\ UNCHANGED <<judged, world, calls>> /\ pc \in After /\ pc' \in {"e1", "done"}
      /\ findings = <<>>
  BY DEF CheckProfile, Goto, judged, After, Inv, LoopInv, Before
<1>2. (\A k \in DOMAIN findings : Asked(k))'
  <2>1. CASE ViolatesProfile
    BY <1>1, <2>1, SameRules DEF Asked, Bound
  <2>2. CASE ~ViolatesProfile
    BY <1>1, <2>2 DEF CheckProfile
  <2> QED
    BY <2>1, <2>2
<1>3. EveryoneAsked'
  BY <1>1, <1>2 DEF EveryoneAsked
<1>4. FlagsHaveReasons'
  BY <1>1, ReasonsStay DEF CompleteInv, judged, world, After, Loop
<1> QED
  BY <1>1, <1>3, <1>4, CausesStay DEF CompleteInv, judged

LEMMA AbortComplete ==
  ASSUME Inv, JudgedInv, CompleteInv, AbortOnProof
  PROVE  CompleteInv'
<1>1. /\ UNCHANGED <<judged, findings>> /\ seal' = seal /\ calls \subseteq calls'
      /\ pc = "proof" /\ pc' = "raised" /\ Proof # None
  BY DEF AbortOnProof, Goto, judged, args
<1>2. EveryoneAsked'
  BY <1>1, AskedStays DEF CompleteInv, EveryoneAsked
<1>3. FlagsHaveReasons'
  BY <1>1 DEF FlagsHaveReasons, After, Loop
<1>4. idx \in DOMAIN seal.checks /\ Entry = seal.checks[idx]
  BY <1>1, EntryFacts DEF Loop
<1>5. PICK raw : calls' = calls \cup {[of |-> "loader", check |-> idx, answer |-> raw]}
  BY DEF AbortOnProof
<1>6. AskedWithCause'
  BY <1>1, <1>4, <1>5 DEF CompleteInv, AskedWithCause, Proof, NeedsRerun, IsEnforced
<1> QED
  BY <1>2, <1>3, <1>6 DEF CompleteInv

LEMMA CompleteIsInvariant == Spec => []CompleteInv
<1>1. Inv /\ JudgedInv /\ CompleteInv /\ [Next]_vars => CompleteInv'
  BY PreambleComplete, EnvironmentComplete, CheckStepComplete, RecordComplete,
     ProfileComplete, AbortComplete
  DEF Next, SessionStep, GateExits, GateTimesOut
<1> QED
  BY <1>1, InitComplete, JudgedIsInvariant, PTL DEF Spec

(* What the two verdicts of the contract have to do with each other.       *)
LEMMA WorthyCheck ==
  ASSUME Inv, JudgedInv, FindingsTellTheAnswers, TrustIsExact, CompleteInv,
         pc = "done", NEW k \in DOMAIN seal.checks
  PROVE  /\ k \in DOMAIN findings
         /\ BorneOut /\ Bound /\ Contract!Trusted(seal.checks[k], TRUE, TRUE, TRUE)
               => findings[k].trusted
         /\ findings[k].trusted =>
               /\ Bound /\ Contract!Trusted(seal.checks[k], TRUE, TRUE, TRUE)
               /\ \A c \in calls : c.check = k =>
                     /\ c.of = "gate" => c.answer = TRUE
                     /\ c.of = "loader" => Resolves(seal.checks[k], c.answer)
<1> PICK entry : entry = seal.checks[k]
  OBVIOUS
<1> DEFINE gate   == Heard("gate", k) = {TRUE}
           proven == \E raw \in Content \cup {Unreadable} :
                        Heard("loader", k) = {raw} /\ Resolves(entry, raw)
<1>1. k \in DOMAIN findings
  BY SealFacts DEF Inv, TypeOK, JudgedInv, FindingsJudged
<1>2. findings[k].trusted <=> Contract!Trusted(entry, Bound, gate, proven)
  BY <1>1 DEF TrustIsExact
<1>3. /\ Heard("gate", k) \in {{}, {TRUE}, {FALSE}}
      /\ Heard("loader", k) # {} =>
            \E raw \in Content \cup {Unreadable} : Heard("loader", k) = {raw}
  BY <1>1 DEF FindingsTellTheAnswers, Tells, GateAnswer, LoaderAnswers
<1>4. \A c \in calls : c.check = k => c.answer \in Heard(c.of, k)
  BY DEF Heard
<1>5. Asked(k)
  BY <1>1 DEF CompleteInv, EveryoneAsked
<1>6. ASSUME BorneOut, Bound, Contract!Trusted(entry, TRUE, TRUE, TRUE)
      PROVE  findings[k].trusted
  <2>1. /\ \A a \in Heard("gate", k) : a = TRUE
        /\ \A a \in Heard("loader", k) : Resolves(entry, a)
    BY <1>6 DEF BorneOut, AnswersAreGood, Heard
  <2>2. NeedsRerun(entry) => gate
    BY <1>3, <1>5, <1>6, <2>1 DEF Asked, Contract!Trusted, NeedsRerun, InvariantE1,
       IsEnforced, Contract!InvariantE1, Contract!IsEnforced
  <2>3. entry.verdict.enforced_proof # None => proven
    BY <1>3, <1>5, <1>6, <2>1 DEF Asked, Contract!Trusted, InvariantE1,
       IsEnforced, Contract!InvariantE1, Contract!IsEnforced
  <2> HIDE DEF gate, proven
  <2>4. Contract!Trusted(entry, Bound, gate, proven)
    BY <1>6, <2>2, <2>3 DEF Contract!Trusted, NeedsRerun, IsEnforced, Contract!IsEnforced
  <2> QED
    BY <1>2, <2>4
<1>7. ASSUME findings[k].trusted
      PROVE  /\ Bound /\ Contract!Trusted(entry, TRUE, TRUE, TRUE)
             /\ NeedsRerun(entry) => gate
             /\ entry.verdict.enforced_proof # None => proven
  <2>1. Contract!Trusted(entry, Bound, gate, proven)
    BY <1>2, <1>7
  <2> HIDE DEF gate, proven
  <2> QED
    BY <2>1 DEF Contract!Trusted, NeedsRerun, IsEnforced, Contract!IsEnforced
<1>8. ASSUME findings[k].trusted, NEW c \in calls, c.check = k
      PROVE  /\ c.of = "gate" => c.answer = TRUE
             /\ c.of = "loader" => Resolves(entry, c.answer)
  <2>1. /\ c.of = "gate" => NeedsRerun(entry)
        /\ c.of = "loader" => entry.verdict.enforced_proof # None
    BY <1>8 DEF CompleteInv, AskedWithCause
  <2>2. c.answer \in Heard(c.of, k)
    BY <1>4, <1>8
  <2>3. c.of = "gate" => c.answer = TRUE
    BY <1>7, <1>8, <2>1, <2>2
  <2>4. c.of = "loader" => Resolves(entry, c.answer)
    BY <1>7, <1>8, <2>1, <2>2
  <2> QED
    BY <2>3, <2>4
<1> QED
  BY <1>1, <1>6, <1>7, <1>8

(* The digest of a seal is of some content, which no unreadable file has.  *)
LEMMA ServedIsReadable ==
  ASSUME Inv, BorneOut
  PROVE  Unreadable \notin served
<1>1. seal.subject.digest \in Digest
  BY ConstantsAssumption DEF Inv, TypeOK, SealType, Subject
<1>2. PICK content \in Content : seal.subject.digest = [sha256 |-> content]
  BY <1>1 DEF Digest, Sha256
<1>3. Unreadable \in served => [sha256 |-> Unreadable] = [sha256 |-> content]
  BY <1>2 DEF BorneOut, Sha256
<1>4. Unreadable # content
  BY ConstantsAssumption
<1>5. [sha256 |-> Unreadable].sha256 = Unreadable /\ [sha256 |-> content].sha256 = content
  OBVIOUS
<1> QED
  BY <1>3, <1>4, <1>5

LEMMA GoodIsAllowed ==
  ASSUME Inv, JudgedInv, FlagsAreExact, CompleteInv, pc = "done",
         Worthy, BorneOut, FreshAt(clock)
  PROVE  AllowExternal /\ Bound
<1>1. /\ seal.tier \in {"T1", "T2"} /\ subject_ok \in BOOLEAN
      /\ signature_ok \in BOOLEAN /\ freshness_ok \in BOOLEAN
  BY SealFacts DEF Inv, TypeOK
<1>2. subject_ok
  BY <1>1 DEF FlagsAreExact, After, Worthy, BorneOut
<1>3. signature_ok
  BY <1>1 DEF FlagsAreExact, After, Worthy, JudgedInv, FlagsJudged
<1>4. freshness_ok
  BY <1>1 DEF JudgedInv, FlagsJudged, CompleteInv, FlagsHaveReasons, After
<1> QED
  BY <1>2, <1>3, <1>4, InProfileIsNotViolated DEF AllowExternal, Bound, Worthy

LEMMA GoodSealsGood ==
  Inv /\ JudgedInv /\ FlagsAreExact /\ CompleteInv /\ RaisedOnlyOnBadInput
    /\ FindingsTellTheAnswers /\ TrustIsExact => GoodSealsPass
<1> SUFFICES ASSUME Inv, JudgedInv, FlagsAreExact, CompleteInv, RaisedOnlyOnBadInput,
                    FindingsTellTheAnswers, TrustIsExact,
                    Worthy, BorneOut, FreshAt(clock)
             PROVE  pc # "raised" /\ (pc = "done" => Authentic)
  BY DEF GoodSealsPass
<1>1. pc # "raised"
  <2>1. ~ChokedOnProof
    BY DEF ChokedOnProof, ParserRaises, BorneOut, AnswersAreGood, Resolves
  <2> QED
    BY <2>1, ServedIsReadable DEF RaisedOnlyOnBadInput, Worthy
<1>2. ASSUME pc = "done" PROVE Authentic
  <2>1. AllowExternal /\ Bound
    BY <1>2, GoodIsAllowed
  <2>2. DOMAIN findings = DOMAIN seal.checks
    BY <1>2, SealFacts DEF Inv, TypeOK, JudgedInv, FindingsJudged
  <2>3. \A k \in DOMAIN findings : findings[k].trusted
    BY <1>2, <2>1, <2>2, WorthyCheck DEF Worthy
  <2> QED
    BY <2>1, <2>3 DEF AllowExternal, Authentic
<1> QED
  BY <1>1, <1>2

(* A seal that deserves it, borne out by the world and still fresh, passes *)
(* whatever else goes on: no interleaving of loop, gates and rewrites      *)
(* makes a false alarm.  (verify.py: VerificationReport.authentic.)        *)
THEOREM NoFalseAlarm == Spec => []GoodSealsPass
BY JudgedIsInvariant, ExactFlags, CompleteIsInvariant, OnlyBadInputRaises,
   FindingsRestOnTheirAnswers, TrustIsNeitherMoreNorLess, GoodSealsGood, PTL

LEMMA OnlyGoodSealsPass ==
  ASSUME Inv, JudgedInv, FlagsAreExact, CompleteInv, FindingsTellTheAnswers,
         TrustIsExact, pc = "done", Undisturbed, Authentic
  PROVE  Worthy /\ BorneOut /\ FreshAt(clock)
<1>1. SubjectServed /\ SignatureValid /\ FreshAt(clock)
  BY DEF Inv, FlagsInv, Authentic, FreshAtStart, After, Undisturbed, FreshAt
<1>2. DOMAIN findings = DOMAIN seal.checks /\ 1 \in DOMAIN seal.checks
  BY SealFacts DEF Inv, TypeOK, JudgedInv, FindingsJudged
<1>3. \A k \in DOMAIN seal.checks :
         /\ Bound /\ Contract!Trusted(seal.checks[k], TRUE, TRUE, TRUE)
         /\ \A c \in calls : c.check = k =>
               /\ c.of = "gate" => c.answer = TRUE
               /\ c.of = "loader" => Resolves(seal.checks[k], c.answer)
  BY <1>2, WorthyCheck DEF Authentic
<1>4. Worthy
  <2>1. seal.malformed = "no"
    BY DEF FlagsAreExact
  <2>2. IF seal.tier = "T2" THEN seal.signatures = <<"valid">> ELSE SignatureValid
    BY <1>1 DEF CompleteInv, FlagsHaveReasons
  <2>3. opts.subject /\ Contract!InProfile
    BY <1>2, <1>3, InProfileIsNotViolated DEF Bound, JudgedInv, FlagsJudged, Authentic
  <2> QED
    BY <1>3, <2>1, <2>2, <2>3 DEF Worthy
<1>5. BorneOut
  <2>1. \A bytes \in served : Sha256(bytes) = seal.subject.digest
    BY <1>1 DEF SubjectServed, Undisturbed
  <2>2. \A c \in calls : c.check \in DOMAIN seal.checks
    BY DEF CompleteInv, AskedWithCause
  <2> QED
    BY <1>3, <2>1, <2>2 DEF BorneOut, AnswersAreGood
<1> QED
  BY <1>1, <1>4, <1>5

(* Undisturbed, a session of either tier passes a seal if and only if the  *)
(* seal, the call and the answers deserve it.                              *)
(* (verify.py: verify_local_seal, verify_keyless_seal.)                    *)
THEOREM VerdictsAreExact == Spec => []VerdictIsExact
<1>1. Inv /\ JudgedInv /\ FlagsAreExact /\ CompleteInv /\ FindingsTellTheAnswers
        /\ TrustIsExact /\ GoodSealsPass => VerdictIsExact
  BY OnlyGoodSealsPass DEF VerdictIsExact, GoodSealsPass
<1> QED
  BY <1>1, JudgedIsInvariant, ExactFlags, CompleteIsInvariant,
     FindingsRestOnTheirAnswers, TrustIsNeitherMoreNorLess, NoFalseAlarm, PTL
=============================================================================
