---------------------------- MODULE VerifierProofs -----------------------------
(***************************************************************************)
(* For every set of seals, arguments, subjects and reports, whatever the   *)
(* gates answer and the environment does: a session of Verifier keeps its  *)
(* types, calls nothing external before the seal is bound, never           *)
(* over-claims, and reports of each check what was answered about it.      *)
(***************************************************************************)
EXTENDS Verifier, TLAPS

(***************************************************************************)
(* The inductive invariant.  The properties speak of what is true of the   *)
(* seal and the world; the code decides on its flags and locals, so the    *)
(* invariant says what each flag and local stands for at each step.        *)
(***************************************************************************)
Before == {"load", "parse", "subject", "signature", "freshness", "profile"}
Loop   == {"e1", "reexec", "gate", "proof", "authority"}
After  == {"profile", "done"} \cup Loop    \* the three flags are settled

HistoryInv == live \in served /\ started <= clock

FlagsInv ==
    /\ pc = "signature" => seal.tier = "T1"
    /\ subject_ok => SubjectServed
    /\ signature_ok => SignatureValid
    /\ freshness_ok /\ pc \in After => FreshAtStart

CallsInv ==
    /\ calls # {} => pc \in After \cup {"raised"} /\ AllowExternal /\ FreshAtStart
    /\ pc = "gate" => AllowExternal

LoopInv ==
    /\ pc \in Before => idx = 1 /\ findings = <<>>
    /\ pc \in Loop => idx \in DOMAIN seal.checks /\ Len(findings) = idx - 1
    /\ Len(findings) <= Len(seal.checks)

(* What a `trusted' that is still TRUE stands for.                         *)
LocalsInv ==
    /\ pc \in {"proof", "authority"} /\ trusted /\ NeedsRerun(Entry) =>
           GateConfirmed(idx)
    /\ pc = "authority" /\ trusted /\ IsEnforced(Entry) => ProofRead(idx)

Inv == /\ TypeOK
       /\ HistoryInv
       /\ FlagsInv
       /\ CallsInv
       /\ LoopInv
       /\ LocalsInv
       /\ TrustedEnforcedIsBacked

--------------------------------------------------------------------------------
(* The initial states.                                                     *)

LEMMA SealFacts ==
  ASSUME seal \in Seals
  PROVE  /\ seal.checks \in Seq(CheckEntry)
         /\ Len(seal.checks) \in Nat /\ Len(seal.checks) >= 1
         /\ DOMAIN seal.checks = 1..Len(seal.checks)
         /\ seal.signatures \in Seq(SignatureKind)
         /\ seal.tier \in {"T1", "T2"}
<1>1. seal \in SealType
  BY ConstantsAssumption
<1>2. seal.checks \in Seq(CheckEntry) /\ seal.checks # <<>>
  BY <1>1 DEF SealType
<1>3. seal.signatures \in Seq(SignatureKind) /\ seal.tier \in {"T1", "T2"}
  BY <1>1 DEF SealType
<1>4. Len(seal.checks) \in Nat /\ Len(seal.checks) >= 1
  BY <1>2
<1> QED
  BY <1>2, <1>3, <1>4

LEMMA InitInv == Init => Inv
<1> SUFFICES ASSUME Init PROVE Inv
  OBVIOUS
<1>1. seal \in Seals
  BY DEF Init
<1>2. TypeOK
  <2>1. clock \in Nat /\ started \in Nat
    BY ConstantsAssumption DEF Init
  <2>2. idx \in 1..Len(seal.checks) + 1
    BY <1>1, SealFacts DEF Init
  <2>3. findings \in Seq(Finding) /\ calls \subseteq Call
        /\ served \subseteq Subjects \cup {Unreadable}
    BY DEF Init
  <2>4. pc \in Steps /\ reexec \in Reexecutions /\ proof \in Proofs
    BY DEF Init, Steps, Reexecutions, Proofs
  <2> QED
    BY <2>1, <2>2, <2>3, <2>4 DEF Init, TypeOK
<1>3. HistoryInv /\ FlagsInv /\ CallsInv /\ LoopInv /\ LocalsInv
  BY <1>1, <1>2, SealFacts
  DEF Init, HistoryInv, FlagsInv, CallsInv, LoopInv, LocalsInv, Before, After,
      Loop, TypeOK
<1>4. TrustedEnforcedIsBacked
  BY DEF Init, TrustedEnforcedIsBacked
<1> QED
  BY <1>2, <1>3, <1>4 DEF Inv

--------------------------------------------------------------------------------
(* The steps before the loop.                                              *)

LEMMA PreambleInv ==
  ASSUME Inv, LoadEnvelope \/ VerifyBundle \/ ParseStatement \/ CheckSubject
              \/ VerifySignatureLocal \/ CheckFreshness
  PROVE  Inv'
<1> USE DEF Inv
<1>1. calls = {} /\ findings = <<>> /\ idx = 1 /\ calls' = calls /\ findings' = findings
      /\ idx' = idx /\ seal' = seal /\ opts' = opts /\ started' = started
      /\ served' = served /\ clock' = clock /\ live' = live /\ files' = files
      /\ trusted' = trusted /\ reexec' = reexec /\ proof' = proof
  BY DEF LoadEnvelope, VerifyBundle, ParseStatement, CheckSubject,
         VerifySignatureLocal, CheckFreshness, CallsInv, LoopInv, Before, After,
         Loop, vars, world, args, flags, locals
<1>2. seal \in Seals
  BY DEF TypeOK
<1>0. /\ CheckFreshness \/ VerifySignatureLocal \/ pc' \notin After
      /\ pc' \notin Loop \cup {"done"}
      /\ pc' = "signature" => seal.tier = "T1"
  BY <1>1, <1>2, SealFacts DEF LoadEnvelope, VerifyBundle, ParseStatement,
     CheckSubject, VerifySignatureLocal, CheckFreshness, Goto, After, Loop
<1>3. TypeOK'
  BY <1>1, <1>2 DEF TypeOK, LoadEnvelope, VerifyBundle, ParseStatement,
     CheckSubject, VerifySignatureLocal, CheckFreshness, Goto, Steps,
     flags, SubjectMatches, IsFresh
<1>4. HistoryInv'
  BY <1>1 DEF HistoryInv
<1>5. (subject_ok => SubjectServed)'
  BY <1>1 DEF FlagsInv, SubjectServed, LoadEnvelope, VerifyBundle,
     ParseStatement, CheckSubject, VerifySignatureLocal, CheckFreshness, flags,
     SubjectMatches, HistoryInv
<1>6. (signature_ok => SignatureValid)'
  <2>1. CASE VerifyBundle
    <3>1. seal.signatures = <<"valid">> => SignatureValid
      BY DEF SignatureValid, Accepted
    <3> QED
      BY <2>1, <3>1, <1>1 DEF FlagsInv, SignatureValid, VerifyBundle
  <2>2. CASE ~VerifyBundle
    BY <2>2, <1>1 DEF FlagsInv, SignatureValid, LoadEnvelope, ParseStatement,
       CheckSubject, VerifySignatureLocal, CheckFreshness, flags
  <2> QED BY <2>1, <2>2
<1>7. (freshness_ok /\ pc \in After => FreshAtStart)'
  <2>1. CASE CheckFreshness
    <3>1. seal.integrated \in Nat \cup {None} /\ opts.max_age \in Nat \cup {None}
      BY ConstantsAssumption DEF TypeOK, SealType, OptionsType
    <3>2. started \in Nat /\ clock \in Nat /\ started <= clock
      BY DEF TypeOK, HistoryInv
    <3>3. freshness_ok' => IsFresh
      BY <2>1 DEF CheckFreshness
    <3>4. IsFresh => FreshAtStart
      BY <3>1, <3>2 DEF FreshAtStart, FreshAt, IsFresh
    <3> QED
      BY <3>3, <3>4, <1>1 DEF FreshAtStart, FreshAt
  <2>2. CASE VerifySignatureLocal
    BY <2>2, <1>1 DEF FlagsInv, FreshAtStart, FreshAt,
       VerifySignatureLocal
  <2> QED BY <2>1, <2>2, <1>0
<1>8. CallsInv' /\ LoopInv' /\ LocalsInv' /\ TrustedEnforcedIsBacked'
  BY <1>0, <1>1, <1>2, SealFacts DEF CallsInv, LoopInv, LocalsInv, Loop,
     TrustedEnforcedIsBacked
<1> QED
  BY <1>0, <1>1, <1>3, <1>4, <1>5, <1>6, <1>7, <1>8 DEF FlagsInv

--------------------------------------------------------------------------------
(* The world beside the session only moves on: nothing it does takes back  *)
(* what the flags and the findings rest on.                                *)

LEMMA EnvironmentInv == ASSUME Inv, Environment PROVE Inv'
<1> USE DEF Inv
<1>1. /\ seal' = seal /\ opts' = opts /\ started' = started /\ pc' = pc
      /\ subject_ok' = subject_ok /\ signature_ok' = signature_ok
      /\ freshness_ok' = freshness_ok /\ idx' = idx /\ trusted' = trusted
      /\ reexec' = reexec /\ proof' = proof /\ findings' = findings
      /\ calls' = calls
      /\ served \subseteq served' /\ live' \in served'
  BY DEF Environment, SubjectRewritten, ProofReplaced, Tick, args, flags,
         locals, HistoryInv
<1>2. /\ clock' \in Nat /\ clock <= clock'
      /\ live' \in Subjects \cup {Unreadable}
      /\ served' \subseteq Subjects \cup {Unreadable}
      /\ files' \in [Uri -> Reports \cup {Unreadable}]
  BY DEF Environment, SubjectRewritten, ProofReplaced, Tick, TypeOK
<1>3. TypeOK'
  BY <1>1, <1>2 DEF TypeOK
<1>4. HistoryInv'
  BY <1>1, <1>2 DEF HistoryInv, TypeOK
<1>5. FlagsInv'
  BY <1>1 DEF FlagsInv, SubjectServed, SignatureValid, FreshAtStart,
     FreshAt
<1>6. CallsInv' /\ LoopInv'
  BY <1>1 DEF CallsInv, LoopInv, AllowExternal, FreshAtStart, FreshAt
<1>7. LocalsInv' /\ TrustedEnforcedIsBacked'
  BY <1>1 DEF LocalsInv, TrustedEnforcedIsBacked, GateConfirmed, ProofRead, Entry
<1> QED
  BY <1>3, <1>4, <1>5, <1>6, <1>7

--------------------------------------------------------------------------------
(* Findings are well typed.                                                *)

LEMMA TrustFloorType == ASSUME NEW e \in CheckEntry PROVE TrustFloor(e) \in 0..2
BY DEF CheckEntry, Verdict, Enforced, Grade, TrustFloor, BindingRank, GradeRank

LEMMA FindingType ==
  ASSUME NEW e \in CheckEntry, NEW r \in Reexecutions, NEW p \in Proofs,
         NEW t \in BOOLEAN
  PROVE  EntryFinding(e, r, p, t) \in Finding
<1>1. IsOk(e.verdict.result) \in BOOLEAN
  BY DEF IsOk
<1> QED
  BY <1>1, TrustFloorType DEF EntryFinding, Finding, CheckEntry, Verdict

LEMMA FailFindingType == ASSUME NEW e \in CheckEntry PROVE FailFinding(e) \in Finding
BY FindingType DEF FailFinding, Reexecutions, Proofs

(***************************************************************************)
(* A seal refused by the profile ends with untrusted findings only.        *)
(***************************************************************************)
LEMMA ProfileInv == ASSUME Inv, CheckProfile PROVE Inv'
<1> USE DEF Inv
<1>1. /\ seal' = seal /\ opts' = opts /\ started' = started /\ served' = served
      /\ live' = live /\ files' = files /\ clock' = clock
      /\ subject_ok' = subject_ok /\ signature_ok' = signature_ok
      /\ freshness_ok' = freshness_ok /\ idx' = idx /\ trusted' = trusted
      /\ reexec' = reexec /\ proof' = proof /\ calls' = calls
      /\ pc = "profile" /\ pc' \in {"e1", "done"} /\ pc \in After /\ pc' \in After
      /\ idx = 1 /\ findings = <<>>
  BY DEF CheckProfile, world, args, flags, locals, Goto, LoopInv, Before, After, Loop
<1>2. seal \in Seals
  BY DEF TypeOK
<1>3. \/ pc' = "e1" /\ findings' = findings
      \/ /\ pc' = "done"
         /\ findings' = [k \in DOMAIN seal.checks |-> FailFinding(seal.checks[k])]
  BY DEF CheckProfile, Goto
<1>4. /\ findings' \in Seq(Finding) /\ Len(findings') <= Len(seal.checks)
      /\ \A k \in DOMAIN findings' : ~findings'[k].trusted
  <2>1. CASE pc' = "done"
    <3>1. \A k \in 1..Len(seal.checks) : FailFinding(seal.checks[k]) \in Finding
      BY <1>2, SealFacts, FailFindingType
    <3>2. findings' = [k \in 1..Len(seal.checks) |-> FailFinding(seal.checks[k])]
      BY <1>2, <1>3, <2>1, SealFacts
    <3>3. \A k \in DOMAIN findings' : ~findings'[k].trusted
      BY <3>2 DEF FailFinding, EntryFinding
    <3>4. findings' \in [1..Len(seal.checks) -> Finding]
      BY <3>1, <3>2
    <3>5. findings' \in Seq(Finding) /\ Len(findings') = Len(seal.checks)
      BY <1>2, <3>4, SealFacts
    <3> QED
      BY <1>2, <3>3, <3>5, SealFacts
  <2>2. CASE pc' = "e1"
    BY <1>1, <1>2, <1>3, <2>2, SealFacts
  <2> QED
    BY <1>1, <2>1, <2>2
<1>5. TypeOK'
  BY <1>1, <1>4 DEF TypeOK, Steps
<1>6. HistoryInv' /\ FlagsInv' /\ CallsInv'
  BY <1>1 DEF HistoryInv, FlagsInv, CallsInv, SubjectServed, SignatureValid,
     FreshAtStart, FreshAt, AllowExternal
<1>7. LoopInv'
  BY <1>1, <1>2, <1>3, <1>4, SealFacts DEF LoopInv, Before, Loop
<1>8. LocalsInv' /\ TrustedEnforcedIsBacked'
  BY <1>1, <1>4 DEF LocalsInv, TrustedEnforcedIsBacked
<1> QED
  BY <1>5, <1>6, <1>7, <1>8

--------------------------------------------------------------------------------
(* The loop.                                                               *)

(***************************************************************************)
(* What no step of the loop touches, and what therefore stays true.        *)
(***************************************************************************)
Steady ==
    /\ UNCHANGED <<world, args, flags>>
    /\ pc \in Loop /\ pc' \in Loop \cup {"done"}
    /\ calls \subseteq calls' /\ calls' \subseteq Call
    /\ pc' = "gate" \/ calls' # calls => AllowExternal

LEMMA SteadyInv ==
  ASSUME Inv, Steady
  PROVE  /\ HistoryInv' /\ FlagsInv' /\ CallsInv'
         /\ \A k : GateConfirmed(k) => GateConfirmed(k)'
         /\ \A k : ProofRead(k) => ProofRead(k)'
<1> USE DEF Inv
<1>1. /\ seal' = seal /\ opts' = opts /\ started' = started /\ served' = served
      /\ live' = live /\ files' = files /\ clock' = clock
      /\ subject_ok' = subject_ok /\ signature_ok' = signature_ok
      /\ freshness_ok' = freshness_ok
      /\ pc \in After /\ pc' \in After /\ pc' # "signature"
  BY DEF Steady, world, args, flags, After, Loop
<1>2. HistoryInv' /\ FlagsInv'
  BY <1>1 DEF HistoryInv, FlagsInv, SubjectServed, SignatureValid, FreshAtStart,
     FreshAt
<1>3. CallsInv'
  BY <1>1 DEF CallsInv, FlagsInv, AllowExternal, Steady, FreshAtStart, FreshAt
<1>4. \A k : GateConfirmed(k) => GateConfirmed(k)'
  BY DEF Steady, GateConfirmed
<1>5. \A k : ProofRead(k) => ProofRead(k)'
  BY <1>1 DEF Steady, ProofRead
<1> QED
  BY <1>2, <1>3, <1>4, <1>5

LEMMA EntryFacts ==
  ASSUME Inv, pc \in Loop
  PROVE  /\ idx \in 1..Len(seal.checks) /\ idx \in DOMAIN seal.checks
         /\ Entry \in CheckEntry /\ Entry = seal.checks[idx]
         /\ Len(findings) = idx - 1
<1>1. seal \in Seals /\ idx \in DOMAIN seal.checks /\ Len(findings) = idx - 1
  BY DEF Inv, TypeOK, LoopInv
<1> QED
  BY <1>1, SealFacts DEF Entry

(***************************************************************************)
(* Steps that leave the findings alone: the locals must still stand for    *)
(* what they stood for.                                                    *)
(***************************************************************************)
LEMMA SameFindingsInv ==
  ASSUME Inv, Steady, UNCHANGED <<idx, findings>>, pc' \in Loop,
         trusted' \in BOOLEAN, reexec' \in Reexecutions, proof' \in Proofs,
         LocalsInv'
  PROVE  Inv'
<1> USE DEF Inv
<1>1. seal' = seal /\ opts' = opts
  BY DEF Steady, args
<1>2. TypeOK'
  BY <1>1 DEF TypeOK, Steady, world, args, flags, Loop, Steps
<1>3. LoopInv'
  BY <1>1 DEF LoopInv, Steady, Before, Loop
<1>4. TrustedEnforcedIsBacked'
  BY <1>1, SteadyInv DEF TrustedEnforcedIsBacked
<1> QED
  BY <1>2, <1>3, <1>4, SteadyInv

LEMMA BeginEntryInv == ASSUME Inv, BeginEntry PROVE Inv'
<1>1. Steady
  BY DEF Inv, TypeOK, BeginEntry, Steady, Goto, Loop
<1>2. LocalsInv'
  BY DEF BeginEntry, LocalsInv, Goto
<1> QED
  BY <1>1, <1>2, SameFindingsInv
  DEF BeginEntry, Goto, Loop, Reexecutions, Proofs

LEMMA WithholdReexecInv == ASSUME Inv, WithholdReexec PROVE Inv'
<1>1. Steady
  BY DEF Inv, TypeOK, WithholdReexec, Steady, Goto, Loop
<1>2. LocalsInv'
  BY DEF WithholdReexec, LocalsInv
<1> QED
  BY <1>1, <1>2, SameFindingsInv
  DEF Inv, TypeOK, WithholdReexec, Goto, Loop, Reexecutions

LEMMA SkipReexecInv == ASSUME Inv, SkipReexec PROVE Inv'
<1>1. Steady
  BY DEF Inv, TypeOK, SkipReexec, Steady, Goto, Loop
<1>2. Entry' = Entry
  BY DEF SkipReexec, args, Entry
<1>3. LocalsInv'
  BY <1>2 DEF SkipReexec, LocalsInv, Goto, NeedsRerun, IsEnforced
<1> QED
  BY <1>1, <1>3, SameFindingsInv
  DEF Inv, TypeOK, SkipReexec, Goto, Loop, Reexecutions

LEMMA StartGateInv == ASSUME Inv, StartGate PROVE Inv'
<1>1. Steady
  BY DEF Inv, TypeOK, StartGate, Steady, Goto, Loop
<1>2. LocalsInv'
  BY DEF StartGate, LocalsInv, Goto
<1> QED
  BY <1>1, <1>2, SameFindingsInv
  DEF Inv, TypeOK, StartGate, Goto, Loop, locals

LEMMA WithholdProofInv == ASSUME Inv, WithholdProof PROVE Inv'
<1>1. Steady
  BY DEF Inv, TypeOK, WithholdProof, Steady, Goto, Loop
<1>2. LocalsInv'
  BY DEF WithholdProof, LocalsInv
<1> QED
  BY <1>1, <1>2, SameFindingsInv
  DEF Inv, TypeOK, WithholdProof, Goto, Loop, Proofs

LEMMA NoProofInv == ASSUME Inv, NoProof PROVE Inv'
<1>1. Steady
  BY DEF Inv, TypeOK, NoProof, Steady, Goto, Loop
<1>2. Entry' = Entry
  BY DEF NoProof, args, Entry
<1>3. LocalsInv'
  BY <1>2 DEF NoProof, LocalsInv, NeedsRerun, IsEnforced
<1> QED
  BY <1>1, <1>3, SameFindingsInv
  DEF Inv, TypeOK, NoProof, Goto, Loop, Proofs

(***************************************************************************)
(* A gate's answer makes `trusted' stand for a confirmed call.             *)
(***************************************************************************)
LEMMA GateInv ==
  ASSUME Inv, pc = "gate", NEW confirmed \in BOOLEAN, GateReturns(confirmed)
  PROVE  Inv'
<1> DEFINE call == [of |-> "gate", check |-> idx, answer |-> confirmed]
<1>1. idx \in Nat
  BY SealFacts DEF Inv, TypeOK
<1>2. call \in Call
  BY <1>1 DEF Call
<1>3. Steady
  BY <1>2 DEF Inv, TypeOK, CallsInv, GateReturns, Steady, Goto, Loop
<1>4. trusted' => GateConfirmed(idx)'
  <2>1. trusted' => confirmed
    BY DEF GateReturns
  <2>2. call \in calls' /\ idx' = idx
    BY DEF GateReturns
  <2> QED
    BY <2>1, <2>2 DEF GateConfirmed
<1>5. LocalsInv'
  BY <1>4 DEF LocalsInv, GateReturns, Goto
<1>6. trusted' \in BOOLEAN /\ reexec' \in Reexecutions
  BY DEF GateReturns, Reexecutions
<1> QED
  BY <1>3, <1>5, <1>6, SameFindingsInv DEF Inv, TypeOK, GateReturns, Goto, Loop

(***************************************************************************)
(* A resolved proof is one this session read, and read whole: the bytes    *)
(* that were hashed are the bytes that were parsed.                        *)
(***************************************************************************)
LEMMA ResolvesIsProof ==
  ASSUME NEW e, NEW raw, Resolves(e, raw)
  PROVE  /\ raw # Unreadable
         /\ Sha256(raw) = e.verdict.enforced_proof.sha256
         /\ ReportOf(raw).config_sha256 = e.check.config_ref
         /\ ReportOf(raw).enforced > 0 /\ ReportOf(raw).advised = 0
         /\ ReportOf(raw).ees >= 50
BY DEF Resolves, StronglyBound, Enforces, EesFloor

LEMMA ResolveProofInv == ASSUME Inv, ResolveProof PROVE Inv'
<1> DEFINE raw  == files[Proof.uri]
           call == [of |-> "loader", check |-> idx, answer |-> raw]
<1>1. idx \in Nat /\ Entry \in CheckEntry
  BY SealFacts, EntryFacts DEF Inv, TypeOK, ResolveProof, Loop
<1>2. Proof \in EnforcedProof
  BY <1>1 DEF ResolveProof, Proof, CheckEntry, Verdict
<1>3. raw \in Content \cup {Unreadable}
  BY <1>2, ConstantsAssumption DEF Inv, TypeOK, EnforcedProof
<1>4. call \in Call
  BY <1>1, <1>3 DEF Call
<1>5. Steady
  BY <1>4 DEF Inv, TypeOK, ResolveProof, Steady, Goto, Loop
<1>6. Entry' = Entry /\ idx' = idx /\ seal' = seal /\ Entry = seal.checks[idx]
  BY DEF ResolveProof, args, Entry
<1>7. trusted' => trusted /\ Resolves(Entry, raw)
  BY DEF ResolveProof
<1>8. call \in calls'
  BY DEF ResolveProof
<1>9. Resolves(Entry, raw) => ProofRead(idx)'
  <2> SUFFICES ASSUME Resolves(Entry, raw) PROVE ProofRead(idx)'
    OBVIOUS
  <2>1. /\ call.of = "loader" /\ call.check = idx /\ call.answer = raw
    OBVIOUS
  <2> HIDE DEF call, raw
  <2> QED
    BY <1>6, <1>8, <2>1, ResolvesIsProof DEF ProofRead
<1>10. trusted' /\ NeedsRerun(Entry) => GateConfirmed(idx)'
  BY <1>5, <1>7, SteadyInv, <1>6 DEF Inv, LocalsInv, ResolveProof, GateConfirmed
<1>11. LocalsInv'
  BY <1>6, <1>7, <1>9, <1>10 DEF LocalsInv, ResolveProof, Goto
<1>12. trusted' \in BOOLEAN /\ proof' \in Proofs
  BY DEF ResolveProof, Proofs
<1> QED
  BY <1>5, <1>11, <1>12, SameFindingsInv
  DEF Inv, TypeOK, ResolveProof, Goto, Loop

(***************************************************************************)
(* A proof that the parser chokes on ends the session; nothing but the     *)
(* call is added.                                                          *)
(***************************************************************************)
LEMMA AbortOnProofInv == ASSUME Inv, AbortOnProof PROVE Inv'
<1> USE DEF Inv
<1>1. /\ seal' = seal /\ opts' = opts /\ started' = started /\ served' = served
      /\ live' = live /\ files' = files /\ clock' = clock
      /\ subject_ok' = subject_ok /\ signature_ok' = signature_ok
      /\ freshness_ok' = freshness_ok /\ idx' = idx /\ trusted' = trusted
      /\ reexec' = reexec /\ proof' = proof /\ findings' = findings
      /\ pc = "proof" /\ pc' = "raised" /\ AllowExternal /\ Proof # None
  BY DEF AbortOnProof, world, args, flags, locals, Goto
<1>2. PICK raw : /\ raw = files[Proof.uri]
                 /\ calls' = calls \cup {[of |-> "loader", check |-> idx, answer |-> raw]}
  BY DEF AbortOnProof
<1>3. idx \in Nat /\ Entry \in CheckEntry
  BY <1>1, EntryFacts, SealFacts DEF TypeOK, Loop
<1>4. raw \in Content \cup {Unreadable}
  BY <1>1, <1>2, <1>3, ConstantsAssumption
  DEF Proof, CheckEntry, Verdict, EnforcedProof, TypeOK
<1>5. calls \subseteq calls' /\ calls' \subseteq Call
  BY <1>2, <1>3, <1>4 DEF TypeOK, Call
<1>6. TypeOK' /\ HistoryInv'
  BY <1>1, <1>5 DEF TypeOK, HistoryInv, Steps
<1>7. FreshAtStart /\ SubjectServed /\ SignatureValid
  BY <1>1 DEF FlagsInv, AllowExternal, After, Loop
<1>8. FlagsInv' /\ CallsInv'
  BY <1>1, <1>7 DEF FlagsInv, CallsInv, SubjectServed, SignatureValid, FreshAtStart,
     FreshAt, AllowExternal, After, Loop
<1>9. LoopInv' /\ LocalsInv'
  BY <1>1 DEF LoopInv, LocalsInv, Before, Loop
<1>10. TrustedEnforcedIsBacked'
  BY <1>1, <1>5 DEF TrustedEnforcedIsBacked, GateConfirmed, ProofRead
<1> QED
  BY <1>6, <1>8, <1>9, <1>10

(***************************************************************************)
(* A finding is recorded: it must be backed, the ones before it still are. *)
(***************************************************************************)
LEMMA RecordInv ==
  ASSUME Inv, Steady, NEW f \in Finding, Record(f), UNCHANGED <<locals, calls>>,
         f.trusted /\ IsEnforced(Entry) =>
            ProofRead(idx) /\ (Entry.grade = "A" => GateConfirmed(idx))
  PROVE  Inv'
<1> USE DEF Inv
<1>1. seal' = seal /\ opts' = opts /\ calls' = calls /\ trusted' = trusted
      /\ reexec' = reexec /\ proof' = proof
  BY DEF Steady, args, locals
<1>2. /\ seal \in Seals /\ findings \in Seq(Finding)
      /\ findings' = Append(findings, f) /\ idx' = idx + 1
      /\ pc' = IF idx = Len(seal.checks) THEN "done" ELSE "e1"
  BY DEF TypeOK, Record, Goto
<1>3. /\ idx \in 1..Len(seal.checks) /\ Len(findings) = idx - 1
      /\ Entry = seal.checks[idx]
  BY EntryFacts DEF Steady
<1>4. /\ findings' \in Seq(Finding) /\ Len(findings') = idx
      /\ DOMAIN findings' = 1..idx /\ DOMAIN findings = 1..(idx - 1)
      /\ findings'[idx] = f
      /\ \A k \in DOMAIN findings : findings'[k] = findings[k]
  BY <1>2, <1>3, SealFacts
<1>5. TypeOK'
  BY <1>1, <1>2, <1>3, <1>4, SealFacts DEF TypeOK, Steady, world, args, flags, Steps
<1>6. LoopInv'
  BY <1>1, <1>2, <1>3, <1>4, SealFacts DEF LoopInv, Before, Loop
<1>7. LocalsInv'
  BY <1>2 DEF LocalsInv
<1>8. TrustedEnforcedIsBacked'
  <2> SUFFICES ASSUME NEW k \in 1..idx, findings'[k].trusted,
                      IsEnforced(seal.checks[k])
               PROVE  /\ ProofRead(k)'
                      /\ seal.checks[k].grade = "A" => GateConfirmed(k)'
    BY <1>1, <1>4 DEF TrustedEnforcedIsBacked
  <2>1. CASE k = idx
    BY <2>1, <1>3, <1>4, SteadyInv
  <2>2. CASE k # idx
    <3>1. k \in DOMAIN findings
      BY <1>3, <1>4, <2>2, SealFacts, <1>2
    <3> QED
      BY <3>1, <1>4, SteadyInv DEF TrustedEnforcedIsBacked
  <2> QED
    BY <2>1, <2>2
<1> QED
  BY <1>5, <1>6, <1>7, <1>8, SteadyInv

LEMMA RejectEntryInv == ASSUME Inv, RejectEntry PROVE Inv'
<1>1. Steady
  BY DEF Inv, TypeOK, RejectEntry, Record, Steady, Goto, Loop
<1>2. FailFinding(Entry) \in Finding /\ ~FailFinding(Entry).trusted
  BY EntryFacts, FailFindingType
  DEF RejectEntry, Loop, FailFinding, EntryFinding
<1> QED
  BY <1>1, <1>2, RecordInv DEF RejectEntry

LEMMA RecordEntryInv == ASSUME Inv, RecordEntry PROVE Inv'
<1> DEFINE t == trusted /\ AuthorityHolds(Entry)
           f == EntryFinding(Entry, reexec, proof, t)
<1>1. Steady
  BY DEF Inv, TypeOK, RecordEntry, Record, Steady, Goto, Loop
<1>2. f \in Finding
  BY EntryFacts, FindingType DEF RecordEntry, Loop, Inv, TypeOK, AuthorityHolds
<1>3. f.trusted => trusted
  BY DEF EntryFinding
<1>4. trusted /\ IsEnforced(Entry) =>
          ProofRead(idx) /\ (Entry.grade = "A" => GateConfirmed(idx))
  BY DEF RecordEntry, Inv, LocalsInv, NeedsRerun
<1> HIDE DEF f
<1>5. Record(f) /\ UNCHANGED <<locals, calls>>
  BY DEF RecordEntry, f
<1> QED
  BY <1>1, <1>2, <1>3, <1>4, <1>5, RecordInv

--------------------------------------------------------------------------------
(* Every step preserves the invariant.                                     *)

LEMMA NextInv == ASSUME Inv, [Next]_vars PROVE Inv'
<1>1. CASE UNCHANGED vars
  BY <1>1 DEF vars, world, args, flags, locals, Inv, TypeOK, HistoryInv,
     FlagsInv, CallsInv, LoopInv, LocalsInv, TrustedEnforcedIsBacked,
     SubjectServed, SignatureValid, FreshAtStart, FreshAt, AllowExternal, Entry,
     GateConfirmed, ProofRead
<1>2. CASE Environment
  BY <1>2, EnvironmentInv
<1>3. CASE GateExits \/ GateTimesOut
  BY <1>3, GateInv DEF GateExits, GateTimesOut
<1>4. CASE SessionStep /\ ~GateTimesOut
  BY <1>4, PreambleInv, ProfileInv, BeginEntryInv, RejectEntryInv,
     WithholdReexecInv, SkipReexecInv, StartGateInv, WithholdProofInv,
     ResolveProofInv, AbortOnProofInv, NoProofInv, RecordEntryInv
  DEF SessionStep
<1> QED
  BY <1>1, <1>2, <1>3, <1>4 DEF Next

(* What verify.py's flags, counters and locals say at each point of a      *)
(* session was earned by what the session has read so far.                 *)
THEOREM InvIsInvariant == Spec => []Inv
BY InitInv, NextInv, PTL DEF Spec

(* The state of a session is always well typed.                            *)
THEOREM TypeCorrect == Spec => []TypeOK
<1>1. Inv => TypeOK
  BY DEF Inv
<1> QED
  BY <1>1, InvIsInvariant, PTL

(* Gates and the loader are called only on behalf of a seal that is signed,*)
(* fresh and about bytes the subject file held during the session.         *)
(* (verify.py: allow_external.)                                            *)
THEOREM CallsOnlyWhenBound == Spec => []ExternalCallsOnlyWhenBound
<1>1. Inv => ExternalCallsOnlyWhenBound
  BY DEF Inv, CallsInv, FlagsInv, AllowExternal, ExternalCallsOnlyWhenBound
<1> QED
  BY <1>1, InvIsInvariant, PTL

(* An authentic report speaks of bytes the subject file held during the    *)
(* session, signed and within the age asked for.                           *)
(* (verify.py: VerificationReport.authentic.)                              *)
THEOREM AuthenticSpeaksOfThePresent == Spec => []AuthenticIsCurrent
<1>1. Inv => AuthenticIsCurrent
  BY DEF Inv, FlagsInv, After, Authentic, AuthenticIsCurrent
<1> QED
  BY <1>1, InvIsInvariant, PTL

(* No trusted enforced finding without a pinned report on that very        *)
(* configuration, and for grade A a gate run and confirmed for it.         *)
(* (verify.py steps 3 and 4, hbresolve.py.)                                *)
THEOREM NoOverclaim == Spec => []TrustedEnforcedIsBacked
<1>1. Inv => TrustedEnforcedIsBacked
  BY DEF Inv
<1> QED
  BY <1>1, InvIsInvariant, PTL

--------------------------------------------------------------------------------
(* What each finding tells of the answers given about its check.           *)

Heard(of, k) == {c.answer : c \in {d \in calls : d.of = of /\ d.check = k}}

GateAnswer(reexecution) == CASE reexecution = "confirmed" -> {TRUE}
                             [] reexecution = "FAILED"    -> {FALSE}
                             [] OTHER                     -> {}

LoaderAnswers(k, enforced_proof) ==
    \/ enforced_proof # "resolved" /\ Heard("loader", k) = {}
    \/ \E raw \in Content \cup {Unreadable} :
          /\ Heard("loader", k) = {raw}
          /\ enforced_proof = "resolved" <=> Resolves(seal.checks[k], raw)

Tells(k, reexecution, enforced_proof) ==
    /\ Heard("gate", k) = GateAnswer(reexecution)
    /\ LoaderAnswers(k, enforced_proof)

(* Gate and loader were asked at most once about each check, and the       *)
(* finding tells what they answered: no answer of another check, no        *)
(* earlier one, and no verdict without one.                                *)
(* (verify.py: _verify_entries, steps 3 and 4.)                            *)
FindingsTellTheAnswers ==
    \A k \in DOMAIN findings :
        Tells(k, findings[k].reexecution, findings[k].enforced_proof)

AnswersInv ==
    /\ FindingsTellTheAnswers
    /\ pc \in Before => calls = {}
    /\ pc \in Loop => \A c \in calls : c.check <= idx
    /\ pc \in Loop \ {"proof", "authority"} => Heard("gate", idx) = {}
    /\ pc \in Loop \ {"authority"} => Heard("loader", idx) = {}
    /\ pc \in {"proof", "authority"} => Heard("gate", idx) = GateAnswer(reexec)
    /\ pc = "authority" => LoaderAnswers(idx, proof)

LEMMA InitAnswers == Init => AnswersInv
BY DEF Init, AnswersInv, FindingsTellTheAnswers, Loop

(* A step that asks nobody keeps what the findings tell.                   *)
LEMMA NobodyAsked ==
  ASSUME UNCHANGED <<calls, args>>
  PROVE  /\ \A of, k : Heard(of, k)' = Heard(of, k)
         /\ \A k, p : LoaderAnswers(k, p)' <=> LoaderAnswers(k, p)
         /\ \A k, r, p : Tells(k, r, p)' <=> Tells(k, r, p)
<1>1. seal' = seal /\ calls' = calls
  BY DEF args
<1>2. \A of, k : Heard(of, k)' = Heard(of, k)
  BY <1>1 DEF Heard
<1>3. \A k, p : LoaderAnswers(k, p)' <=> LoaderAnswers(k, p)
  BY <1>1, <1>2 DEF LoaderAnswers
<1> QED
  BY <1>2, <1>3 DEF Tells

(* An answer about the current check is none about the others.             *)
LEMMA OneAsked ==
  ASSUME NEW of, NEW answer, idx \in Nat, UNCHANGED <<args, idx>>,
         calls' = calls \cup {[of |-> of, check |-> idx, answer |-> answer]}
  PROVE  /\ Heard(of, idx)' = Heard(of, idx) \cup {answer}
         /\ \A other, k : other # of \/ k # idx => Heard(other, k)' = Heard(other, k)
         /\ \A k, r, p : k # idx => (Tells(k, r, p)' <=> Tells(k, r, p))
<1> PICK i : i = idx
  OBVIOUS
<1>1. calls' = calls \cup {[of |-> of, check |-> i, answer |-> answer]} /\ seal' = seal
  BY DEF args
<1>2. Heard(of, i)' = Heard(of, i) \cup {answer}
  <2> PICK new : new = [of |-> of, check |-> i, answer |-> answer]
    OBVIOUS
  <2>1. new.of = of /\ new.check = i /\ new.answer = answer
    OBVIOUS
  <2>2. \A c : c \in calls' <=> c \in calls \/ c = new
    BY <1>1
  <2>3. \A x : x \in Heard(of, i)' <=> x \in Heard(of, i) \/ x = answer
    BY <2>1, <2>2 DEF Heard
  <2> QED
    BY <2>3
<1>3. \A other, k : other # of \/ k # i => Heard(other, k)' = Heard(other, k)
  BY <1>1 DEF Heard
<1>4. \A k, r, p : k # i => (Tells(k, r, p)' <=> Tells(k, r, p))
  BY <1>1, <1>3 DEF Tells, LoaderAnswers
<1>5. Heard(of, idx)' = Heard(of, i)'
  BY DEF Heard
<1> QED
  BY <1>2, <1>3, <1>4, <1>5

(* Nothing was asked about a check that the loop has not reached.          *)
LEMMA NothingHeard ==
  ASSUME NEW of, NEW k, \A c \in calls : c.check # k
  PROVE  Heard(of, k) = {}
BY DEF Heard

LEMMA NotAskedAnswers ==
  ASSUME Inv, AnswersInv,
         \/ BeginEntry \/ WithholdReexec \/ SkipReexec \/ StartGate
         \/ WithholdProof \/ NoProof
  PROVE  AnswersInv'
<1>1. /\ UNCHANGED <<args, idx, findings, calls>>
      /\ pc \in Loop /\ pc' \in Loop /\ pc' \notin Before
  BY DEF BeginEntry, WithholdReexec, SkipReexec, StartGate, WithholdProof, NoProof,
     Goto, Loop, Before
<1>2. FindingsTellTheAnswers'
  BY <1>1, NobodyAsked DEF AnswersInv, FindingsTellTheAnswers
<1>3. /\ \A of : Heard(of, idx)' = Heard(of, idx)
      /\ \A p : LoaderAnswers(idx, p)' <=> LoaderAnswers(idx, p)
  <2> PICK i : i = idx
    OBVIOUS
  <2>1. idx' = i
    BY <1>1
  <2>2. /\ \A of : Heard(of, i)' = Heard(of, i)
        /\ \A p : LoaderAnswers(i, p)' <=> LoaderAnswers(i, p)
    BY <1>1, NobodyAsked
  <2>3. /\ \A of : Heard(of, idx)' = Heard(of, i)'
        /\ \A p : LoaderAnswers(idx, p)' <=> LoaderAnswers(i, p)'
    BY <2>1 DEF Heard, LoaderAnswers
  <2> QED
    BY <2>2, <2>3
<1>4. (pc \in {"proof", "authority"} => Heard("gate", idx) = GateAnswer(reexec))'
  BY <1>1, <1>3 DEF AnswersInv, BeginEntry, WithholdReexec, SkipReexec, StartGate,
     WithholdProof, NoProof, Goto, Loop, GateAnswer
<1>5. (pc = "authority" => LoaderAnswers(idx, proof))'
  <2>1. CASE WithholdProof \/ NoProof
    <3>1. Heard("loader", idx)' = {} /\ proof' # "resolved"
      BY <1>3, <2>1 DEF AnswersInv, WithholdProof, NoProof, Loop
    <3> QED
      BY <3>1 DEF LoaderAnswers
  <2>2. CASE ~WithholdProof /\ ~NoProof
    BY <2>2 DEF BeginEntry, WithholdReexec, SkipReexec, StartGate, Goto
  <2> QED
    BY <2>1, <2>2
<1>6. /\ (pc \in Loop \ {"proof", "authority"} => Heard("gate", idx) = {})'
      /\ (pc \in Loop \ {"authority"} => Heard("loader", idx) = {})'
  BY <1>3 DEF AnswersInv, BeginEntry, WithholdReexec, SkipReexec, StartGate,
     WithholdProof, NoProof, Goto, Loop
<1>7. (pc \in Loop => \A c \in calls : c.check <= idx)'
  BY <1>1 DEF AnswersInv
<1> QED
  BY <1>1, <1>2, <1>4, <1>5, <1>6, <1>7 DEF AnswersInv

LEMMA AskedAnswers ==
  ASSUME Inv, AnswersInv,
         \/ ResolveProof \/ AbortOnProof
         \/ \E confirmed \in BOOLEAN : pc = "gate" /\ GateReturns(confirmed)
  PROVE  AnswersInv'
<1>1. /\ UNCHANGED <<args, idx, findings>> /\ pc \in Loop
      /\ pc' \in Loop \cup {"raised"} /\ pc' \notin Before
  BY DEF ResolveProof, AbortOnProof, GateReturns, Goto, Loop, Before
<1>2. idx \in Nat /\ Entry \in CheckEntry /\ Entry = seal.checks[idx]
      /\ Len(findings) = idx - 1 /\ findings \in Seq(Finding)
  BY <1>1, EntryFacts, SealFacts DEF Inv, TypeOK
<1>3. DOMAIN findings = 1..(idx - 1)
  BY <1>2
<1>4. ASSUME NEW of, NEW answer,
             calls' = calls \cup {[of |-> of, check |-> idx, answer |-> answer]}
      PROVE  /\ FindingsTellTheAnswers'
             /\ (\A c \in calls : c.check <= idx)'
             /\ Heard(of, idx)' = Heard(of, idx) \cup {answer}
             /\ \A other : other # of => Heard(other, idx)' = Heard(other, idx)
  <2>1. FindingsTellTheAnswers'
    <3>1. \A k \in DOMAIN findings : k # idx
      BY <1>2, <1>3
    <3>2. \A k \in DOMAIN findings :
             Tells(k, findings[k].reexecution, findings[k].enforced_proof)'
      BY <1>1, <1>2, <1>4, <3>1, OneAsked DEF AnswersInv, FindingsTellTheAnswers
    <3> QED
      BY <1>1, <3>2 DEF FindingsTellTheAnswers
  <2>2. (\A c \in calls : c.check <= idx)'
    BY <1>1, <1>2, <1>4 DEF AnswersInv
  <2>3. Heard(of, idx)' = Heard(of, idx) \cup {answer}
    BY <1>1, <1>2, <1>4, OneAsked
  <2>4. \A other : other # of => Heard(other, idx)' = Heard(other, idx)
    <3>1. \A other, k : other # of \/ k # idx => Heard(other, k)' = Heard(other, k)
      BY <1>1, <1>2, <1>4, OneAsked
    <3> PICK i : i = idx
      OBVIOUS
    <3>2. \A other : other # of => Heard(other, i)' = Heard(other, i)
      BY <3>1
    <3>3. \A other : Heard(other, idx)' = Heard(other, i)'
      BY <1>1 DEF Heard
    <3> QED
      BY <3>2, <3>3
  <2> QED
    BY <2>1, <2>2, <2>3, <2>4
<1>5. CASE ResolveProof
  <2> PICK raw : raw = files[Proof.uri]
    OBVIOUS
  <2>1. /\ calls' = calls \cup {[of |-> "loader", check |-> idx, answer |-> raw]}
        /\ proof' = IF Resolves(Entry, raw) THEN "resolved" ELSE "unproven"
        /\ pc = "proof" /\ pc' = "authority" /\ reexec' = reexec
        /\ Proof # None
    BY <1>5 DEF ResolveProof, Goto
  <2>2. Proof \in EnforcedProof
    BY <1>2, <2>1 DEF Proof, CheckEntry, Verdict
  <2>3. raw \in Content \cup {Unreadable}
    BY <2>2, ConstantsAssumption DEF Inv, TypeOK, EnforcedProof
  <2>4. Heard("loader", idx) = {} /\ Heard("gate", idx) = GateAnswer(reexec)
    BY <2>1 DEF AnswersInv, Loop
  <2>5. /\ Heard("loader", idx)' = {raw}
        /\ Heard("gate", idx)' = GateAnswer(reexec')
    BY <1>4, <2>1, <2>4
  <2>6. LoaderAnswers(idx, proof)'
    <3>1. proof' = "resolved" <=> Resolves(Entry, raw)
      BY <2>1
    <3>2. Entry = seal'.checks[idx']
      BY <1>1, <1>2 DEF args
    <3> QED
      BY <2>3, <2>5, <3>1, <3>2 DEF LoaderAnswers
  <2> QED
    BY <1>1, <1>4, <2>1, <2>5, <2>6 DEF AnswersInv, Loop, GateAnswer
<1>6. CASE \E confirmed \in BOOLEAN : pc = "gate" /\ GateReturns(confirmed)
  <2> PICK confirmed \in BOOLEAN : pc = "gate" /\ GateReturns(confirmed)
    BY <1>6
  <2>1. /\ calls' = calls \cup {[of |-> "gate", check |-> idx, answer |-> confirmed]}
        /\ reexec' = IF confirmed THEN "confirmed" ELSE "FAILED"
        /\ pc' = "proof"
    BY DEF GateReturns, Goto
  <2>2. Heard("loader", idx) = {} /\ Heard("gate", idx) = {}
    BY DEF AnswersInv, Loop
  <2>3. Heard("gate", idx)' = {confirmed} /\ Heard("loader", idx)' = {}
    BY <1>4, <2>1, <2>2
  <2>4. {confirmed} = GateAnswer(reexec')
    BY <2>1 DEF GateAnswer
  <2> QED
    BY <1>1, <1>4, <2>1, <2>3, <2>4 DEF AnswersInv, Loop, GateAnswer
<1>7. CASE AbortOnProof
  <2>1. PICK raw :
           calls' = calls \cup {[of |-> "loader", check |-> idx, answer |-> raw]}
    BY <1>7 DEF AbortOnProof
  <2>2. pc' = "raised"
    BY <1>7 DEF AbortOnProof, Goto
  <2> QED
    BY <1>1, <1>4, <2>1, <2>2 DEF AnswersInv, Loop
<1> QED
  BY <1>5, <1>6, <1>7

LEMMA RecordAnswers ==
  ASSUME Inv, AnswersInv, RejectEntry \/ RecordEntry
  PROVE  AnswersInv'
<1>1. UNCHANGED <<args, calls>> /\ pc \in Loop
  BY DEF RejectEntry, RecordEntry, Loop
<1>2. /\ idx \in Nat /\ findings \in Seq(Finding) /\ Len(findings) = idx - 1
      /\ \A c \in calls : c.check \in Nat /\ c.check <= idx
  BY <1>1, EntryFacts, SealFacts DEF Inv, TypeOK, Call, AnswersInv
<1>3. PICK f : /\ findings' = Append(findings, f) /\ idx' = idx + 1
               /\ pc' \in {"e1", "done"}
               /\ Tells(idx, f.reexecution, f.enforced_proof)
  <2>1. CASE RejectEntry
    <3>1. Heard("gate", idx) = {} /\ Heard("loader", idx) = {}
      BY <2>1 DEF RejectEntry, AnswersInv, Loop
    <3>2. Tells(idx, "not-run", "violated")
      BY <3>1 DEF Tells, LoaderAnswers, GateAnswer
    <3>3. /\ FailFinding(Entry).reexecution = "not-run"
          /\ FailFinding(Entry).enforced_proof = "violated"
      BY DEF FailFinding, EntryFinding
    <3> HIDE DEF Heard, Tells
    <3> QED
      BY <2>1, <3>2, <3>3 DEF RejectEntry, Record, Goto
  <2>2. CASE RecordEntry
    <3> DEFINE f == EntryFinding(Entry, reexec, proof, trusted /\ AuthorityHolds(Entry))
    <3>1. f.reexecution = reexec /\ f.enforced_proof = proof
      BY DEF EntryFinding
    <3>2. Tells(idx, reexec, proof)
      BY <2>2 DEF RecordEntry, AnswersInv, Tells
    <3>3. findings' = Append(findings, f) /\ idx' = idx + 1 /\ pc' \in {"e1", "done"}
      BY <2>2 DEF RecordEntry, Record, Goto
    <3> HIDE DEF f
    <3> QED
      BY <3>1, <3>2, <3>3
  <2> QED
    BY <2>1, <2>2
<1>4. /\ DOMAIN findings' = 1..idx /\ findings'[idx] = f
      /\ \A k \in 1..idx : k # idx => k \in DOMAIN findings /\ findings'[k] = findings[k]
  BY <1>2, <1>3
<1>5. \A k \in 1..idx : Tells(k, findings'[k].reexecution, findings'[k].enforced_proof)
  BY <1>3, <1>4 DEF AnswersInv, FindingsTellTheAnswers
<1>6. FindingsTellTheAnswers'
  BY <1>1, <1>4, <1>5, NobodyAsked DEF FindingsTellTheAnswers
<1>7. (\A of : Heard(of, idx) = {})'
  <2>1. \A c \in calls' : c.check # idx'
    BY <1>1, <1>2, <1>3
  <2> QED
    BY <2>1 DEF Heard
<1>8. (\A c \in calls : c.check <= idx)'
  BY <1>1, <1>2, <1>3
<1> QED
  BY <1>3, <1>6, <1>7, <1>8 DEF AnswersInv, Loop, Before

LEMMA OtherAnswers ==
  ASSUME Inv, AnswersInv, Environment \/ UNCHANGED vars
  PROVE  AnswersInv'
<1>1. /\ UNCHANGED <<args, pc, idx, findings, calls>>
      /\ seal' = seal /\ pc' = pc /\ idx' = idx /\ findings' = findings /\ calls' = calls
      /\ reexec' = reexec /\ proof' = proof
  BY DEF Environment, SubjectRewritten, ProofReplaced, Tick, vars, args, locals
<1> QED
  BY <1>1 DEF AnswersInv, FindingsTellTheAnswers, Tells, LoaderAnswers, Heard

LEMMA PreambleAnswers ==
  ASSUME Inv, AnswersInv,
         \/ LoadEnvelope \/ VerifyBundle \/ ParseStatement \/ CheckSubject
         \/ VerifySignatureLocal \/ CheckFreshness \/ CheckProfile
  PROVE  AnswersInv'
<1>1. /\ UNCHANGED <<args, calls>> /\ pc \in Before /\ pc' \notin Loop \ {"e1"}
      /\ findings' = findings
            \/ findings' = [k \in DOMAIN seal.checks |-> FailFinding(seal.checks[k])]
  BY DEF LoadEnvelope, VerifyBundle, ParseStatement, CheckSubject,
     VerifySignatureLocal, CheckFreshness, CheckProfile, Goto, Loop, Before
<1>2. calls = {} /\ calls' = {} /\ findings = <<>>
  BY <1>1 DEF AnswersInv, Inv, LoopInv
<1>3. (\A of, k : Heard(of, k) = {})'
  BY <1>2 DEF Heard
<1>4. \A k \in DOMAIN findings' : /\ findings'[k].reexecution = "not-run"
                                  /\ findings'[k].enforced_proof = "violated"
  BY <1>1, <1>2 DEF FailFinding, EntryFinding
<1>5. FindingsTellTheAnswers'
  BY <1>3, <1>4 DEF FindingsTellTheAnswers, Tells, GateAnswer, LoaderAnswers
<1>6. (\A of : Heard(of, idx) = {})'
  BY <1>2 DEF Heard
<1> QED
  BY <1>1, <1>2, <1>5, <1>6 DEF AnswersInv, Loop

(* A finding's re-execution and proof are what gate and loader, asked once *)
(* about that check, answered, whatever happens to the files meanwhile.    *)
(* (verify.py: _verify_entries.)                                           *)
THEOREM FindingsRestOnTheirAnswers == Spec => []FindingsTellTheAnswers
<1>1. Inv /\ AnswersInv /\ [Next]_vars => AnswersInv'
  BY NotAskedAnswers, AskedAnswers, RecordAnswers, OtherAnswers, PreambleAnswers
  DEF Next, SessionStep, GateExits, GateTimesOut
<1>2. AnswersInv => FindingsTellTheAnswers
  BY DEF AnswersInv
<1> QED
  BY <1>1, <1>2, InitAnswers, InvIsInvariant, PTL DEF Spec

--------------------------------------------------------------------------------
(* How far a session is from its end.                                      *)

(* The steps that are left of a check's turn, or of what goes before.      *)
Ahead == [load |-> 10, parse |-> 9, subject |-> 8, signature |-> 7, freshness |-> 7,
          profile |-> 6, e1 |-> 5, reexec |-> 4, gate |-> 3, proof |-> 2,
          authority |-> 1]

StepsLeft == IF pc \in {"done", "raised"} THEN 0
             ELSE 5 * (Len(seal.checks) - idx) + Ahead[pc]

LEMMA StepsLeftIsBounded == Inv => StepsLeft \in 0..5 * Len(seal.checks) + 5
<1> SUFFICES ASSUME Inv PROVE StepsLeft \in 0..5 * Len(seal.checks) + 5
  OBVIOUS
<1>1. Len(seal.checks) \in Nat /\ Len(seal.checks) >= 1
      /\ DOMAIN seal.checks = 1..Len(seal.checks)
  BY SealFacts DEF Inv, TypeOK
<1>2. pc \in Steps /\ idx \in Nat
  BY <1>1 DEF Inv, TypeOK
<1>3. CASE pc \in Before
  BY <1>1, <1>3 DEF Inv, LoopInv, Before, StepsLeft, Ahead
<1>4. CASE pc \in Loop
  BY <1>1, <1>4 DEF Inv, LoopInv, Loop, StepsLeft, Ahead
<1>5. CASE pc \in {"done", "raised"}
  BY <1>1, <1>5 DEF StepsLeft
<1> QED
  BY <1>2, <1>3, <1>4, <1>5 DEF Steps, Before, Loop

LEMMA StepsRunOut ==
  ASSUME Inv, SessionStep \/ GateExits
  PROVE  StepsLeft' < StepsLeft
<1> PICK n : n = Len(seal.checks)
  OBVIOUS
<1>1. n \in Nat /\ n >= 1 /\ DOMAIN seal.checks = 1..n
  BY SealFacts DEF Inv, TypeOK
<1>2. CASE \/ LoadEnvelope \/ VerifyBundle \/ ParseStatement \/ CheckSubject
           \/ VerifySignatureLocal \/ CheckFreshness \/ CheckProfile
  <2>1. pc \in Before /\ idx = 1 /\ idx' = 1 /\ seal' = seal
    BY <1>2 DEF LoadEnvelope, VerifyBundle, ParseStatement, CheckSubject,
       VerifySignatureLocal, CheckFreshness, CheckProfile, Before, args, Inv, LoopInv
  <2>2. \/ pc' \in {"done", "raised"}
        \/ pc = "load" /\ pc' = "parse"
        \/ pc = "parse" /\ pc' = "subject"
        \/ pc = "subject" /\ pc' \in {"signature", "freshness"}
        \/ pc \in {"signature", "freshness"} /\ pc' = "profile"
        \/ pc = "profile" /\ pc' = "e1"
    BY <1>2 DEF LoadEnvelope, VerifyBundle, ParseStatement, CheckSubject,
       VerifySignatureLocal, CheckFreshness, CheckProfile, Goto
  <2> QED
    BY <1>1, <2>1, <2>2 DEF StepsLeft, Before, Ahead
<1>3. CASE \/ BeginEntry \/ WithholdReexec \/ SkipReexec \/ StartGate \/ GateTimesOut
           \/ GateExits \/ WithholdProof \/ ResolveProof \/ NoProof
  <2>1. /\ pc \in Loop /\ pc' \in Loop /\ idx' = idx /\ seal' = seal
        /\ Ahead[pc'] < Ahead[pc] /\ idx \in 1..n
    BY <1>1, <1>3 DEF BeginEntry, WithholdReexec, SkipReexec, StartGate, GateTimesOut,
       GateExits, GateReturns, WithholdProof, ResolveProof, NoProof, Goto, Loop, Ahead,
       args, Inv, LoopInv
  <2> QED
    BY <1>1, <2>1 DEF StepsLeft, Loop, Ahead
<1>4. CASE AbortOnProof
  <2>1. pc = "proof" /\ pc' = "raised" /\ idx \in 1..n
    BY <1>1, <1>4 DEF AbortOnProof, Goto, Loop, Inv, LoopInv
  <2>2. StepsLeft' = 0
    BY <2>1 DEF StepsLeft
  <2>3. StepsLeft = 5 * (n - idx) + 2
    BY <2>1 DEF StepsLeft, Ahead
  <2> QED
    BY <1>1, <2>1, <2>2, <2>3
<1>5. CASE RejectEntry \/ RecordEntry
  <2>1. /\ pc \in {"e1", "authority"} /\ idx \in 1..n /\ idx' = idx + 1 /\ seal' = seal
        /\ pc' = IF idx = n THEN "done" ELSE "e1"
    BY <1>1, <1>5 DEF RejectEntry, RecordEntry, Record, Goto, Loop, args, Inv, LoopInv
  <2>2. StepsLeft = 5 * (n - idx) + Ahead[pc] /\ Ahead[pc] >= 1
    BY <2>1 DEF StepsLeft, Ahead
  <2>3. CASE idx = n
    <3>1. StepsLeft' = 0
      BY <2>1, <2>3 DEF StepsLeft
    <3> QED
      BY <1>1, <2>1, <2>2, <2>3, <3>1 DEF Ahead
  <2>4. CASE idx # n
    <3>1. StepsLeft' = 5 * (n - (idx + 1)) + 5
      BY <2>1, <2>4 DEF StepsLeft, Ahead
    <3> QED
      BY <1>1, <2>1, <2>2, <3>1 DEF Ahead
  <2> QED
    BY <2>3, <2>4
<1> QED
  BY <1>2, <1>3, <1>4, <1>5 DEF SessionStep

(* A session of n checks is over after 5n + 5 steps of its own, whatever   *)
(* goes on beside it and whether its gates exit or are killed: each step   *)
(* brings it nearer to its end and nothing else takes it away.             *)
(* (verify.py: verify_local_seal, verify_keyless_seal.)                    *)
THEOREM SessionsRunOut ==
  Spec => /\ [](StepsLeft \in 0..5 * Len(seal.checks) + 5)
          /\ [][/\ SessionStep \/ GateExits => StepsLeft' < StepsLeft
                /\ Environment => StepsLeft' = StepsLeft]_vars
<1>1. Inv /\ [Next]_vars =>
         [/\ SessionStep \/ GateExits => StepsLeft' < StepsLeft
          /\ Environment => StepsLeft' = StepsLeft]_vars
  <2>1. Environment => StepsLeft' = StepsLeft
    BY DEF Environment, SubjectRewritten, ProofReplaced, Tick, StepsLeft, args
  <2> QED
    BY <2>1, StepsRunOut
<1> QED
  BY <1>1, InvIsInvariant, StepsLeftIsBounded, PTL DEF Spec
=============================================================================
