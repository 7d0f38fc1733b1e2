---------------------------- MODULE LifecycleProofs ----------------------------
(***************************************************************************)
(* From the command that makes a seal to the session that verifies it:     *)
(* Producer on one machine, Verifier on another, and nothing between them  *)
(* but the seal.  Neither reads the other's state; whoever carries a seal  *)
(* may carry it at any time and to any number of sessions.                 *)
(*                                                                         *)
(* Producer's variables are its own here, `made_live', `made_pc' and       *)
(* `made_checks' those whose names a session has too; the sets of contents *)
(* and digests are the same.                                               *)
(***************************************************************************)
EXTENDS ContractProofs

CONSTANTS Procs, Jobs, Seeds, IllFormed, PowerJobs
VARIABLES made_live, store, out, onDisk, job, made_pc, subject, made_checks,
          stored, target, text, temp, read, began, installed

Makers == INSTANCE ProducerProofs WITH
              live <- made_live, pc <- made_pc, checks <- made_checks

(* The session was given the seal that i put in place, as it was signed.   *)
(* One with an id that no parser accepts (IllFormed) is malformed to a     *)
(* session and never Carried.                                              *)
Carries(i) ==
    /\ seal.malformed = "no" /\ seal.oddity = "none"
    /\ seal.signatures = <<"valid">>
    /\ seal.tier = i.text.tier
    /\ seal.subject = i.text.subject /\ seal.checks = i.text.checks

(* A T1 seal may claim a gate without a proof (seal.py: sign_local), and a *)
(* session does not trust that claim: no such claim is in this seal.       *)
Proven(i) ==
    i.text.tier = "T1" =>
        \A k \in DOMAIN i.text.checks :
            IsEnforced(i.text.checks[k]) => i.text.checks[k].verdict.enforced_proof # None

Supplied == opts.subject /\ opts.reexec /\ opts.loader

(* What an authentic report speaks of, its maker has read: a session that  *)
(* ends so was served the very bytes that the sealing command was.         *)
SameBytes ==
    \A i \in Makers!InstalledSeals :
        Carries(i) /\ pc = "done" /\ Authentic => read[i.by] \in served

(* The session has all it needs, and the world is as the maker left it.    *)
InOrder(i) ==
    /\ Carries(i) /\ Proven(i) /\ Supplied
    /\ served = {read[i.by]} /\ AnswersAreGood /\ FreshAt(clock)

(* What its makers put in place, a session confirms: over the bytes they   *)
(* read, with gates that confirm and proofs that resolve, a fresh seal is  *)
(* neither refused nor found unauthentic.                                  *)
MintedSealsPass ==
    \A i \in Makers!InstalledSeals :
        InOrder(i) => pc # "raised" /\ (pc = "done" => Authentic)

LEMMA MakersKeepTheirWord ==
  ASSUME Makers!ParametersOK
  PROVE  Makers!Spec => [](Makers!SealedBytesWereRead /\ Makers!NoOverclaimIsMinted)
<1>1. Makers!Spec => []Makers!SealedBytesWereRead
  BY Makers!SealsSpeakOfWhatWasRead, NoneAssumption
<1>2. Makers!Spec => []Makers!NoOverclaimIsMinted
  BY Makers!NoOverclaimIsSealed, NoneAssumption
<1> QED
  BY <1>1, <1>2, PTL

LEMMA SameDigestSameBytes ==
  ASSUME NEW a, NEW b, Sha256(a) = Makers!Sha256(b) PROVE a = b
<1>1. [sha256 |-> a].sha256 = a /\ [sha256 |-> b].sha256 = b
  OBVIOUS
<1> QED
  BY <1>1 DEF Sha256, Makers!Sha256

(* Between maker and session nothing can change but what the report would  *)
(* show: authentic means the same bytes.  (__main__.py: _cmd_seal;         *)
(* verify.py: VerificationReport.authentic.)                               *)
THEOREM AuthenticMeansTheSameBytes ==
  ASSUME Makers!ParametersOK
  PROVE  Makers!Spec /\ Spec => []SameBytes
<1>1. Makers!SealedBytesWereRead /\ AuthenticIsCurrent => SameBytes
  BY SameDigestSameBytes
  DEF SameBytes, Carries, AuthenticIsCurrent, SubjectServed, Makers!SealedBytesWereRead
<1> QED
  BY <1>1, MakersKeepTheirWord, AuthenticSpeaksOfThePresent, PTL

(* Producer's copies of the rules say what the contract's do.              *)
LEMMA MintedIsWorthy ==
  ASSUME Inv, Makers!SealedBytesWereRead, Makers!NoOverclaimIsMinted,
         NEW i \in Makers!InstalledSeals, Carries(i), Proven(i), Supplied
  PROVE  Worthy
<1>1. Contract!InProfile
  <2> PICK about : about = seal.subject
    OBVIOUS
  <2> PICK entries : entries = seal.checks
    OBVIOUS
  <2>1. Makers!IsAgentTooling(about) => Makers!AgentToolingProfile(about, entries, FALSE)
    BY DEF Makers!NoOverclaimIsMinted, Carries
  <2>2. Contract!IsAgentTooling(about) <=> Makers!IsAgentTooling(about)
    BY DEF Contract!IsAgentTooling, Makers!IsAgentTooling
  <2>3. \A e : /\ Makers!ScanCheck(e) => Contract!ScanCheck(e)
               /\ Makers!N1Check(e, FALSE) => Contract!N1Check(e, FALSE)
    BY DEF Contract!ScanCheck, Contract!N1Check, Contract!InvariantE1,
       Contract!IsEnforced, Makers!ScanCheck, Makers!N1Check, Makers!InvariantE1,
       Makers!IsEnforced
  <2>4. Contract!Elements(entries) = Makers!Elements(entries)
    BY DEF Contract!Elements, Makers!Elements
  <2>5. Makers!AgentToolingProfile(about, entries, FALSE)
           => Contract!AgentToolingProfile(about, entries, FALSE)
    BY <2>3, <2>4 DEF Makers!AgentToolingProfile, Contract!AgentToolingProfile,
       Makers!N1Profile, Contract!N1Profile
  <2> QED
    BY <2>1, <2>2, <2>5 DEF Contract!InProfile
<1>2. ASSUME NEW k \in DOMAIN seal.checks
      PROVE  Contract!Trusted(seal.checks[k], TRUE, TRUE, TRUE)
  <2> PICK entry : entry = seal.checks[k]
    OBVIOUS
  <2>1. entry \in Makers!Elements(i.text.checks)
    BY DEF Carries, Makers!Elements
  <2>2. \/ Makers!Judge!Trusted(entry, TRUE, TRUE, TRUE)
        \/ /\ i.text.tier = "T1" /\ Makers!IsEnforced(entry)
           /\ entry.verdict.enforced_proof = None
    BY <2>1 DEF Makers!NoOverclaimIsMinted
  <2>3. i.text.tier = "T1" /\ IsEnforced(entry) => entry.verdict.enforced_proof # None
    BY DEF Proven, Carries
  <2>4. Makers!Judge!Trusted(entry, TRUE, TRUE, TRUE)
    BY <2>2, <2>3 DEF IsEnforced, Makers!IsEnforced
  <2>5. Contract!Trusted(entry, TRUE, TRUE, TRUE)
    BY <2>4 DEF Supplied, Contract!Trusted, Makers!Judge!Trusted,
       Contract!InvariantE1, Contract!IsEnforced, Makers!Judge!InvariantE1,
       Makers!Judge!IsEnforced
  <2> QED
    BY <2>5
<1>3. IF seal.tier = "T2" THEN seal.signatures = <<"valid">> ELSE SignatureValid
  BY DEF Carries, SignatureValid, Accepted
<1> QED
  BY <1>1, <1>2, <1>3 DEF Worthy, Carries, Supplied

(* A seal that was minted verifies: the producer's profiles are no weaker  *)
(* than what the verifier asks.  (seal.py: sign_local, sign_keyless;       *)
(* verify.py: _verify_entries.)                                            *)
THEOREM MintedSealsVerify ==
  ASSUME Makers!ParametersOK
  PROVE  Makers!Spec /\ Spec => []MintedSealsPass
<1>1. Inv /\ Makers!SealedBytesWereRead /\ Makers!NoOverclaimIsMinted /\ GoodSealsPass
        => MintedSealsPass
  <2> SUFFICES ASSUME Inv, Makers!SealedBytesWereRead, Makers!NoOverclaimIsMinted,
                      GoodSealsPass
               PROVE  MintedSealsPass
    OBVIOUS
  <2> SUFFICES ASSUME NEW i \in Makers!InstalledSeals, InOrder(i)
               PROVE  pc # "raised" /\ (pc = "done" => Authentic)
    BY DEF MintedSealsPass
  <2>1. Worthy
    BY MintedIsWorthy DEF InOrder
  <2>2. BorneOut
    BY DEF InOrder, BorneOut, Makers!SealedBytesWereRead, Carries, Sha256, Makers!Sha256
  <2> QED
    BY <2>1, <2>2 DEF InOrder, GoodSealsPass
<1> QED
  BY <1>1, MakersKeepTheirWord, InvIsInvariant, NoFalseAlarm, PTL
=============================================================================
