---------------------------- MODULE BrowserVerifier ----------------------------
(***************************************************************************)
(* The browser verifier (js/checkseal_verify.mjs, verifySeal) beside the   *)
(* session of verify.py it is a subset of: it is given the envelope of a   *)
(* T1 seal, the bytes of the page's artifact and a public key, keeps no    *)
(* state and consults nothing, so it is an operator on them.               *)
(***************************************************************************)
EXTENDS Verifier

(***************************************************************************)
(* validateStatement looks at fewer fields than from_jsonable does, but is *)
(* stricter with some, as atob and JSON.parse are.  (A predicate digest    *)
(* that is an object without a sha256 passes it.  With artifact bytes      *)
(* verifySeal then throws, at :174, where the report would have said that  *)
(* the digests differ; from_jsonable refuses such a seal.)                 *)
(***************************************************************************)
ReadsStatement ==
    /\ seal.malformed \notin {"envelope", "statement"}
    /\ seal.oddity # "lax-payload"

(***************************************************************************)
(* The digests are compared as they are written.  A loose one that the     *)
(* session accepts was normalised in the Statement, so the two differ.     *)
(***************************************************************************)
SubjectCoupled ==
    /\ ReadsStatement
    /\ seal.malformed # "coupling" /\ seal.oddity # "loose-digest"

(* Mutated form: the loop goes on after a signature that verifies. *)
BrowserSignature_LastOne ==
    LET sigs == seal.signatures IN
    /\ ReadsStatement /\ sigs # <<>>
    /\ sigs[Len(sigs)] \in {"valid", "misattributed"}

(***************************************************************************)
(* The signature loop: crypto.subtle looks at no key id, and a signature   *)
(* that atob cannot decode throws and ends the loop.                       *)
(***************************************************************************)
BrowserSignature ==
    /\ ReadsStatement
    /\ \E k \in DOMAIN seal.signatures :
          /\ seal.signatures[k] \in {"valid", "misattributed"}
          /\ \A j \in 1..k - 1 : seal.signatures[j] \notin {"lax", "ill-encoded"}

BrowserSubject(bytes) ==
    /\ ReadsStatement /\ bytes # None
    /\ seal.malformed # "respelled" /\ seal.oddity # "loose-digest"
    /\ Sha256(bytes) = seal.subject.digest

BrowserFloor(entry) ==
    IF BindingRank(entry) <= GradeRank(entry) THEN BindingRank(entry)
                                              ELSE GradeRank(entry)

BrowserEntries ==
    IF ReadsStatement
      THEN [k \in DOMAIN seal.checks |->
               [id |-> seal.checks[k].check.id,
                result |-> seal.checks[k].verdict.result,
                trust_floor |-> BrowserFloor(seal.checks[k])]]
      ELSE <<>>

AuthenticSubset(bytes) ==
    SubjectCoupled /\ BrowserSubject(bytes) /\ BrowserSignature

--------------------------------------------------------------------------------
(* Properties.                                                             *)

Signs(kind) == \E k \in DOMAIN seal.signatures : seal.signatures[k] = kind

(* The two verifiers say the same of the same seal and bytes: what the     *)
(* session reports of subject, signature, checks and floors the browser    *)
(* reports too, and the reverse.  They part only where the code makes them *)
(* part.  The browser alone calls authentic: a signature in another key's  *)
(* name, an envelope or payload that only Python refuses, and a seal whose *)
(* session an unreadable subject or a proof file aborts.  The session      *)
(* alone does: a seal with an oddity, and a signature list in which atob   *)
(* cannot decode every signature, which ends the browser's loop.  What the *)
(* browser does not look at, gates, proofs and grades, is no part of this. *)
(* (DESIGN.md:61: "honest subset".)                                        *)
BrowserIsASubset ==
    /\ pc = "done" /\ seal.tier = "T1" =>
          /\ seal.oddity # "lax-payload" =>
                BrowserEntries = [k \in DOMAIN findings |->
                    [id |-> findings[k].check.id, result |-> findings[k].result,
                     trust_floor |-> findings[k].trust_floor]]
          /\ \A bytes \in Subjects : served = {bytes} /\ opts.subject =>
                /\ BrowserSubject(bytes) => subject_ok
                /\ subject_ok /\ seal.oddity = "none" => BrowserSubject(bytes)
                /\ Authentic /\ seal.oddity = "none"
                   /\ ~Signs("lax") /\ ~Signs("ill-encoded") =>
                       AuthenticSubset(bytes)
          /\ BrowserSignature /\ ~Signs("misattributed") => signature_ok
    /\ pc = "raised" /\ seal.tier = "T1" =>
          \A bytes \in Subjects : AuthenticSubset(bytes) =>
              \/ seal.malformed \in {"record", "signatures"}
              \/ Unreadable \in served \/ ChokedOnProof
=============================================================================
