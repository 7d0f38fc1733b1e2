# CheckSeal in TLA+

CheckSeal turns the results of checks run on an AI artifact (a review, a guard,
a human sign-off) into a signed *seal*, and verifies such a seal against the
live artifact, re-running the gates and resolving the proofs it claims. These
modules model the program in `src/checkseal/`, its browser verifier and its
example scripts; TLC checks them on small instances and TLAPS proves the central
safety properties for every instance.

Paths below are relative to the repository root (`src/` in `PROJECT.json`).

## The system

| Component | State it keeps | Operations | Talks to |
|---|---|---|---|
| VCR model, trust rules (`model.py`, `trust.py`, `digest.py`) | none: records | parsing, `trust_floor`, `check_invariant_e1` | everyone |
| Profiles (`profile.py`, `profile_agent_tooling.py`) | none | `validate_n1_profile`, `validate_agent_tooling_profile` | sealer, verifier |
| HarnessBench resolver (`hbresolve.py`) | none; reads a proof file | `resolve_enforced_proof` | called by the verifier |
| Verifier (`verify.py`, `statement.py`, `dsse.py`, `sign/*`) | the report under construction | `verify_local_seal` (T1), `verify_keyless_seal` (T2) | subject file, clock, gate processes, proof files |
| T0 store (`store.py`) | a JSONL file shared by processes | `append`, `read`, `read_for_subject` | sealer, ingesters |
| Sealer and seal commands (`seal.py`, `__main__.py`) | the output file and its temporary | `seal`, `seal-keyless` | store, key file, subject |
| Skillscan ingestion (`skillscan.py`, `bundle.py`) | manifest file | `seal-skillscan`, `canonical_manifest` | store, bundle tree, sealer |
| OPERANT-J ingestion (`operantj.py`) | none; reads a receipt, twice | `entries_from_receipt` | store (by its caller) |
| Example scripts (`examples/seal_*.py`) | the output file | judge, harness and rights scripts | receipt, report, rights record, store, signer |
| Ledger store (`vlstore.py`) | records of an external ledger | `append`, `read`, `read_for_subject` | verification-ledger |
| Key files (`sign/local.py`, `keygen`) | PEM files | `write_private_pem`, `write_public_pem`, loads | seal, verify |
| Browser verifier (`js/checkseal_verify.mjs`) | none | `verifySeal` | the page that calls it |

What is hard in it: the verifier's inputs are files other processes own, read
at different moments of a session that lasts as long as the gates do; gates may
hang; one check's failure must stay its own; the store is appended to by
processes that take no lock and may die; every command is a sequence of effects
that can stop after any of them; reports, receipts and bundles are read more
than once, or file by file, while somebody writes them; the ledger belongs to
others too; and the browser verifies the same seals with other code.
`PROJECT.json` lists each hazard at its line with the properties aimed at it.

## Modules

| Module | Models | Remarks |
|---|---|---|
| `VCR` | the vocabulary of `model.py` and `trust.py` | records and enumerations; a digest is an injective tag of the content |
| `Profiles` | both producer profiles | one predicate per check, one per seal |
| `HBResolve` | `resolve_enforced_proof` | `ReportOf` stands for `json.loads`: a report, `NotAReport` (a `JSONDecodeError`, or no object) or `Unparsable` (any other exception, which nobody catches); ill-typed and absent fields are values of their own |
| `Verifier` | one session of either tier and the world it reads | extends the three above |
| `VerifierContract` | what a verification promises | abstract, one step; `Verifier` implements it |
| `BrowserVerifier` | `verifySeal` of `checkseal_verify.mjs` | an operator on the session's own seal |
| `SealStore` | what a store promises | abstract log; both stores implement it |
| `JsonlStore` | `JsonlSealStore` with concurrent, dying writers and torn rows | |
| `LedgerStore` | `VerificationLedgerSealStore` on a shared, pruned ledger | the ledger itself is external |
| `Producer` | `seal`, `seal-keyless`, `seal-skillscan` by any number of processes, and the disk below them | judged by `VerifierContract!Trusted` |
| `KeyFiles` | `keygen` by any number of processes, and a user who removes files | files are inodes under names |
| `Inputs` | files that change while they are read, and the walk of a bundle (`canonical_manifest`) | no specification of its own |
| `Scripts` | the three example scripts with `operantj.py`, the identity part of `seal-skillscan`, `seal-keyless` | extends `Inputs`, `HBResolve`, `Profiles` |
| `VerifierProofs`, `ProducerProofs`, `JsonlProofs`, `LedgerProofs`, `KeyFilesProofs`, `ScriptsProofs` | proofs about the module of that name | |
| `ContractProofs` | `Verifier` implements `VerifierContract`; `BrowserVerifier` agrees with it; the verdict is exact | extends `VerifierProofs` and `BrowserVerifier` |
| `LifecycleProofs` | `Producer` and `Verifier` together: a seal that is made, carried and verified | extends `ContractProofs`, instantiates `ProducerProofs` |
| `MCChecks`, `MCVerifier`, `MCProducer`, `MCLedgerStore`, `MCScripts` | instances for TLC | checks, seals, arguments, reports, commands, files and stores the runs choose from |

### Verifier

`pc` follows the code from top to bottom; the two entry points share all steps
but the first and the signature's place:

| `pc` | code | action |
|---|---|---|
| load | `load_envelope` / `verify_bundle_keyless` | `LoadEnvelope`, `VerifyBundle` |
| parse | `parse_statement` | `ParseStatement` |
| subject | `_check_subject` | `CheckSubject` |
| signature (T1) | `_verify_signature_local` | `VerifySignatureLocal` |
| freshness (T2) | `_freshness` | `CheckFreshness` |
| profile | the agent-tooling test at the head of `_verify_entries` | `CheckProfile` |
| e1 | top of the loop body | `BeginEntry`, `RejectEntry` |
| reexec, gate | step 3 | `WithholdReexec`, `SkipReexec`, `StartGate`, `GateExits`, `GateTimesOut` |
| proof | step 4 | `WithholdProof`, `ResolveProof`, `AbortOnProof`, `NoProof` |
| authority | grade C rule, end of the loop body | `RecordEntry` |
| done, raised | the report is returned, or an exception is | (none) |

A step of the model is a stretch of code between two observations of the
outside world, or one branch of the loop. The environment is unconstrained: between any two
steps the subject file may be rewritten or removed, a proof file replaced or
removed, and the clock may advance. `started`, `served` and `calls` are history
variables: when the session began, every content of the subject file since, and
what gates and loader answered. Properties compare verdicts with them.

`ResolveProof` is the resolver's two returns. On bytes that match the pin and on
which `json.loads` raises something else than `JSONDecodeError`, neither the
resolver nor `_verify_entries` has a handler: `AbortOnProof` ends the session
with no report. What a later check would have said is then lost, which is the
one way a check's proof can hide another's finding (`verifier_doc_proofs`).

Abstracted: signatures are the outcome of verifying each (a `lax` one is valid
in text that only Python's base64 decodes, an `ill-encoded` one is text no
decoder takes); the Sigstore checks of a bundle are one outcome, since
`verify_bundle_keyless` raises on any failure; a seal that does not parse is
`malformed`, with a kind where Python and the browser part over it, and one that
only the browser takes amiss has an `oddity`; check ids keep their first segment
(profile namespace) and last one (threat class); `ees` is in hundredths.

`BrowserVerifier` extends the session: `verifySeal` keeps no state and consults
nothing, so its result is a function of the seal and the served bytes, and
`BrowserIsASubset` compares it with the report whenever a T1 session has ended.
They differ where the code makes them differ, and the property names where:

* Only the browser calls authentic: a signature under another key's name (it
  ignores key ids); an envelope, payload or record that only Python refuses (a
  byte-order mark, which `TextDecoder` drops; fields the browser does not look
  at); and a seal whose session an unreadable subject or a choking proof aborts.
* Only the session does: a digest in upper case or with blanks, which
  `model.py:105` normalises and the browser compares as written
  (`loose-digest`); a payload in base64 that only Python decodes
  (`lax-payload`), a statement without `vcr_version` or with a null
  `duration_ms`, which the browser refuses; and a list with a signature that
  `atob` cannot decode, which ends its loop.

A predicate digest that is an object without `sha256` passes
`validateStatement`, and with artifact bytes `verifySeal` then throws at `:174`,
against its comment at `:130` that a bad seal produces a failed report and never
an exception. `from_jsonable` refuses such a seal, so there is no session to
compare with and no run shows it.

### JsonlStore

The file is the sequence of its lines, a line the sequence of pieces written to
it. A row's text is two pieces, so a line parses exactly when it is one whole
row, and its newline is the third. `append` is `BeginAppend` (the read inside
`_next_id`, and the formatting) and `WriteSome` once or more (one write for a
row that fits Python's text buffer, several for a larger one; `sent` counts the
pieces that are in the file), then `Return`; `Crash` ends a writer anywhere in
between. `read` skips blank lines, so the model's file has none but the empty
one after the last newline. `torn` remembers whether a row ever took more than
one write, `overlapped` whether two appends ever overlapped: what the code
promises depends on them.

### LedgerStore

A write is atomic and gets the ledger's next id; other producers write payloads
that do not parse as check results, and retention drops any records that are
not durable. `append` is `AppendResult` and `Return`, since the caller may die
in between. `Rows` is `_iter_checkseal`: what parses, sorted by id; the nth row
is the record with n ids up to its own (`Rank`). `append` validates nothing, so
some results (`IllFormed`) are written, acknowledged and then passed over by
every read, as a foreign payload is; `DurableAppendsAreKept` says exactly that:
a durable append stays under its id, and is read back, once and as it was, if
and only if it parses. Operator trust is clamped by the ledger, as `tests/test_vlstore.py:79` has it.

### Producer

A process runs one command; a retry is another process with the same job. `pc`
follows the code:

| `pc` | code | action |
|---|---|---|
| start | `sha256_file` in `_cmd_seal`, `_cmd_seal_keyless`; `seed_from_report` and the profile in `_cmd_seal_skillscan` | `HashSubject`, `IngestReport` |
| assemble | `assemble`, `read_for_subject` | `Assemble` |
| store | the loop over `store.append` | `StoreRow` |
| manifest | `_write_atomic(args.manifest_out, ...)` is called | `PutManifest` |
| key | `load_private_signer` | `LoadKey` |
| sign | `sign_local`, `sign_keyless` | `Sign` |
| mktemp, write, sync, replace | `_write_atomic` | `MakeTemp`, `WriteTemp`, `SyncTemp`, `Replace` |
| announce | the `print` after the last output | `Announce` |
| done, failed, killed | exit status 0, non-zero, none | `Raise` and `Kill`, from any step |

`Raise` is any exception the code may meet at that step, among them the
refusals (a step whose conditions do not hold can only raise); `_write_atomic`
unlinks its temporary file on the way out. `Kill` is every end without that
clean-up: SIGKILL, but also an `unlink` that fails other than by
`FileNotFoundError` (`__main__.py:46`) and an exception between `mkstemp` and
the `try`. `PowerFailure` also undoes renames that had not reached the disk,
tears files that were not fsynced and drops the last appends to the store,
which the code does not sync. It may happen while only `PowerJobs` are run.

`read`, `began` and `installed` are history: what a command found under the
subject's name, how long the store was then, and which texts were renamed into
place by whom. Properties compare seals with them.

`RowsFor` is `read_for_subject`: its nth entry is the row with n rows of that
subject up to its place in the store (`Places`, `Rank`).

`SealsTellTheWholeStore` speaks of two kinds of seals. Those of `seal` and
`seal-keyless` have all the rows of their subject at one instant; a
`seal-skillscan` seals its own entries only (`__main__.py:187`), each of them
stored before. The rows of a scan that failed between two appends stay in the
store, and a later `seal` takes them for whole; the code keeps nothing by which
to tell, so no property can (`PROJECT.json` lists the hazard).

Abstracted: the subject or bundle is read in one step, a row is appended in one
step (`JsonlStore` takes the append apart), a manifest is the content it stands
for, signing is what `MaySign` accepts, names are left out. `--out` and
`--manifest-out` are different names. Entries may carry an id that
`Check.from_jsonable` would reject (`IllFormed`), because nothing on this side
checks it; only `producer_doc_ids` has commands that do.

### KeyFiles

| `pc` | code | action |
|---|---|---|
| start | `os.open` with `O_EXCL` in `write_private_pem` | `CreatePrivate` |
| write private | `fh.write` | `WritePrivate` |
| public | `open(path, "wb")` in `write_public_pem` | `OpenPublic` |
| write public | `fh.write` | `WritePublic` |
| announce | the `print` of `_cmd_keygen` | `Announce` |

`Stop` may end a command at any step. A file is an inode under a name, so a
write reaches the inode that was opened even when the user has removed the name
(`Remove`) or another keygen has made a new file there; one key's text written
over a longer one leaves a mixture. `PairsMatch` names the rivals that the code
does not protect against: a command told to use another private key file but
the same public one. `FinishedKeygensLeaveKeys` says that once every keygen has
finished each file is one key, whole, but a name that served one for its private
and another for its public file: there one key's text may lie over another's.

### Inputs and Scripts

`Inputs` has the files. Any of them may change between any two steps
(`Rewrite`), and `since` remembers everything each has been since a command
started. `canonical_manifest` is `ListDirectory` (one directory of the tree at a
time), then for each listed path, in any order, `Look` (is it noise, that is, is
`.git` or `__pycache__` a part of it, its own name included; a link; a second
path with the same normalised name) and `HashFile` (opens what is there
by then). `Look` and the open are two steps, so a file may become a link in
between, and the hash then follows it.

| `pc` | code | action |
|---|---|---|
| start | the test for an old store (judge script) | `Start` |
| read | the source is parsed and judged: `read_receipt`, `entry_from_vcr_v01`, the scripts' own tests | `Read` |
| walk | `canonical_manifest`, then the comparison in `derive_subject` | `ListDirectory`, `Look`, `HashFile`, `CompareClaim` |
| hash | `sha256_file` of the subject, and the comparison with the source | `Hash` |
| pin | `sha256_file` of the source, read again | `Pin` |
| append | one `store.append` per check | `AppendRow`, `Appended` |
| assemble | `assemble`, profile, signing | `Assemble` |
| open, write | `open(args.out, "w")`, the text (`seal-keyless`: `_write_atomic`) | `OpenOut`, `WriteOut` |
| done, refused, stopped | the script ended, raised by itself, was stopped | `Stop`, from any step |

`next` counts the entries a command has appended, and a row's `nth` is which of
them it is. A seal's rows are the store's rows under their places there, so
two seals can be compared with the store and with each other. A row's evidence is what the
script took for its source's digest, which in the rights script is a raw value
of the record (`seal_field_manual.py:62`), `IllTyped` perhaps.

The harness script judges a report by other means than the resolver
(`HarnessVets`): `int()` makes counts of strings, fractions and booleans
(`IntOf`), an absent count is 0 (`CountOf`), a boolean EES passes for a number
(`EesOf`). Its check is `guard/` and the report's class, of which the resolver
later sees what follows the last slash (`LastSegment`); ids that no parser takes
back (`IllFormed`) make `Assemble` fail for whoever finds the row in the store.
So `EvidenceBacksTheRow` has a version of the source that was read and a version
that was hashed, and says what each vouches for; that the row resolves it says
where the two are one, the report is well formed and the class has no slash.

`InputsAssumption` and `ScriptsAssumption` say what the constants are: the
parsers yield typed records where they do not raise (`read_receipt`, the
scripts' own tests), `argparse` insists on the arguments each
command needs, and the subject of a judge run is the receipt itself.

`by` in a row, `during` in a seal and `met` are history: who appended it, who
was between its first and last row when it was assembled, and which commands
ever ran at the same time. What `Producer` abstracts (several subjects and
sources, rewriting in place, the walk) is here, and what `Scripts` abstracts
(the temporary file, power, the profiles of an archive) is there.

## Runs

| Run | Question | Bounds |
|---|---|---|
| `verifier_local` | T1: over-claims, early calls, aborts, leaks between checks, which reports resolve, what the browser says | seals of 1-2 checks over 9 kinds of checks, malformed seals and agent-tooling subjects; all arguments; 2 subject contents; 18 reports, each with one thing wrong, pinned or swapped in |
| `verifier_keyless` | T2: early calls and staleness with the age bound, a clock and hanging gates; no false alarm; sessions end | clock 0..3, ages 0, 1 or none, `integratedTime` 1 or missing |
| `store_jsonl` | unlocked writers, torn rows, crashes: loud or complete, an append-only log | 3 writers, 3 appends, 2 results |
| `store_ledger` | a shared, pruned ledger: durable appends are kept, reads are a log | 2 writers, 3 results, one of which does not parse, 1 foreign payload, 4 ids |
| `producer_seals` | over-claims, omitted rows, seals of bytes nobody read, exit status, unvetted rows, whole files | 2 commands of 8 (all three commands, 2 profiles, directory and archive bundles, a lying report, a refused one), 5 stores, 2 subject contents |
| `keys` | key pairs, what finished keygens leave, overwritten keys | 3 keygens with all choices of 2 names, 1 removal |
| `scripts` | rows backed by their source, partial seals, rival runs, the bundle walk | 3 commands in 4 combinations, 10 files, 1 rewrite |
| `verifier_doc_proofs`, `store_doc_durable`, `producer_doc_ids`, `scripts_doc_mirror`, `scripts_doc_links` | sentences of the repository the code does not keep | as small as the counterexample needs |

Why the bounds suffice: the verifier's loop carries `trusted`, `reexec` and
`proof` from one check to the next and nothing else, so two checks show every
leak; each check asks at most one gate and one proof file, so one proof file
with two contents gives every order of reading and replacing; the clock needs
one value before, at, and two after the bound. In the stores, an anomaly needs
a torn (or foreign, or pruned) row, the append that runs into it and one that
follows: three appends. Commands interact only through the store and the output
names, both of which two commands share, and each has its own temporary file, so
two show every pair of orders; two contents are enough for a rewritten subject;
two rows per scan put a failure between them. Of three keygens two are rivals
and the third, or the removal, comes in between. A script reads each file at
most twice, so one rewrite falls before, between or after. What does not depend
on the bounds is proved (below).

Some runs leave states out, by constraints that the MC modules state:

* `ReportsInScope` (`verifier_local`): seals other than those made to pin a
  report meet two reports only, seals that pin one meet one set of arguments.
* `FromOneStore` (`producer_seals`): the disk's own steps are explored for two
  jobs and from one store, since the commands differ in what they compute and
  not in how they put it away.
* `InScope` and `InOrder` (`scripts`): each combination of commands sees only
  the files it reads vary; a command stops only between its appends or before
  its output, where it leaves something behind; `seal-keyless` starts when there
  is a store; a file changes while a command that reads it is running.

Deadlock checking is off where the system may really stop: `store_jsonl` and
`store_doc_durable` (`append` and `read` raise on an unparsable file, so a torn
file with idle writers is a state where nothing happens any more),
`store_ledger`, `keys`, `scripts`, `scripts_doc_mirror` and `scripts_doc_links` (commands end, and
ids, removals and rewrites have a bound). The other runs keep it on; there the
subject can always be rewritten.

### Fairness

Only `verifier_keyless` assumes any: `WF_vars(SessionStep)`. A session is one
thread that nothing blocks but the gate it waits for, and `subprocess.run` is
called with a timeout (`__main__.py:118`), so `GateTimesOut` is a step of the
session. Nothing is assumed of the gate (`GateExits` is outside the fair
action) nor of the environment.

### Where code and documents disagree

* `verify.py:9` says that a proof resolves or is marked "gate unproven".
  `hbresolve.py:95` catches `JSONDecodeError` only, and `verify.py:212` nothing:
  a pinned file that is not UTF-8, is nested too deep or holds an integer of too
  many digits ends the session, and the findings of every check with it
  (`verifier_doc_proofs`).
* `store.py:1` calls the store durable; after a writer died between a row and
  its newline, the next append is acknowledged and the store is unreadable
  (`store_doc_durable`). `README.md:69` concedes the missing tail recovery.
* `skillscan.py:142` builds a `Check` around whatever id the report has, and
  the profile looks at its first segment only. An id such as
  `scan/Prompt_Injection` is stored, but `Check.from_jsonable` rejects it, and
  `read_for_subject`, which "every check entry whose subject digest matches"
  (`store.py:108`) is to come from, parses every row before it filters: one such
  scan makes `seal` fail for every subject of the store (`producer_doc_ids`).
  For the same reason `NoOverclaimIsMinted` does not say that a seal can be
  parsed by its verifier: with such an id, or a `--name` longer than 256
  characters, it cannot.
* `examples/seal_harness_config.py:54` says the script mirrors the resolver's
  floor so that it refuses to seal what verify would reject. It looks at the
  lower bound of the EES, a prefix of the schema and two counts. In
  `scripts_doc_mirror` a report with an EES of 1.01 and nothing else wrong is
  sealed and does not resolve.
* `bundle.py:48` says that any symlink in the tree raises, and `:21` that links
  are refused. A path with `.git` or `__pycache__` among its parts is passed over
  (`:56`) before anybody asks whether it is a link (`:58`), so a bundle with such
  a link is accepted (`scripts_doc_links`). The other properties of the walk speak
  of the links that are not noise.

Seen while modelling, and shown by no run: `docs/profile-agent-tooling.md:203`
says that the verifier does not apply the agent-tooling rules, and
`verify.py:167` does (`CheckProfile`); `seal.py:4` says that a stale evidence
digest fails its check at verify time, and the verifier never looks at evidence,
which `README.md:8` and `:68` concede; the exception of the browser verifier
told above.

## Proofs

`VerifierProofs` proves, for any set of seals, options, subject contents and
reports and any `ReportOf`:

| Theorem | Property |
|---|---|
| `TypeCorrect` | `Spec => []TypeOK` |
| `CallsOnlyWhenBound` | `Spec => []ExternalCallsOnlyWhenBound` |
| `AuthenticSpeaksOfThePresent` | `Spec => []AuthenticIsCurrent` |
| `NoOverclaim` | `Spec => []TrustedEnforcedIsBacked` |
| `FindingsRestOnTheirAnswers` | `Spec => []FindingsTellTheAnswers` (stated there) |
| `SessionsRunOut` | `StepsLeft` is bounded and every step of the session lowers it (stated there) |

None of these is inductive. `Inv` strengthens them with what the code knows at
each point: `HistoryInv` (the live subject has been served, the clock has not
gone back), `FlagsInv` (a flag that is TRUE was earned: the signature is valid,
the digest was served, the age was within bounds at the start), `CallsInv` (a
recorded call implies `AllowExternal`), `LoopInv` (`findings` are as many as
the checks passed, `idx` is inside the seal while the loop runs) and
`LocalsInv` (if `trusted` still holds at the proof or authority step, the gate
was confirmed for this very check, and the proof was read). Assumptions: those
named in the modules (`NoneAssumption`, `ConstantsAssumption`); the latter says
that seals are well typed, not that they are honest. TLC evaluates them
on every run.

`FindingsTellTheAnswers` says of each finding, trusted or not, that the gate and
the loader were asked about its check at most once and that `reexecution` and
`enforced_proof` are what they answered then: `AnswersInv` places every recorded
call at a check the loop has passed, or at the current one once its step is
over. `ProofVerdictIsExact`, which TLC checks on the 18 reports, adds which
reports resolve.

`SessionsRunOut` is the part of `Terminates` that is not about fairness:
`StepsLeft`, five for each check that is left and what is left of this one's
turn (or of what precedes the loop), starts at no more than `5n + 5` for a seal
of `n` checks, becomes smaller with every step of the session or its gate, and
is not changed by anything the environment does. No loop over the checks can go
round for ever, however the gates behave.

`ContractProofs` extends it, for the same constants:

| Theorem | Property |
|---|---|
| `SessionKeepsTheContract` | `Spec => ImplementsContract`, the refinement of `VerifierContract` |
| `OnlyBadInputRaises` | `Spec => []RaisedOnlyOnBadInput` |
| `BrowserAgrees` | `Spec => []BrowserIsASubset` |
| `TrustIsNeitherMoreNorLess` | `Spec => []TrustIsExact` (stated there) |
| `NoFalseAlarm` | `Spec => []GoodSealsPass` |
| `VerdictsAreExact` | `Spec => []VerdictIsExact` (stated there) |

`RaisedOnlyOnBadInput` names what ends a session without a report: a malformed
seal, a bundle that does not verify, an unreadable subject, or a pinned proof on
which the parser chokes; and the last always does. The contract lets a session
refuse on such grounds only (`MayRefuse`, more coarsely: a good seal may be
refused only if something outside it is read). `BrowserAgrees` holds up to the
differences listed above.

The contract says nothing of how a check is judged, only that some answers of
gate and proof explain each finding. `JudgedInv` therefore says of every finding,
and at each step of the check under way, that it is trusted only if two good
answers would make the contract trust it, and not trusted only if two bad ones
would make it distrust it (`Mirrors`); at the end the findings' own verdicts are
the answers that explain them (`ReportIsExplained`). `TrustIsExact` then removes
the "some": a finding is trusted if, and only if, the contract trusts the check
on what its own gate and its own proof answered (`ExactInv`, with
`FindingsTellTheAnswers` from above). For the browser the flags
must be exact and not only earned: `FlagsAreExact` adds that a flag which is
FALSE is so for a reason, a signature list without a valid one or served bytes
with another digest.

The other properties of the verifier say that it accepts too little rather than
too much; a verifier that refused everything would satisfy them.
`GoodSealsPass` is the converse: when the seal is `Worthy` (well formed, signed,
in its profile, its checks such as the contract trusts on good answers and the
call's arguments), only its own subject's bytes were served, what gates and
proofs answered is good and the age is within the bound by the clock as it is
*now*, the session has not raised and ends authentic. It needs `CompleteInv`:
every gate and proof that a check calls for has been asked by the time its turn
is over (`EveryoneAsked`), none was asked without cause (`AskedWithCause`), and a
freshness flag that is FALSE has a reason that no later time takes away
(`FlagsHaveReasons`). `VerdictIsExact` puts both directions together for a
session during which the subject was not rewritten and the clock did not pass to
another second: authentic if and only if all of this holds.

`ProducerProofs` proves, for any set of processes, jobs, initial stores and
subject contents, with and without power failures:

| Theorem | Property |
|---|---|
| `OutputsAreWhole` | `Spec => []WholeFiles` |
| `SealsSpeakOfWhatWasRead` | `Spec => []SealedBytesWereRead` |
| `StatusIsTheTruth` | `Spec => []StatusTellsTheOutcome` |
| `NoOverclaimIsSealed` | `Spec => []NoOverclaimIsMinted` |
| `StoredScansAreVetted` | `Spec => []OnlyVettedScansAreStored` |
| `Typing` | `Spec => []TypeOK` |
| `SealsTellAll` | `Spec => SealsTellTheWholeStore` |

Here too an invariant `Inv` carries what the code has earned from step to step:
from the hash to the signature the digest is of the bytes read (`ReadInv`);
while a file is put in place its text is a manifest or a seal the profiles
accept (`PlacingInv`); the temporary file holds that text and is synced before
it is renamed (`TempInv`), hence every file under an output name is a synced
copy of something installed (`FilesInv`), which is why a power failure finds
none torn. Most actions touch one process only: `LocalStep` shows once that the
rest is kept, and each action's lemma adds what it does to its own process.
`NoOverclaimIsSealed` rests on `SignedChecksAreJudgedTrusted`: whatever passes
`N1Check` is `Trusted` by the verifier's contract when the world bears it out.
`StoredScansAreVetted` has an invariant of its own, `VettedInv`: what a
`seal-skillscan` still has to store, and every scan in the store, has passed the
profile. `Typing` has `TypedInv`, which ties what a command puts in place to its
kind of text. `SealsTellAll` rests on two things: `RowsForIsFaithful`, that the
rows `read_for_subject` returns are all of the subject's, in the store's order
(by `RanksCount`: counting the rows up to each gives every number once), and
`WholeInv`, that the entries a command is about to seal were those of the store
at some instant since it began, its own scan's rows among them; a store that
only grows keeps on saying so (`GrownStore`).
Assumptions: `NoneAssumption` and `ProducerAssumption`, which says what
argument combinations the command line accepts and that the scans in the initial
stores passed the profile, as those of an earlier command did.

`LifecycleProofs` puts the two programs side by side. Its specification is the
conjunction of both: `Makers!Spec` for any commands on one machine, with its
crashes and power failures, and `Spec` for a session on another, which share no
variable. `Carries(i)` says that the session's seal is one that some command put
in place; when it was carried, and to how many sessions, is left open.

| Theorem | Property |
|---|---|
| `AuthenticMeansTheSameBytes` | `Makers!Spec /\ Spec => []SameBytes`: a session that ends authentic was served the bytes that the sealing command read |
| `MintedSealsVerify` | `Makers!Spec /\ Spec => []MintedSealsPass`: where the subject is as its maker read it, the call supplies what the seal needs, gates confirm and proofs resolve, a fresh minted seal is not refused and is authentic |

Neither is about what one program remembers. The first combines
`SealsSpeakOfWhatWasRead` with `AuthenticSpeaksOfThePresent`; the second
`NoOverclaimIsSealed` with `NoFalseAlarm`, through `MintedIsWorthy`: the two
programs' rules, which `Producer` and `VerifierContract` each instantiate, agree,
so what the producer's profiles let through the verifier does not reject. Two
cases are outside and named: a T1 seal that claims a gate without a proof
(`Proven`), which `sign_local` accepts and a session does not trust, and a seal
with an id no parser accepts, which is malformed to a session and so not carried
(the finding of `producer_doc_ids`). A seal that was respelled on its way (an
`oddity`) is not the one put in place. Assumptions: those of both modules,
`Producer`'s as the hypothesis `Makers!ParametersOK`. No run composes the two
programs, since the product of their states is large; the theorems use only what
each run shows of its own half.

`JsonlProofs` proves, for any set of writers and results and any number of
appends, torn rows and crashes:

| Theorem | Property |
|---|---|
| `Typing` | `Spec => []TypeOK` |
| `LaterReadsGrow` | `Spec => ReadsGrow` |
| `FileImplementsLog` | `Spec => ImplementsLog`, the refinement of `SealStore` |
| `WholeRowsAreRead` | `Spec => []WholeRowsStayReadable` |
| `IdsAreNumbers` | `Spec => []IdsNumberRows` |
| `NothingIsLostInSilence` | `Spec => []LoudOrComplete` |

`FileInv` adds to the types that only the last line can be empty and that a
writer in the middle of an append has a row. Everything else rests on two lemmas
about a write: it leaves the lines alone but the last, which gets longer
(`AppendLines`, `LinesStay`), and it begins at most one line, with the writer's
row (`NewLine`). `SeenInv` says that what the last read returned still heads the
file; `CleanInv` that without torn rows every line is a whole row; `IdInv` that
a row under way, alone, has the id of the next line. `LoudOrComplete` needs to
know where acknowledged rows are: `PlaceInv` gives the first piece of each row
acknowledged or begun a place of its own, which no later write moves; in a file
that reads, two first pieces cannot be on one line.

`LedgerProofs` proves `Typing`, `DurablesStay`
(`Spec => []DurableAppendsAreKept`: kept, and read back if and only if it
parses) and `LedgerImplementsLog`
(`Spec => ImplementsLog`, the second refinement of `SealStore`) for any writers
and records. `LedgerInv`
says that no id is larger than `last_id` and that a durable record somebody
knows of, its append under way or returned, is in the ledger under an id of its
own. The refinement adds that the ledger is finite and no two records share an
id (`OneRecordAnId`). Then sorting by id is well defined (`RanksCount`,
`PlacesAreTaken`), a newer record comes last and moves none of the others
(`NewestIsLast`), so a durable append is one new row at the end of the log
(`AWriteAppends`) and nothing else shows in it (`OthersDoNotShow`).

`KeyFilesProofs` proves `Typing`, `PrivateStays` (`Spec => PrivateKeysStay`),
`FinishedLeaveKeys` (`Spec => []FinishedKeygensLeaveKeys`) and
`PairsAreHalves` (`Spec => []PairsMatch`) for any keygens, names and removals.
`FilesInv` says which inode a command has open, who created the inodes and under
which names they can be; `Attended` that an empty file has a command that is
about to write it; `Solo` and `Paired` that of harmless rivals only one gets past
its private file, and that a command nobody disturbed has, at each step, the
halves it has written so far.

Assumptions: `StoreAssumption`, `LedgerAssumption`, `NoneIsNoRecord`,
`KeyFilesAssumption`, all about the constants' types.

`ScriptsProofs` proves, for any commands, files, rewrites and
trees, under `NoneAssumption`, `InputsAssumption` and `ScriptsAssumption`:

| Theorem | Property |
|---|---|
| `Typing` | `Spec => []TypeOK` |
| `StoredRowsAreBacked` | `Spec => []EvidenceBacksTheRow` |
| `JudgesDoNotFollow` | `Spec => []OneJudgePerStore` |
| `SealsAreWhole` | `Spec => []OnlyStoppedRunsAreSealedInPart` |
| `EndedScriptsAreSealed` | `Spec => []DoneMeansSealed` |
| `AcceptedBundlesWereThere` | `Spec => []AcceptedManifestWasThere` |
| `QuietBundlesAreExact` | `Spec => []QuietBundlesAreJudgedExactly` |

The invariant follows the data. What a command holds was in its source or
subject while it ran (`SinceInv`, `DataInv`), and once it has stored a row it
holds it for good, so what was said of its rows stays true. For a harness row
`ProperNumbersEnforce` shows that the script's coerced tests mean the resolver's
where the report is well formed. Its rows are its
entries, numbered, in the store's order (`StoreInv`). Of two judge runs that
never ran at one time one ended without a row, because a judge refuses a store
that is there (`MetInv`). A seal is a copy of rows of the store and has all or
none of a command's (`SealsInv`); only an output file that no other command was
given has a known content (`OutInv`). For the walk of a bundle there are two
invariants: `Seen` holds of every walk (what the manifest has was there, and what
was there all along is in it or still to come), `Exact` of a walk over a tree
that does not change (the manifest is that of the paths taken so far, without
links and without two paths of one name).

Left to TLC: of `Terminates`, that a session always has a next step and, under
fairness, takes it (ENABLED and liveness are beyond these provers;
`SessionsRunOut` is the rest); and `ProofVerdictIsExact`, which lists by name the reports of the
instance that resolve, so that it is independent of `Resolves`, and therefore says
nothing of other reports.

## Not modelled, and why

* Cryptography, TLS, TUF, Rekor inclusion proofs: external; their outcome is
  nondeterministic per signature.
* Parsing of JSON beyond well-formed or not, argument parsing, rendering, the
  package surface and the abstract signer (`json_utils.py`, `__init__.py`,
  `sign/base.py`): no state of their own.
* In `JsonlStore`, power loss after a successful write: nothing in the store
  claims to survive it (no `fsync`). `Producer` lets the last rows vanish.
* The name of a subject: no decision reads it. A name longer than 256 characters
  is sealed and cannot be parsed back, as with check ids above.
* File modes and directory entries that are neither file nor link; a bundle's
  noise is a directory, a path of such a name outside it, and one `.DS_Store`.
* The ledger's own storage: it is another repository.
* `Identity.attested_authority` (`sign/base.py:32`): set by the signers and read
  by no decision.

## Plan

Done, in this order: the verifier, its contract and proofs; `Producer` and its
proofs; the JSONL store with torn rows and its proofs; the ledger as the second
implementation of `SealStore`; key files; the browser verifier; the inputs and
the scripts; the proofs of the contract, of both refinements of the log, of the
browser's agreement, of the scripts and of the bundle walk; the exactness of the
verdict; `Producer` and `Verifier` together.

Every property of the passing runs has a proof but the two left to TLC. What
could come next: the rows of `Scripts` as `Producer`'s initial stores, so that a
seal is followed from the report a script read to the session, and sealing and
verifying in one run of TLC, over an instance small enough for the product.
