---------------------------- MODULE ProducerProofs -----------------------------
(***************************************************************************)
(* For any number of commands and any subject, store and report, whatever  *)
(* fails, is killed or loses power: outputs are whole, no seal over-claims *)
(* or speaks of bytes its command did not read, and the exit status is the *)
(* truth.                                                                  *)
(***************************************************************************)
EXTENDS Producer, FiniteSetTheorems, TLAPS

(***************************************************************************)
(* The inductive invariant.  What a command has earned at each step has to *)
(* be carried from the subject's hash to the rename: the digest is of what *)
(* it read, the text is a seal the profiles accept, the temporary file     *)
(* holds that text and is synced before it is renamed.                     *)
(***************************************************************************)
Placing == {"mktemp"} \cup Writing
Settled == {"announce"} \cup Ended
Earned  == {"assemble", "store", "manifest", "key", "sign"} \cup Placing

Shape ==
    /\ live \in Content \cup {Unreadable}
    /\ job \in [Procs -> Jobs]
    /\ pc \in [Procs -> Running \cup Ended]
    /\ subject = [p \in Procs |-> subject[p]]
    /\ checks = [p \in Procs |-> checks[p]]
    /\ target = [p \in Procs |-> target[p]]
    /\ text = [p \in Procs |-> text[p]]
    /\ temp = [p \in Procs |-> temp[p]]
    /\ read = [p \in Procs |-> read[p]]

(* A file under a name is a synced copy of something installed there.      *)
Copies(file, t) ==
    file # None => \E i \in installed : /\ i.target = t
                                        /\ file = [text |-> i.text, synced |-> TRUE]

FilesInv ==
    /\ out = [t \in Targets |-> out[t]]
    /\ onDisk = [t \in Targets |-> onDisk[t]]
    /\ \A t \in Targets : Copies(out[t], t) /\ Copies(onDisk[t], t)

Signed(s) ==
    /\ s.tier \in {"T1", "T2"}
    /\ MaySign(s.subject, s.checks, s.tier = "T2")

ReadInv(p) ==
    pc[p] \in Earned => read[p] # None /\ subject[p].digest = Sha256(read[p])

PlacingInv(p) ==
    pc[p] \in Placing =>
        /\ target[p] \in Targets
        /\ text[p] # Torn
        /\ target[p] = "seal" => Signed(text[p]) /\ text[p].subject = subject[p]

TempInv(p) ==
    /\ pc[p] = "write" => temp[p] = [text |-> Torn, synced |-> FALSE]
    /\ pc[p] = "sync" => temp[p] = [text |-> text[p], synced |-> FALSE]
    /\ pc[p] = "replace" => temp[p] = [text |-> text[p], synced |-> TRUE]
    /\ pc[p] \notin Writing \cup {"killed"} => temp[p] = None

SealingInv(p) ==
    /\ pc[p] \in {"assemble", "key", "sign"} => job[p].sealing
    /\ pc[p] \in Placing /\ target[p] = "seal" => job[p].sealing
    /\ pc[p] \in {"announce", "done"} /\ job[p].sealing => \E i \in InstalledSeals : i.by = p

ProcInv(p) == ReadInv(p) /\ PlacingInv(p) /\ TempInv(p) /\ SealingInv(p)

InstalledInv ==
    \A i \in installed :
        /\ i.by \in Procs /\ pc[i.by] # "start"
        /\ i.text # Torn
        /\ i.target = "seal" =>
              /\ Signed(i.text)
              /\ read[i.by] # None /\ i.text.subject.digest = Sha256(read[i.by])
              /\ pc[i.by] \in Settled /\ job[i.by].sealing

Inv == Shape /\ FilesInv /\ InstalledInv /\ \A p \in Procs : ProcInv(p)

--------------------------------------------------------------------------------
LEMMA InitInv == Init => Inv
<1> SUFFICES ASSUME Init PROVE Inv
  OBVIOUS
<1>1. Shape /\ FilesInv /\ InstalledInv
  BY DEF Init, Shape, FilesInv, InstalledInv, Copies, Running
<1>2. \A p \in Procs : ProcInv(p)
  BY DEF Init, ProcInv, ReadInv, PlacingInv, TempInv, SealingInv, Earned,
         Placing, Writing
<1> QED
  BY <1>1, <1>2 DEF Inv

(***************************************************************************)
(* Most steps touch neither the disk nor what is installed.                *)
(***************************************************************************)
LEMMA QuietDisk ==
  ASSUME FilesInv, UNCHANGED disk
  PROVE  FilesInv'
BY DEF FilesInv, Copies, disk

(* What is installed stays as it was while its commands are left alone.    *)
LEMMA QuietInstalled ==
  ASSUME InstalledInv, UNCHANGED <<installed, job>>,
         \A q \in Procs : pc[q] # "start" =>
             /\ pc'[q] # "start" /\ read'[q] = read[q]
             /\ pc[q] \in Settled => pc'[q] \in Settled
  PROVE  InstalledInv'
BY DEF InstalledInv, Signed

(* A process that does not move keeps its invariant.                       *)
LEMMA OtherProcess ==
  ASSUME NEW q \in Procs, ProcInv(q),
         pc'[q] = pc[q], read'[q] = read[q], subject'[q] = subject[q],
         target'[q] = target[q], text'[q] = text[q], temp'[q] = temp[q],
         job'[q] = job[q], installed \subseteq installed'
  PROVE  ProcInv(q)'
BY DEF ProcInv, ReadInv, PlacingInv, TempInv, SealingInv, InstalledSeals, Signed

(* The steps of one process that do not reach the disk.                    *)
Quiet(p) ==
    /\ UNCHANGED <<disk, job>>
    /\ pc[p] \in Running /\ pc'[p] # "start"
    /\ pc[p] \in Settled => pc'[p] \in Settled
    /\ pc[p] # "start" => read'[p] = read[p]
    /\ \A q \in Procs \ {p} :
          /\ pc'[q] = pc[q] /\ read'[q] = read[q] /\ subject'[q] = subject[q]
          /\ target'[q] = target[q] /\ text'[q] = text[q] /\ temp'[q] = temp[q]

LEMMA LocalStep ==
  ASSUME Inv, NEW p \in Procs, Quiet(p), Shape', ProcInv(p)'
  PROVE  Inv'
<1> USE DEF Inv, Quiet
<1>1. FilesInv'
  BY QuietDisk
<1>2. InstalledInv'
  <2>1. \A q \in Procs : pc[q] # "start" =>
             /\ pc'[q] # "start" /\ read'[q] = read[q]
             /\ pc[q] \in Settled => pc'[q] \in Settled
    BY DEF Running, Writing
  <2> QED
    BY <2>1, QuietInstalled DEF disk
<1>3. ASSUME NEW q \in Procs PROVE ProcInv(q)'
  <2>1. CASE q # p
    BY <2>1, OtherProcess DEF disk
  <2> QED
    BY <2>1
<1> QED
  BY <1>1, <1>2, <1>3

--------------------------------------------------------------------------------
(* Each local step preserves the invariant of its own process.             *)

LEMMA HashSubjectInv ==
  ASSUME Inv, NEW p \in Procs, HashSubject(p)
  PROVE  Inv'
<1> USE DEF Inv, HashSubject, Goto
<1>1. Shape'
  BY DEF Shape, Running, Ended, disk, writing
<1>2. Quiet(p)
  BY DEF Quiet, Shape, Running, Settled, Ended, disk, writing
<1>3. ProcInv(p)'
  <2>1. job[p].sealing
    BY ProducerAssumption DEF ParametersOK, Shape
  <2>2. live # None
    BY NoneAssumption DEF Shape
  <2> QED
    BY <2>1, <2>2 DEF Shape, ProcInv, ReadInv, PlacingInv, TempInv,
       SealingInv, Earned, Placing, Writing, writing, disk
<1> QED
  BY <1>1, <1>2, <1>3, LocalStep

LEMMA AssembleInv ==
  ASSUME Inv, NEW p \in Procs, Assemble(p)
  PROVE  Inv'
<1> USE DEF Inv, Assemble, Goto
<1>1. Shape'
  BY DEF Shape, Running, Ended, disk, writing, history
<1>2. Quiet(p)
  BY DEF Quiet, Shape, Running, Settled, Ended, disk, writing, history
<1>3. ProcInv(p)'
  BY DEF Shape, ProcInv, ReadInv, PlacingInv, TempInv,
       SealingInv, Earned, Placing, Writing, writing, disk, history, Signed
<1> QED
  BY <1>1, <1>2, <1>3, LocalStep

LEMMA IngestReportInv ==
  ASSUME Inv, NEW p \in Procs, IngestReport(p)
  PROVE  Inv'
<1> USE DEF Inv, IngestReport, Goto
<1>1. Shape'
  BY DEF Shape, Running, Ended, disk, writing
<1>2. Quiet(p)
  BY DEF Quiet, Shape, Running, Settled, Ended, disk, writing
<1>3. ProcInv(p)'
  <2>1. live # None
    BY NoneAssumption DEF Shape
  <2>2. Sha256(live) = job[p].report.digest
    BY DEF DerivesSubject
  <2> QED
    BY <2>1, <2>2 DEF Shape, ProcInv, ReadInv, PlacingInv, TempInv,
       SealingInv, Earned, Placing, Writing, writing, disk
<1> QED
  BY <1>1, <1>2, <1>3, LocalStep

LEMMA StoreRowInv ==
  ASSUME Inv, NEW p \in Procs, StoreRow(p)
  PROVE  Inv'
<1> USE DEF Inv, StoreRow, Goto
<1>1. Shape'
  BY DEF Shape, Running, Ended, disk, writing, history, AfterStore, AfterManifest
<1>2. Quiet(p)
  BY DEF Quiet, Shape, Running, Settled, Ended, disk, writing, history, AfterStore, AfterManifest
<1>3. ProcInv(p)'
  BY DEF Shape, ProcInv, ReadInv, PlacingInv, TempInv,
       SealingInv, Earned, Placing, Writing, writing, disk, history,
       AfterStore, AfterManifest, Signed
<1> QED
  BY <1>1, <1>2, <1>3, LocalStep

LEMMA PutManifestInv ==
  ASSUME Inv, NEW p \in Procs, PutManifest(p)
  PROVE  Inv'
<1> USE DEF Inv, PutManifest, Goto
<1>1. Shape'
  BY DEF Shape, Running, Ended, disk, history
<1>2. Quiet(p)
  BY DEF Quiet, Shape, Running, Settled, Ended, disk, history
<1>3. ProcInv(p)'
  <2>1. text'[p] # Torn
    BY DEF Shape, Torn
  <2> QED
    BY <2>1 DEF Shape, ProcInv, ReadInv, PlacingInv, TempInv,
       SealingInv, Earned, Placing, Writing, disk, history, Targets
<1> QED
  BY <1>1, <1>2, <1>3, LocalStep

LEMMA LoadKeyInv ==
  ASSUME Inv, NEW p \in Procs, LoadKey(p)
  PROVE  Inv'
<1> USE DEF Inv, LoadKey, Goto
<1>1. Shape'
  BY DEF Shape, Running, Ended, disk, writing, history
<1>2. Quiet(p)
  BY DEF Quiet, Shape, Running, Settled, Ended, disk, writing, history
<1>3. ProcInv(p)'
  BY DEF Shape, ProcInv, ReadInv, PlacingInv, TempInv,
       SealingInv, Earned, Placing, Writing, writing, disk, history, Signed
<1> QED
  BY <1>1, <1>2, <1>3, LocalStep

LEMMA SignInv ==
  ASSUME Inv, NEW p \in Procs, Sign(p)
  PROVE  Inv'
<1> USE DEF Inv, Sign, Goto
<1>1. Shape'
  BY DEF Shape, Running, Ended, disk, history
<1>2. Quiet(p)
  BY DEF Quiet, Shape, Running, Settled, Ended, disk, history
<1>3. ProcInv(p)'
  <2>1. text'[p] # Torn
    BY DEF Shape, Torn
  <2>2. text'[p].subject = subject[p] /\ Signed(text'[p])
    BY DEF Shape, Signed
  <2> QED
    BY <2>1, <2>2 DEF Shape, ProcInv, ReadInv, PlacingInv, TempInv,
       SealingInv, Earned, Placing, Writing, disk, history, Signed, Targets
<1> QED
  BY <1>1, <1>2, <1>3, LocalStep

(* A step of _write_atomic before the rename.                              *)
LEMMA TempStep ==
  ASSUME Shape, NEW p \in Procs, pc[p] \in Running \ Settled,
         NEW file, temp' = [temp EXCEPT ![p] = file],
         NEW step \in (Running \cup Ended) \ {"start"}, Goto(p, step),
         UNCHANGED <<live, store, disk, job, subject, checks, stored, target,
                     text, history>>
  PROVE  Shape' /\ Quiet(p)
BY DEF Shape, Quiet, Goto, disk, history

LEMMA MakeTempInv ==
  ASSUME Inv, NEW p \in Procs, MakeTemp(p)
  PROVE  Inv'
<1> USE DEF Inv, MakeTemp
<1>1. Shape' /\ Quiet(p)
  <2>1. pc[p] \in Running \ Settled /\ "write" \in (Running \cup Ended) \ {"start"}
    BY DEF Running, Writing, Settled, Ended
  <2> DEFINE file == [text |-> Torn, synced |-> FALSE]
  <2>2. temp' = [temp EXCEPT ![p] = file]
    OBVIOUS
  <2> HIDE DEF file
  <2> QED
    BY <2>1, <2>2, TempStep
<1>2. ProcInv(p)'
  BY DEF Goto, Shape, ProcInv, ReadInv, PlacingInv, TempInv,
       SealingInv, Earned, Placing, Writing, disk, history, Signed
<1> QED
  BY <1>1, <1>2, LocalStep

LEMMA WriteTempInv ==
  ASSUME Inv, NEW p \in Procs, WriteTemp(p)
  PROVE  Inv'
<1> USE DEF Inv, WriteTemp
<1>1. Shape' /\ Quiet(p)
  <2>1. pc[p] \in Running \ Settled /\ "sync" \in (Running \cup Ended) \ {"start"}
    BY DEF Running, Writing, Settled, Ended
  <2> DEFINE file == [text |-> text[p], synced |-> FALSE]
  <2>2. temp' = [temp EXCEPT ![p] = file]
    OBVIOUS
  <2> HIDE DEF file
  <2> QED
    BY <2>1, <2>2, TempStep
<1>2. ProcInv(p)'
  BY DEF Goto, Shape, ProcInv, ReadInv, PlacingInv, TempInv,
       SealingInv, Earned, Placing, Writing, disk, history, Signed
<1> QED
  BY <1>1, <1>2, LocalStep

LEMMA SyncTempInv ==
  ASSUME Inv, NEW p \in Procs, SyncTemp(p)
  PROVE  Inv'
<1> USE DEF Inv, SyncTemp
<1>1. Shape' /\ Quiet(p)
  <2>1. pc[p] \in Running \ Settled /\ "replace" \in (Running \cup Ended) \ {"start"}
    BY DEF Running, Writing, Settled, Ended
  <2> DEFINE file == [text |-> text[p], synced |-> TRUE]
  <2>2. temp' = [temp EXCEPT ![p] = file]
    OBVIOUS
  <2> HIDE DEF file
  <2> QED
    BY <2>1, <2>2, TempStep
<1>2. ProcInv(p)'
  BY DEF Goto, Shape, ProcInv, ReadInv, PlacingInv, TempInv,
       SealingInv, Earned, Placing, Writing, disk, history, Signed
<1> QED
  BY <1>1, <1>2, LocalStep

LEMMA AnnounceInv ==
  ASSUME Inv, NEW p \in Procs, Announce(p)
  PROVE  Inv'
<1> USE DEF Inv, Announce, Goto
<1>1. Shape'
  BY DEF Shape, Running, Ended, disk, writing, history
<1>2. Quiet(p)
  BY DEF Quiet, Shape, Running, Settled, Ended, disk, writing, history
<1>3. ProcInv(p)'
  BY DEF Shape, ProcInv, ReadInv, PlacingInv, TempInv,
       SealingInv, Earned, Placing, Writing, writing, disk, history, InstalledSeals
<1> QED
  BY <1>1, <1>2, <1>3, LocalStep

LEMMA RaiseInv ==
  ASSUME Inv, NEW p \in Procs, Raise(p)
  PROVE  Inv'
<1> USE DEF Inv
<1>1. pc' = [pc EXCEPT ![p] = "failed"] /\ pc[p] \in Running
  BY DEF Raise, Goto
<1>2. pc'[p] = "failed" /\ "failed" \in Ended
  BY <1>1 DEF Shape, Ended
<1>3. Shape'
  BY <1>1, <1>2 DEF Raise, Shape, disk, writing, history
<1>4. Quiet(p)
  BY <1>1, <1>2 DEF Raise, Quiet, Settled, Shape, disk, writing, history
<1>5. ProcInv(p)'
  BY <1>2 DEF Raise, Shape, ProcInv, ReadInv, PlacingInv, TempInv, SealingInv,
     Earned, Placing, Writing, writing, disk, history
<1> QED
  BY <1>3, <1>4, <1>5, LocalStep

LEMMA KillInv ==
  ASSUME Inv, NEW p \in Procs, Kill(p)
  PROVE  Inv'
<1> USE DEF Inv
<1>1. pc' = [pc EXCEPT ![p] = "killed"] /\ pc[p] \in Running
  BY DEF Kill, Goto
<1>2. pc'[p] = "killed" /\ "killed" \in Ended
  BY <1>1 DEF Shape, Ended
<1>3. Shape'
  BY <1>1, <1>2 DEF Kill, Shape, disk, writing, history
<1>4. Quiet(p)
  BY <1>1, <1>2 DEF Kill, Quiet, Settled, Shape, disk, writing, history
<1>5. ProcInv(p)'
  BY <1>2 DEF Kill, Shape, ProcInv, ReadInv, PlacingInv, TempInv, SealingInv,
     Earned, Placing, Writing, writing, disk, history
<1> QED
  BY <1>3, <1>4, <1>5, LocalStep

--------------------------------------------------------------------------------
(* The rename: what is installed is a synced copy of the text, and it is   *)
(* the command's last act when it is the seal.                             *)

LEMMA ReplaceInv ==
  ASSUME Inv, NEW p \in Procs, Replace(p)
  PROVE  Inv'
<1> USE DEF Inv, Replace, Goto
<1> DEFINE new == [by |-> p, target |-> target[p], text |-> temp[p].text]
<1>1. /\ temp[p] = [text |-> text[p], synced |-> TRUE]
      /\ target[p] \in Targets /\ text[p] # Torn
      /\ target[p] = "seal" => Signed(text[p]) /\ text[p].subject = subject[p]
                               /\ job[p].sealing
      /\ read[p] # None /\ subject[p].digest = Sha256(read[p])
  BY DEF ProcInv, ReadInv, PlacingInv, TempInv, SealingInv, Earned, Placing, Writing
<1>2. Shape'
  BY DEF Shape, Running, Ended, AfterManifest, history
<1>3. FilesInv'
  <2>1. new \in installed' /\ temp[p] = [text |-> new.text, synced |-> TRUE]
    BY <1>1
  <2>2. ASSUME NEW t \in Targets PROVE Copies(out[t], t)' /\ Copies(onDisk[t], t)'
    <3>1. Copies(out[t], t) /\ Copies(onDisk[t], t)
      BY DEF FilesInv
    <3> QED
      BY <2>1, <3>1, <1>1 DEF Copies, FilesInv
  <2> QED
    BY <2>2 DEF FilesInv
<1>4. InstalledInv'
  <2>1. ASSUME NEW i \in installed PROVE i.by # p \/ i.target # "seal"
    BY DEF InstalledInv, Settled, Ended
  <2> QED
    BY <1>1, <2>1 DEF InstalledInv, Settled, Shape, Signed, AfterManifest, history
<1>5. ASSUME NEW q \in Procs PROVE ProcInv(q)'
  <2>1. CASE q # p
    BY <2>1, OtherProcess DEF Shape, history
  <2>2. CASE q = p /\ target[p] = "seal"
    <3>1. pc'[p] = "announce" /\ temp'[p] = None
      BY <2>2 DEF Shape
    <3>2. new \in InstalledSeals' /\ new.by = p
      BY <2>2 DEF InstalledSeals
    <3> QED
      BY <2>2, <3>1, <3>2 DEF ProcInv, ReadInv, PlacingInv, TempInv, SealingInv,
         Earned, Placing, Writing
  <2>3. CASE q = p /\ target[p] = "manifest"
    BY <2>3, <1>1 DEF Shape, ProcInv, ReadInv, PlacingInv, TempInv, SealingInv,
       Earned, Placing, Writing, AfterManifest, history
  <2> QED
    BY <1>1, <2>1, <2>2, <2>3 DEF Targets
<1> QED
  BY <1>2, <1>3, <1>4, <1>5

--------------------------------------------------------------------------------
(* The world.                                                              *)

LEMMA SubjectRewrittenInv == Inv /\ SubjectRewritten => Inv'
<1> SUFFICES ASSUME Inv, SubjectRewritten PROVE Inv'
  OBVIOUS
<1> USE DEF Inv, SubjectRewritten
<1>1. Shape'
  BY DEF Shape, writing, history
<1>2. FilesInv' /\ InstalledInv'
  BY QuietDisk, QuietInstalled DEF disk, history
<1>3. \A q \in Procs : ProcInv(q)'
  BY OtherProcess DEF writing, history, disk
<1> QED
  BY <1>1, <1>2, <1>3

LEMMA DirectoryFlushedInv == Inv /\ DirectoryFlushed => Inv'
<1> SUFFICES ASSUME Inv, DirectoryFlushed PROVE Inv'
  OBVIOUS
<1> USE DEF Inv, DirectoryFlushed
<1>1. Shape'
  BY DEF Shape, writing, history
<1>2. FilesInv'
  BY DEF FilesInv, Copies
<1>3. InstalledInv'
  BY QuietInstalled DEF history
<1>4. \A q \in Procs : ProcInv(q)'
  BY OtherProcess DEF writing, history
<1> QED
  BY <1>1, <1>2, <1>3, <1>4

(* Every file on disk is synced, so a power failure tears none of them.    *)
LEMMA PowerFailureInv == Inv /\ PowerFailure => Inv'
<1> SUFFICES ASSUME Inv, PowerFailure PROVE Inv'
  OBVIOUS
<1> USE DEF Inv, PowerFailure
<1>1. Shape'
  BY DEF Shape, Running, Ended, Writing, writing, history
<1>2. FilesInv'
  <2>1. PICK torn \in [Targets -> BOOLEAN] :
           /\ onDisk' = [t \in Targets |-> Survives(onDisk[t], torn[t])]
           /\ out' = onDisk'
    OBVIOUS
  <2>2. ASSUME NEW t \in Targets
        PROVE  onDisk'[t] = onDisk[t] /\ out'[t] = onDisk[t]
    BY <2>1 DEF Survives, FilesInv, Copies
  <2> QED
    BY <2>1, <2>2 DEF FilesInv, Copies
<1>3. InstalledInv'
  BY QuietInstalled DEF history, Running, Writing, Shape, Settled, Ended
<1>4. ASSUME NEW q \in Procs PROVE ProcInv(q)'
  <2>1. CASE pc[q] \in Running \ {"start"}
    BY <2>1 DEF ProcInv, ReadInv, PlacingInv, TempInv, SealingInv, Earned,
       Placing, Writing
  <2>2. CASE pc[q] \notin Running \ {"start"}
    BY <2>2, OtherProcess DEF writing, history
  <2> QED
    BY <2>1, <2>2
<1> QED
  BY <1>1, <1>2, <1>3, <1>4

--------------------------------------------------------------------------------
LEMMA NextInv == Inv /\ [Next]_vars => Inv'
<1> SUFFICES ASSUME Inv, [Next]_vars PROVE Inv'
  OBVIOUS
<1>1. ASSUME NEW p \in Procs, Step(p) PROVE Inv'
  BY <1>1, HashSubjectInv, AssembleInv, IngestReportInv, StoreRowInv,
     PutManifestInv, LoadKeyInv, SignInv, MakeTempInv, WriteTempInv,
     SyncTempInv, ReplaceInv, AnnounceInv, RaiseInv, KillInv DEF Step
<1>2. CASE UNCHANGED vars
  <2> USE <1>2 DEF Inv, vars
  <2>1. Shape' /\ FilesInv'
    BY QuietDisk DEF Shape, disk
  <2>2. InstalledInv' /\ \A q \in Procs : ProcInv(q)'
    BY QuietInstalled, OtherProcess
  <2> QED
    BY <2>1, <2>2
<1> QED
  BY <1>1, <1>2, SubjectRewrittenInv, DirectoryFlushedInv, PowerFailureInv DEF Next

(* The inductive invariant holds of every behaviour (__main__.py).         *)
THEOREM InvIsInvariant == Spec => []Inv
<1> QED
  BY InitInv, NextInv, PTL DEF Spec

(* Whatever fails, is killed or loses power, an output is absent or one    *)
(* whole file that some command finished (_write_atomic).                  *)
THEOREM OutputsAreWhole == Spec => []WholeFiles
<1>1. Inv => WholeFiles
  BY DEF Inv, FilesInv, InstalledInv, Copies, WholeFiles
<1> QED
  BY <1>1, InvIsInvariant, PTL

(* A seal speaks of the bytes its command read (_cmd_seal, derive_subject).*)
THEOREM SealsSpeakOfWhatWasRead == Spec => []SealedBytesWereRead
<1>1. Inv => SealedBytesWereRead
  BY DEF Inv, InstalledInv, SealedBytesWereRead, InstalledSeals
<1> QED
  BY <1>1, InvIsInvariant, PTL

(* The exit status tells whether the seal is in place (main).              *)
THEOREM StatusIsTheTruth == Spec => []StatusTellsTheOutcome
<1>1. Inv => StatusTellsTheOutcome
  <2> SUFFICES ASSUME Inv, NEW p \in Procs
               PROVE  LET sealed == \E i \in InstalledSeals : i.by = p IN
                      /\ pc[p] = "done" => (sealed <=> job[p].sealing)
                      /\ sealed => pc[p] \in {"announce"} \cup Ended
                      /\ pc[p] \in {"done", "failed"} => temp[p] = None
    BY DEF StatusTellsTheOutcome
  <2> DEFINE sealed == \E i \in InstalledSeals : i.by = p
  <2>1. ProcInv(p)
    BY DEF Inv
  <2>2. sealed => pc[p] \in Settled /\ job[p].sealing
    BY DEF Inv, InstalledInv, InstalledSeals
  <2>3. pc[p] \in {"done", "failed"} => temp[p] = None
    BY <2>1 DEF ProcInv, TempInv, Writing
  <2> QED
    BY <2>1, <2>2, <2>3 DEF ProcInv, SealingInv, Settled
<1> QED
  BY <1>1, InvIsInvariant, PTL

(***************************************************************************)
(* The producer's rules are no weaker than the verifier's: a check the     *)
(* profiles let through is one the verifier's judgement trusts, given a    *)
(* world that bears it out.                                                *)
(***************************************************************************)
LEMMA SignedChecksAreJudgedTrusted ==
  ASSUME NEW entry, NEW public \in BOOLEAN, N1Check(entry, public)
  PROVE  \/ Judge!Trusted(entry, TRUE, TRUE, TRUE)
         \/ /\ ~public /\ IsEnforced(entry) /\ InvariantE1(entry)
            /\ entry.verdict.enforced_proof = None
<1> DEFINE opts == [subject |-> TRUE, reexec |-> TRUE, loader |-> TRUE,
                    max_age |-> None]
<1>1. opts.reexec = TRUE /\ opts.loader = TRUE
  OBVIOUS
<1>2. CASE ~(IsEnforced(entry) /\ entry.verdict.enforced_proof = None)
  BY <1>1, <1>2 DEF Judge!Trusted, Judge!InvariantE1, Judge!IsEnforced,
     InvariantE1, IsEnforced, N1Check
<1>3. CASE IsEnforced(entry) /\ entry.verdict.enforced_proof = None
  BY <1>3 DEF N1Check
<1> QED
  BY <1>2, <1>3

LEMMA PublicRulesIncludePrivate ==
  ASSUME NEW made, NEW entries, AgentToolingProfile(made, entries, TRUE)
  PROVE  AgentToolingProfile(made, entries, FALSE)
BY DEF AgentToolingProfile, N1Profile, N1Check

(* No seal that over-claims is put in place (seal.py, both profiles).      *)
THEOREM NoOverclaimIsSealed == Spec => []NoOverclaimIsMinted
<1>1. Inv => NoOverclaimIsMinted
  <2> SUFFICES ASSUME Inv, NEW i \in InstalledSeals
               PROVE  LET s == i.text IN
                      /\ IsAgentTooling(s.subject) =>
                             AgentToolingProfile(s.subject, s.checks, FALSE)
                      /\ \A entry \in Elements(s.checks) :
                            \/ Judge!Trusted(entry, TRUE, TRUE, TRUE)
                            \/ /\ s.tier = "T1" /\ IsEnforced(entry)
                               /\ InvariantE1(entry)
                               /\ entry.verdict.enforced_proof = None
    BY DEF NoOverclaimIsMinted
  <2>1. Signed(i.text) /\ i.text.tier \in {"T1", "T2"}
    BY DEF Inv, InstalledInv, InstalledSeals, Signed
  <2> QED
    BY <2>1, SignedChecksAreJudgedTrusted, PublicRulesIncludePrivate
       DEF Signed, MaySign, N1Profile
<1> QED
  BY <1>1, InvIsInvariant, PTL

--------------------------------------------------------------------------------
(* What seal-skillscan stores.                                             *)

(* A command that is storing has rows left to store, all of them vetted.   *)
StoringInv(p) ==
    pc[p] = "store" =>
        /\ subject[p] \in Subject /\ checks[p] \in Seq(Entry)
        /\ stored[p] < Len(checks[p])
        /\ \A k \in DOMAIN checks[p] : ScanCheck(checks[p][k])

VettedInv ==
    /\ store \in Seq(Row) /\ OnlyVettedScansAreStored
    /\ stored \in [Procs -> Nat]
    /\ \A p \in Procs : StoringInv(p) /\ (pc[p] = "start" => stored[p] = 0)

(* A scan's checks, as entries, are well typed.                            *)
LEMMA EntriesOfAScan ==
  ASSUME NEW j \in JobType, j.report # None
  PROVE  LET entries == [k \in DOMAIN j.report.checks |-> EntryOf(j, j.report.checks[k])] IN
         /\ entries \in Seq(Entry) /\ Len(entries) > 0
         /\ j.report.digest \in Digest
<1> DEFINE scans   == j.report.checks
           n       == Len(scans)
           entries == [k \in DOMAIN scans |-> EntryOf(j, scans[k])]
<1>1. /\ j.report \in Report /\ j.authority \in Authority
  BY DEF JobType
<1>2. /\ scans \in Seq([id : Id, result : Results]) /\ scans # <<>>
      /\ j.report.config_sha256 \in ConfigRef /\ j.report.digest \in Digest
  BY <1>1 DEF Report
<1> HIDE DEF scans
<1>3. n \in Nat /\ n > 0 /\ DOMAIN scans = 1..n
      /\ \A k \in 1..n : scans[k].id \in Id /\ scans[k].result \in Results
  <2> DEFINE Scan == [id : Id, result : Results]
  <2>1. scans \in Seq(Scan) /\ scans # <<>>
    BY <1>2
  <2> HIDE DEF Scan
  <2>2. /\ n \in Nat /\ n > 0 /\ DOMAIN scans = 1..n
        /\ \A k \in 1..n : scans[k] \in Scan
    BY <2>1
  <2> QED
    BY <2>2 DEF Scan
<1>4. \A k \in 1..n : EntryOf(j, scans[k]) \in Entry
  <2> TAKE k \in 1..n
  <2>1. [id |-> scans[k].id, kind |-> "review", config_ref |-> j.report.config_sha256]
          \in [id : Id, kind : CheckKind, config_ref : ConfigRef \cup {None}]
    BY <1>2, <1>3 DEF CheckKind
  <2>2. [result |-> scans[k].result, enforced |-> "observed", enforced_proof |-> None]
          \in Verdict
    BY <1>3 DEF Verdict, Enforced
  <2> QED
    BY <1>1, <2>1, <2>2 DEF EntryOf, Entry, Grade
<1> HIDE DEF n
<1>5. [k \in 1..n |-> EntryOf(j, scans[k])] \in Seq(Entry)
      /\ Len([k \in 1..n |-> EntryOf(j, scans[k])]) = n
  BY <1>3, <1>4
<1> QED
  BY <1>2, <1>3, <1>5 DEF scans

(* Most steps neither store nor make anything to store.                    *)
LEMMA NothingStored ==
  ASSUME VettedInv, UNCHANGED <<store, stored>>,
         \A q \in Procs :
             /\ pc'[q] = "start" => pc[q] = "start"
             /\ pc'[q] = "store" => /\ pc[q] = "store"
                                   /\ subject'[q] = subject[q] /\ checks'[q] = checks[q]
  PROVE  VettedInv'
BY DEF VettedInv, StoringInv, OnlyVettedScansAreStored

\* What the scan evidence yields passed the profile before the first row is stored.
LEMMA IngestIsVetted ==
  ASSUME Inv, VettedInv, NEW p \in Procs, IngestReport(p)
  PROVE  VettedInv'
<1> DEFINE j       == job[p]
           entries == [k \in DOMAIN j.report.checks |-> EntryOf(j, j.report.checks[k])]
<1>1. j \in JobType /\ j.report # None
  BY ProducerAssumption DEF ParametersOK, Inv, Shape, IngestReport
<1>2. entries \in Seq(Entry) /\ Len(entries) > 0 /\ j.report.digest \in Digest
  BY <1>1, EntriesOfAScan
<1>3. /\ subject'[p] = [kind |-> j.kind, digest |-> j.report.digest,
                        media_type |-> j.media_type]
      /\ checks'[p] = entries /\ Seedable(subject'[p], entries)
      /\ pc[p] = "start" /\ pc'[p] = "store" /\ UNCHANGED <<store, stored>>
  BY DEF IngestReport, Goto, Inv, Shape
<1>4. \A q \in Procs \ {p} : /\ pc'[q] = pc[q] /\ subject'[q] = subject[q]
                             /\ checks'[q] = checks[q]
  BY DEF IngestReport, Goto, Inv, Shape
<1>5. subject'[p] \in Subject
  BY <1>1, <1>2, <1>3 DEF JobType, Subject
<1>6. \A k \in DOMAIN entries : ScanCheck(entries[k])
  BY <1>3 DEF Seedable, AgentToolingProfile, Elements
<1>7. stored'[p] = 0
  BY <1>3 DEF VettedInv
<1> HIDE DEF entries, j
<1>8. StoringInv(p)'
  BY <1>2, <1>3, <1>5, <1>6, <1>7 DEF StoringInv
<1> QED
  BY <1>3, <1>4, <1>8 DEF VettedInv, StoringInv, OnlyVettedScansAreStored

\* A stored row is one of those the command had vetted.
LEMMA StoreRowIsVetted ==
  ASSUME Inv, VettedInv, NEW p \in Procs, StoreRow(p)
  PROVE  VettedInv'
<1> DEFINE next == stored[p] + 1
           new  == [subject |-> subject[p], entry |-> checks[p][next]]
<1>1. /\ subject[p] \in Subject /\ checks[p] \in Seq(Entry)
      /\ stored[p] < Len(checks[p]) /\ stored[p] \in Nat
      /\ \A k \in DOMAIN checks[p] : ScanCheck(checks[p][k])
  BY DEF VettedInv, StoringInv, StoreRow
<1>2. next \in DOMAIN checks[p] /\ next \in Nat
  BY <1>1
<1>3. ScanCheck(new.entry) /\ new \in Row
  BY <1>1, <1>2 DEF Row
<1>4. /\ store' = Append(store, new)
      /\ stored' = [stored EXCEPT ![p] = next]
      /\ UNCHANGED <<subject, checks>>
  BY DEF StoreRow
<1> HIDE DEF new
<1>5. store' \in Seq(Row) /\ OnlyVettedScansAreStored'
  BY <1>3, <1>4 DEF VettedInv, OnlyVettedScansAreStored
<1>6. stored' \in [Procs -> Nat] /\ stored'[p] = next
  BY <1>2, <1>4 DEF VettedInv
<1>7. /\ pc'[p] = "store" => next # Len(checks[p])
      /\ pc'[p] # "start"
  BY <1>6 DEF StoreRow, Goto, AfterStore, AfterManifest, Inv, Shape
<1>8. \A q \in Procs \ {p} : pc'[q] = pc[q] /\ stored'[q] = stored[q]
  BY <1>4 DEF StoreRow, Goto, Inv, Shape, VettedInv
<1> HIDE DEF next
<1>9. StoringInv(p)'
  <2> SUFFICES ASSUME pc'[p] = "store" PROVE next < Len(checks[p])
    BY <1>1, <1>4, <1>6 DEF StoringInv
  <2>1. Len(checks[p]) \in Nat /\ next <= Len(checks[p])
    BY <1>1 DEF next
  <2> QED
    BY <1>2, <1>7, <2>1
<1>10. ASSUME NEW q \in Procs
       PROVE  StoringInv(q)' /\ (pc'[q] = "start" => stored'[q] = 0)
  BY <1>4, <1>7, <1>8, <1>9 DEF VettedInv, StoringInv
<1> QED
  BY <1>5, <1>6, <1>10 DEF VettedInv

\* Every step keeps VettedInv: only two kinds of step touch the store or its queue.
LEMMA VettedStep ==
  ASSUME Inv, VettedInv, [Next]_vars
  PROVE  VettedInv'
<1> USE DEF Inv, Shape
<1>1. ASSUME NEW p \in Procs, Step(p), ~IngestReport(p), ~StoreRow(p)
      PROVE  VettedInv'
  <2>1. UNCHANGED <<store, stored>>
    BY <1>1 DEF Step, HashSubject, Assemble, PutManifest, LoadKey, Sign, MakeTemp,
       WriteTemp, SyncTemp, Replace, Announce, Raise, Kill
  <2>2. /\ \A q \in Procs \ {p} : /\ pc'[q] = pc[q] /\ subject'[q] = subject[q]
                                  /\ checks'[q] = checks[q]
        /\ pc'[p] \notin {"start", "store"}
    BY <1>1 DEF Step, HashSubject, Assemble, PutManifest, LoadKey, Sign, MakeTemp,
       WriteTemp, SyncTemp, Replace, Announce, Raise, Kill, Goto, AfterManifest
  <2> QED
    BY <2>1, <2>2, NothingStored
<1>2. CASE SubjectRewritten \/ DirectoryFlushed \/ UNCHANGED vars
  <2>1. UNCHANGED <<store, stored, pc, subject, checks>>
    BY <1>2 DEF SubjectRewritten, DirectoryFlushed, vars
  <2> QED
    BY <2>1, NothingStored
<1>3. CASE PowerFailure
  <2>1. PICK n \in 0..Len(store) : store' = SubSeq(store, 1, n)
    BY <1>3 DEF PowerFailure
  <2>2. UNCHANGED <<subject, checks, stored>>
        /\ \A q \in Procs : pc'[q] = pc[q] \/ pc'[q] = "killed"
    BY <1>3 DEF PowerFailure
  <2>3. store \in Seq(Row) /\ n \in Nat
    BY <2>1 DEF VettedInv
  <2>4. /\ SubSeq(store, 1, n) \in Seq(Row) /\ Len(SubSeq(store, 1, n)) = n
        /\ \A k \in 1..n : SubSeq(store, 1, n)[k] = store[k] /\ k \in DOMAIN store
    BY <2>1, <2>3
  <2>5. store' \in Seq(Row) /\ OnlyVettedScansAreStored'
    BY <2>1, <2>4 DEF VettedInv, OnlyVettedScansAreStored
  <2> QED
    BY <2>2, <2>5 DEF VettedInv, StoringInv
<1> QED
  BY <1>1, <1>2, <1>3, IngestIsVetted, StoreRowIsVetted DEF Next

LEMMA VettedAtFirst == Init => VettedInv
<1> SUFFICES ASSUME Init PROVE VettedInv
  OBVIOUS
<1>1. store \in Seq(Row) /\ OnlyVettedScansAreStored
  BY ProducerAssumption DEF ParametersOK, Init, OnlyVettedScansAreStored
<1> QED
  BY <1>1 DEF Init, VettedInv, StoringInv

(* No row is stored of a scan that the profile refuses, even by a command  *)
(* that fails later (seed_from_report, _cmd_seal_skillscan).               *)
THEOREM StoredScansAreVetted == Spec => []OnlyVettedScansAreStored
<1>1. Inv /\ VettedInv /\ [Next]_vars => VettedInv'
  BY VettedStep
<1>2. VettedInv => OnlyVettedScansAreStored
  BY DEF VettedInv
<1> QED
  BY <1>1, <1>2, VettedAtFirst, InvIsInvariant, PTL DEF Spec
--------------------------------------------------------------------------------
(* Ranks: RowsFor returns the rows of the digest, all of them, in order.   *)

LEMMA RanksCount ==
  ASSUME NEW S \in SUBSET Nat, IsFiniteSet(S)
  PROVE  /\ Cardinality(S) \in Nat
         /\ \A k \in S : Rank(k, S) \in 1..Cardinality(S)
         /\ \A j, k \in S : Rank(j, S) = Rank(k, S) => j = k
         /\ \A n \in 1..Cardinality(S) : \E k \in S : Rank(k, S) = n
<1> DEFINE Upto(k) == {j \in S : j <= k}
           c       == Cardinality(S)
           rank    == [k \in S |-> Rank(k, S)]
<1>1. c \in Nat
  BY FS_CardinalityType
<1>2. ASSUME NEW k \in S
      PROVE  IsFiniteSet(Upto(k)) /\ Cardinality(Upto(k)) \in Nat
             /\ Cardinality(Upto(k)) = Rank(k, S) /\ Rank(k, S) \in 1..c
  <2>1. Upto(k) \in SUBSET S /\ k \in Upto(k)
    OBVIOUS
  <2>2. IsFiniteSet(Upto(k)) /\ Cardinality(Upto(k)) <= c
    BY <2>1, FS_Subset
  <2>3. Cardinality(Upto(k)) \in Nat
    BY <2>2, FS_CardinalityType
  <2>4. Cardinality(Upto(k)) # 0
    BY <2>1, <2>2, FS_EmptySet
  <2> QED
    BY <1>1, <2>2, <2>3, <2>4 DEF Rank
<1>3. ASSUME NEW j \in S, NEW k \in S, j < k PROVE Rank(j, S) # Rank(k, S)
  <2>0. j \in Nat /\ k \in Nat /\ \A i \in S : i \in Nat
    OBVIOUS
  <2>1. Upto(j) \in SUBSET Upto(k) /\ k \in Upto(k) /\ k \notin Upto(j)
    <3>1. \A i \in Upto(j) : i \in Upto(k)
      BY <1>3, <2>0
    <3>2. k \in Upto(k) /\ k \notin Upto(j)
      BY <1>3, <2>0
    <3> HIDE DEF Upto
    <3> QED
      BY <3>1, <3>2
  <2>2. Upto(j) # Upto(k)
    BY <2>1
  <2> QED
    BY <1>2, <2>1, <2>2, FS_Subset
<1>4. ASSUME NEW j \in S, NEW k \in S, Rank(j, S) = Rank(k, S) PROVE j = k
  <2>1. ~(j < k) /\ ~(k < j) /\ j \in Nat /\ k \in Nat
    BY <1>3, <1>4
  <2> QED
    BY <2>1
<1>5. rank \in Injection(S, 1..c)
  BY <1>2, <1>4 DEF Injection, IsInjective
<1>6. IsFiniteSet(1..c) /\ Cardinality(1..c) = c
  BY <1>1, FS_Interval
<1>7. rank \in Surjection(S, 1..c)
  BY <1>5, <1>6, FS_Injection
<1>8. \A n \in 1..c : \E k \in S : Rank(k, S) = n
  BY <1>7 DEF Surjection
<1> QED
  BY <1>1, <1>2, <1>4, <1>8

LEMMA PlacesAreFinite ==
  ASSUME NEW rows \in Seq(Row), NEW digest
  PROVE  Places(rows, digest) \in SUBSET Nat /\ IsFiniteSet(Places(rows, digest))
<1>1. Len(rows) \in Nat /\ DOMAIN rows = 1..Len(rows)
  OBVIOUS
<1>2. IsFiniteSet(1..Len(rows)) /\ Places(rows, digest) \in SUBSET (1..Len(rows))
  BY <1>1, FS_Interval DEF Places
<1> QED
  BY <1>1, <1>2, FS_Subset

LEMMA RowsForIsFaithful ==
  ASSUME NEW rows \in Seq(Row), NEW digest
  PROVE  /\ RowsFor(rows, digest) \in Seq(Entry)
         /\ SaysAll(RowsFor(rows, digest), rows, digest)
<1> DEFINE own     == Places(rows, digest)
           c       == Cardinality(own)
           at(n)   == CHOOSE k \in own : Rank(k, own) = n
           entries == RowsFor(rows, digest)
<1>1. own \in SUBSET Nat /\ IsFiniteSet(own) /\ own \subseteq DOMAIN rows
  BY PlacesAreFinite DEF Places
<1> HIDE DEF own
<1>2. c \in Nat
  BY <1>1, RanksCount
<1>3. ASSUME NEW n \in 1..c PROVE at(n) \in own /\ Rank(at(n), own) = n
  <2>1. \E k \in own : Rank(k, own) = n
    BY <1>1, RanksCount
  <2> QED
    BY <2>1
<1>4. ASSUME NEW k \in own PROVE Rank(k, own) \in 1..c /\ at(Rank(k, own)) = k
  <2>1. Rank(k, own) \in 1..c
    BY <1>1, RanksCount
  <2>2. at(Rank(k, own)) \in own /\ Rank(at(Rank(k, own)), own) = Rank(k, own)
    BY <1>3, <2>1
  <2> HIDE DEF at
  <2> QED
    BY <1>1, <2>1, <2>2, RanksCount
<1>5. entries = [n \in 1..c |-> rows[at(n)].entry]
  BY DEF RowsFor, own
<1> HIDE DEF at, c, entries
<1>6. \A n \in 1..c : rows[at(n)].entry \in Entry
  <2> TAKE n \in 1..c
  <2>1. at(n) \in DOMAIN rows
    BY <1>1, <1>3
  <2>2. rows[at(n)] \in Row
    BY <2>1
  <2> QED
    BY <2>2 DEF Row
<1>7. entries \in Seq(Entry) /\ Len(entries) = c
  BY <1>2, <1>5, <1>6
<1>8. \A k \in own : entries[Rank(k, own)] = rows[k].entry
  BY <1>4, <1>5
<1> QED
  BY <1>7, <1>8 DEF SaysAll, own, c, entries

--------------------------------------------------------------------------------
(* Types.                                                                  *)

Text == Seal \cup Manifest

(* A command that has got so far has a subject, and what is on its way     *)
(* into a file is the text of one.                                         *)
Equipped(p) ==
    /\ pc[p] \in Earned => subject[p] \in Subject
    /\ pc[p] \in Placing => text[p] \in Text

TypedInv == TypeOK /\ \A p \in Procs : Equipped(p)

LEMMA HashSubjectTyped ==
  ASSUME TypedInv, Inv, Inv', VettedInv, VettedInv', NEW p \in Procs, HashSubject(p)
  PROVE  TypedInv'
<1>1. live \in Content /\ job[p] \in JobType
  BY ProducerAssumption DEF ParametersOK, HashSubject, Inv, Shape
<1>2. [kind |-> job[p].kind, digest |-> Sha256(live), media_type |-> job[p].media_type]
        \in Subject
  BY <1>1 DEF Subject, JobType, Digest
<1>3. Len(store) \in Nat
  BY DEF VettedInv
<1>4. TypeOK'
  BY <1>1, <1>2, <1>3 DEF TypedInv, TypeOK, Inv, Shape, VettedInv, HashSubject, Goto, disk, writing, history, Equipped
<1>5. \A q \in Procs : Equipped(q)'
  BY <1>1, <1>2, <1>3 DEF TypedInv, TypeOK, HashSubject, Goto, disk, writing, history, Equipped, Earned, Placing,
     Writing, AfterStore, AfterManifest
<1> QED
  BY <1>4, <1>5 DEF TypedInv

LEMMA AssembleTyped ==
  ASSUME TypedInv, Inv, Inv', VettedInv, VettedInv', NEW p \in Procs, Assemble(p)
  PROVE  TypedInv'
<1>1. RowsFor(store, subject[p].digest) \in Seq(Entry)
  BY RowsForIsFaithful DEF VettedInv
<1>2. TypeOK'
  BY <1>1 DEF TypedInv, TypeOK, Inv, Shape, VettedInv, Assemble, Goto, disk, writing, history, Equipped
<1>3. \A q \in Procs : Equipped(q)'
  BY <1>1 DEF TypedInv, TypeOK, Assemble, Goto, disk, writing, history, Equipped, Earned, Placing,
     Writing, AfterStore, AfterManifest
<1> QED
  BY <1>2, <1>3 DEF TypedInv

LEMMA IngestReportTyped ==
  ASSUME TypedInv, Inv, Inv', VettedInv, VettedInv', NEW p \in Procs, IngestReport(p)
  PROVE  TypedInv'
<1>1. job[p] \in JobType /\ job[p].report # None /\ live \in Content
  BY ProducerAssumption DEF ParametersOK, IngestReport, Inv, Shape
<1>2. /\ [k \in DOMAIN job[p].report.checks |-> EntryOf(job[p], job[p].report.checks[k])]
           \in Seq(Entry)
      /\ job[p].report.digest \in Digest
  BY <1>1, EntriesOfAScan
<1>3. [kind |-> job[p].kind, digest |-> job[p].report.digest,
       media_type |-> job[p].media_type] \in Subject
  BY <1>1, <1>2 DEF Subject, JobType
<1>4. Len(store) \in Nat
  BY DEF VettedInv
<1>5. TypeOK'
  BY <1>1, <1>2, <1>3, <1>4 DEF TypedInv, TypeOK, Inv, Shape, VettedInv, IngestReport, Goto, disk, writing, history, Equipped
<1>6. \A q \in Procs : Equipped(q)'
  BY <1>1, <1>2, <1>3, <1>4 DEF TypedInv, TypeOK, IngestReport, Goto, disk, writing, history, Equipped, Earned, Placing,
     Writing, AfterStore, AfterManifest
<1> QED
  BY <1>5, <1>6 DEF TypedInv

LEMMA StoreRowTyped ==
  ASSUME TypedInv, Inv, Inv', VettedInv, VettedInv', NEW p \in Procs, StoreRow(p)
  PROVE  TypedInv'
<1>1. TypeOK'
  BY DEF TypedInv, TypeOK, Inv, Shape, VettedInv, StoreRow, Goto, disk, writing, history, Equipped
<1>2. \A q \in Procs : Equipped(q)'
  BY DEF TypedInv, TypeOK, StoreRow, Goto, disk, writing, history, Equipped, Earned, Placing,
     Writing, AfterStore, AfterManifest
<1> QED
  BY <1>1, <1>2 DEF TypedInv

LEMMA PutManifestTyped ==
  ASSUME TypedInv, Inv, Inv', VettedInv, VettedInv', NEW p \in Procs, PutManifest(p)
  PROVE  TypedInv'
<1>1. subject[p] \in Subject
  BY DEF TypedInv, Equipped, PutManifest, Earned
<1>2. [manifest |-> subject[p].digest.sha256] \in Text
  BY <1>1 DEF Subject, Digest, Sha256, Text, Manifest
<1>3. Text = Seal \cup Manifest /\ "manifest" \in Targets
  BY DEF Text, Targets
<1>4. TypeOK'
  BY <1>1, <1>2, <1>3 DEF TypedInv, TypeOK, Inv, Shape, VettedInv, PutManifest, Goto, disk, writing, history, Equipped
<1>5. \A q \in Procs : Equipped(q)'
  BY <1>1, <1>2, <1>3 DEF TypedInv, TypeOK, PutManifest, Goto, disk, writing, history, Equipped, Earned, Placing,
     Writing, AfterStore, AfterManifest
<1> QED
  BY <1>4, <1>5 DEF TypedInv

LEMMA LoadKeyTyped ==
  ASSUME TypedInv, Inv, Inv', VettedInv, VettedInv', NEW p \in Procs, LoadKey(p)
  PROVE  TypedInv'
<1>1. TypeOK'
  BY DEF TypedInv, TypeOK, Inv, Shape, VettedInv, LoadKey, Goto, disk, writing, history, Equipped
<1>2. \A q \in Procs : Equipped(q)'
  BY DEF TypedInv, TypeOK, LoadKey, Goto, disk, writing, history, Equipped, Earned, Placing,
     Writing, AfterStore, AfterManifest
<1> QED
  BY <1>1, <1>2 DEF TypedInv

LEMMA SignTyped ==
  ASSUME TypedInv, Inv, Inv', VettedInv, VettedInv', NEW p \in Procs, Sign(p)
  PROVE  TypedInv'
<1>1. subject[p] \in Subject /\ checks[p] \in Seq(Entry) /\ checks[p] # <<>>
  BY DEF TypedInv, TypeOK, Equipped, Sign, Earned, MaySign, N1Profile
<1>2. ASSUME NEW tier \in {"T1", "T2"}
      PROVE  [tier |-> tier, subject |-> subject[p], checks |-> checks[p]] \in Text
  BY <1>1 DEF Seal, Text
<1>3. Text = Seal \cup Manifest /\ "seal" \in Targets
  BY DEF Text, Targets
<1>4. TypeOK'
  BY <1>1, <1>2, <1>3 DEF TypedInv, TypeOK, Inv, Shape, VettedInv, Sign, Goto, disk, writing, history, Equipped
<1>5. \A q \in Procs : Equipped(q)'
  BY <1>1, <1>2, <1>3 DEF TypedInv, TypeOK, Sign, Goto, disk, writing, history, Equipped, Earned, Placing,
     Writing, AfterStore, AfterManifest
<1> QED
  BY <1>4, <1>5 DEF TypedInv

LEMMA MakeTempTyped ==
  ASSUME TypedInv, Inv, Inv', VettedInv, VettedInv', NEW p \in Procs, MakeTemp(p)
  PROVE  TypedInv'
<1>1. [text |-> Torn, synced |-> FALSE] \in File
  BY DEF File
<1>2. TypeOK'
  BY <1>1 DEF TypedInv, TypeOK, Inv, Shape, VettedInv, MakeTemp, Goto, disk, writing, history, Equipped
<1>3. \A q \in Procs : Equipped(q)'
  BY <1>1 DEF TypedInv, TypeOK, MakeTemp, Goto, disk, writing, history, Equipped, Earned, Placing,
     Writing, AfterStore, AfterManifest
<1> QED
  BY <1>2, <1>3 DEF TypedInv

LEMMA WriteTempTyped ==
  ASSUME TypedInv, Inv, Inv', VettedInv, VettedInv', NEW p \in Procs, WriteTemp(p)
  PROVE  TypedInv'
<1>1. text[p] \in Text
  BY DEF TypedInv, Equipped, WriteTemp, Placing, Writing
<1>2. [text |-> text[p], synced |-> FALSE] \in File
  BY <1>1 DEF File, Text
<1>3. TypeOK'
  BY <1>1, <1>2 DEF TypedInv, TypeOK, Inv, Shape, VettedInv, WriteTemp, Goto, disk, writing, history, Equipped
<1>4. \A q \in Procs : Equipped(q)'
  BY <1>1, <1>2 DEF TypedInv, TypeOK, WriteTemp, Goto, disk, writing, history, Equipped, Earned, Placing,
     Writing, AfterStore, AfterManifest
<1> QED
  BY <1>3, <1>4 DEF TypedInv

LEMMA SyncTempTyped ==
  ASSUME TypedInv, Inv, Inv', VettedInv, VettedInv', NEW p \in Procs, SyncTemp(p)
  PROVE  TypedInv'
<1>1. text[p] \in Text
  BY DEF TypedInv, Equipped, SyncTemp, Placing, Writing
<1>2. [text |-> text[p], synced |-> TRUE] \in File
  BY <1>1 DEF File, Text
<1>3. TypeOK'
  BY <1>1, <1>2 DEF TypedInv, TypeOK, Inv, Shape, VettedInv, SyncTemp, Goto, disk, writing, history, Equipped
<1>4. \A q \in Procs : Equipped(q)'
  BY <1>1, <1>2 DEF TypedInv, TypeOK, SyncTemp, Goto, disk, writing, history, Equipped, Earned, Placing,
     Writing, AfterStore, AfterManifest
<1> QED
  BY <1>3, <1>4 DEF TypedInv

LEMMA ReplaceTyped ==
  ASSUME TypedInv, Inv, Inv', VettedInv, VettedInv', NEW p \in Procs, Replace(p)
  PROVE  TypedInv'
<1>1. text[p] \in Text /\ target[p] \in Targets
      /\ temp[p] = [text |-> text[p], synced |-> TRUE]
  BY DEF TypedInv, Inv, ProcInv, PlacingInv, TempInv, Equipped, Replace, Placing, Writing
<1>2. temp[p] \in File
  BY <1>1 DEF File, Text
<1>3. [by |-> p, target |-> target[p], text |-> temp[p].text]
        \in [by : Procs, target : Targets, text : Seal \cup Manifest]
  BY <1>1 DEF Text
<1>4. TypeOK'
  BY <1>1, <1>2, <1>3 DEF TypedInv, TypeOK, Inv, Shape, VettedInv, Replace, Goto, disk, writing, history, Equipped
<1>5. \A q \in Procs : Equipped(q)'
  BY <1>1, <1>2, <1>3 DEF TypedInv, TypeOK, Replace, Goto, disk, writing, history, Equipped, Earned, Placing,
     Writing, AfterStore, AfterManifest
<1> QED
  BY <1>4, <1>5 DEF TypedInv

LEMMA AnnounceTyped ==
  ASSUME TypedInv, Inv, Inv', VettedInv, VettedInv', NEW p \in Procs, Announce(p)
  PROVE  TypedInv'
<1>1. TypeOK'
  BY DEF TypedInv, TypeOK, Inv, Shape, VettedInv, Announce, Goto, disk, writing, history, Equipped
<1>2. \A q \in Procs : Equipped(q)'
  BY DEF TypedInv, TypeOK, Announce, Goto, disk, writing, history, Equipped, Earned, Placing,
     Writing, AfterStore, AfterManifest
<1> QED
  BY <1>1, <1>2 DEF TypedInv

LEMMA RaiseTyped ==
  ASSUME TypedInv, Inv, Inv', VettedInv, VettedInv', NEW p \in Procs, Raise(p)
  PROVE  TypedInv'
<1>1. TypeOK'
  BY DEF TypedInv, TypeOK, Inv, Shape, VettedInv, Raise, Goto, disk, writing, history, Equipped
<1>2. \A q \in Procs : Equipped(q)'
  BY DEF TypedInv, TypeOK, Raise, Goto, disk, writing, history, Equipped, Earned, Placing,
     Writing, AfterStore, AfterManifest
<1> QED
  BY <1>1, <1>2 DEF TypedInv

LEMMA KillTyped ==
  ASSUME TypedInv, Inv, Inv', VettedInv, VettedInv', NEW p \in Procs, Kill(p)
  PROVE  TypedInv'
<1>1. TypeOK'
  BY DEF TypedInv, TypeOK, Inv, Shape, VettedInv, Kill, Goto, disk, writing, history, Equipped
<1>2. \A q \in Procs : Equipped(q)'
  BY DEF TypedInv, TypeOK, Kill, Goto, disk, writing, history, Equipped, Earned, Placing,
     Writing, AfterStore, AfterManifest
<1> QED
  BY <1>1, <1>2 DEF TypedInv

LEMMA WorldTyped ==
  ASSUME TypedInv, Inv', VettedInv',
         SubjectRewritten \/ DirectoryFlushed \/ PowerFailure \/ UNCHANGED vars
  PROVE  TypedInv'
<1>1. /\ UNCHANGED <<job, subject, checks, stored, target, text, temp, read, began, installed>>
      /\ \A p \in Procs : pc'[p] = pc[p] \/ pc'[p] = "killed"
  BY DEF SubjectRewritten, DirectoryFlushed, PowerFailure, vars, disk, writing, history
<1>2. out' \in [Targets -> File \cup {None}] /\ onDisk' \in [Targets -> File \cup {None}]
  <2>1. CASE SubjectRewritten \/ DirectoryFlushed \/ UNCHANGED vars
    BY <2>1 DEF TypedInv, TypeOK, SubjectRewritten, DirectoryFlushed, vars, disk
  <2>2. CASE PowerFailure
    <3>1. PICK torn \in [Targets -> BOOLEAN] :
             /\ onDisk' = [t \in Targets |-> Survives(onDisk[t], torn[t])]
             /\ out' = onDisk'
      BY <2>2 DEF PowerFailure
    <3>2. [text |-> Torn, synced |-> TRUE] \in File
      BY DEF File
    <3>3. \A t \in Targets : Survives(onDisk[t], torn[t]) \in File \cup {None}
      BY <3>2 DEF Survives, TypedInv, TypeOK
    <3> QED
      BY <3>1, <3>3
  <2> QED
    BY <2>1, <2>2
<1>3. TypeOK'
  BY <1>1, <1>2 DEF TypedInv, TypeOK, Inv, Shape, VettedInv
<1>4. \A p \in Procs : Equipped(p)'
  BY <1>1 DEF TypedInv, Equipped, Earned, Placing, Writing
<1> QED
  BY <1>3, <1>4 DEF TypedInv

LEMMA TypedStep ==
  ASSUME TypedInv, Inv, VettedInv, [Next]_vars
  PROVE  TypedInv'
<1>1. Inv' /\ VettedInv'
  BY NextInv, VettedStep
<1>2. ASSUME NEW p \in Procs, Step(p) PROVE TypedInv'
  BY <1>1, <1>2, HashSubjectTyped, AssembleTyped, IngestReportTyped, StoreRowTyped,
     PutManifestTyped, LoadKeyTyped, SignTyped, MakeTempTyped, WriteTempTyped,
     SyncTempTyped, ReplaceTyped, AnnounceTyped, RaiseTyped, KillTyped DEF Step
<1> QED
  BY <1>1, <1>2, WorldTyped DEF Next

LEMMA TypedInvariant == Spec => [](Inv /\ VettedInv /\ TypedInv)
<1>1. Init => TypedInv
  <2> SUFFICES ASSUME Init PROVE TypedInv
    OBVIOUS
  <2>1. store \in Seq(Row)
    BY VettedAtFirst DEF VettedInv
  <2>2. TypeOK
    BY <2>1 DEF Init, TypeOK, Running
  <2> QED
    BY <2>2 DEF Init, TypedInv, Equipped, Earned, Placing, Writing
<1>2. Inv /\ VettedInv /\ TypedInv /\ [Next]_vars => TypedInv'
  BY TypedStep
<1>3. Inv /\ VettedInv /\ [Next]_vars => VettedInv'
  BY VettedStep
<1> QED
  BY <1>1, <1>2, <1>3, VettedAtFirst, InvIsInvariant, PTL DEF Spec

(* Every reachable state of the commands, the disk and the store is well   *)
(* typed: what is renamed into place is a seal or a manifest, and what a   *)
(* seal holds are entries (__main__.py, seal.py).                          *)
THEOREM Typing == Spec => []TypeOK
<1>1. TypedInv => TypeOK
  BY DEF TypedInv
<1> QED
  BY <1>1, TypedInvariant, PTL

--------------------------------------------------------------------------------
(* What a seal says of the store.                                          *)

Scanning(p) == job[p].cmd = "seal-skillscan"
ToSeal      == {"key", "sign"} \cup Placing

(* The checks of p so far stored have rows, its own or another's.          *)
HasRows(p) ==
    \A k \in 1..stored[p] : \E r \in DOMAIN store :
        store[r] = [subject |-> subject[p], entry |-> checks[p][k]]

SaidAtOnce(p) ==
    \E n \in began[p]..Len(store) :
        SaysAll(checks[p], SubSeq(store, 1, n), subject[p].digest)

WholeInv(p) ==
    /\ pc[p] = "assemble" => ~Scanning(p)
    /\ pc[p] \in {"store", "manifest"} => Scanning(p)
    /\ pc[p] = "assemble" => began[p] <= Len(store)
    /\ pc[p] \in ToSeal /\ ~Scanning(p) => SaidAtOnce(p)
    /\ pc[p] \in {"store", "manifest"} \cup ToSeal /\ Scanning(p) => HasRows(p)
    /\ pc[p] \in {"manifest"} \cup ToSeal /\ Scanning(p) => stored[p] = Len(checks[p])
    /\ pc[p] \in Placing /\ target[p] = "seal" =>
          text[p].subject = subject[p] /\ text[p].checks = checks[p]

Grows == store' = store \/ \E row \in Row : store' = Append(store, row)

(* A store that has grown still says what it said.                         *)
LEMMA GrownStore ==
  ASSUME store \in Seq(Row), Grows
  PROVE  /\ Len(store) \in Nat /\ Len(store') \in Nat /\ Len(store) <= Len(store')
         /\ \A r \in DOMAIN store : r \in DOMAIN store' /\ store'[r] = store[r]
         /\ \A n \in 0..Len(store) : SubSeq(store', 1, n) = SubSeq(store, 1, n)
<1>1. Len(store) \in Nat /\ DOMAIN store = 1..Len(store)
  OBVIOUS
<1>2. CASE store' = store
  BY <1>1, <1>2
<1>3. ASSUME NEW row \in Row, store' = Append(store, row)
      PROVE  /\ Len(store') = Len(store) + 1
             /\ \A r \in DOMAIN store : r \in DOMAIN store' /\ store'[r] = store[r]
             /\ \A n \in 0..Len(store) : SubSeq(store', 1, n) = SubSeq(store, 1, n)
  <2>1. /\ Len(store') = Len(store) + 1 /\ DOMAIN store' = 1..(Len(store) + 1)
        /\ \A r \in 1..Len(store) : store'[r] = store[r]
    BY <1>3
  <2>2. ASSUME NEW n \in 0..Len(store) PROVE SubSeq(store', 1, n) = SubSeq(store, 1, n)
    <3>1. n \in Nat /\ \A k \in 1..n : store'[k] = store[k]
      BY <1>1, <2>1
    <3>2. /\ SubSeq(store', 1, n) = [k \in 1..n |-> store'[k]]
          /\ SubSeq(store, 1, n) = [k \in 1..n |-> store[k]]
      BY <3>1 DEF SubSeq
    <3> QED
      BY <3>1, <3>2
  <2>3. \A r \in DOMAIN store : r \in DOMAIN store' /\ store'[r] = store[r]
    BY <1>1, <2>1
  <2> QED
    BY <2>1, <2>2, <2>3
<1> QED
  BY <1>1, <1>2, <1>3 DEF Grows

(* What p knows stays true while p is left alone, and when it ends.        *)
LEMMA WholeStays ==
  ASSUME TypedInv, NEW p \in Procs, WholeInv(p), job' = job,
         pc'[p] = pc[p] \/ pc'[p] \in Settled,
         subject'[p] = subject[p], checks'[p] = checks[p], stored'[p] = stored[p],
         target'[p] = target[p], text'[p] = text[p], began'[p] = began[p],
         Grows
  PROVE  WholeInv(p)'
<1>1. /\ Len(store) \in Nat /\ Len(store') \in Nat /\ Len(store) <= Len(store')
      /\ \A r \in DOMAIN store : r \in DOMAIN store' /\ store'[r] = store[r]
      /\ \A n \in 0..Len(store) : SubSeq(store', 1, n) = SubSeq(store, 1, n)
  BY GrownStore DEF TypedInv, TypeOK
<1>2. began[p] \in Nat
  BY DEF TypedInv, TypeOK
<1>3. Scanning(p)' <=> Scanning(p)
  BY DEF Scanning
<1>4. HasRows(p) => HasRows(p)'
  BY <1>1 DEF HasRows
<1>5. SaidAtOnce(p) => SaidAtOnce(p)'
  <2> SUFFICES ASSUME SaidAtOnce(p) PROVE SaidAtOnce(p)'
    OBVIOUS
  <2>1. PICK n \in began[p]..Len(store) :
           SaysAll(checks[p], SubSeq(store, 1, n), subject[p].digest)
    BY DEF SaidAtOnce
  <2>2. n \in 0..Len(store) /\ n \in began'[p]..Len(store')
    BY <1>1, <1>2, <2>1
  <2>3. SubSeq(store', 1, n) = SubSeq(store, 1, n)
    BY <1>1, <2>2
  <2>4. SaysAll(checks'[p], SubSeq(store', 1, n), subject'[p].digest)
    BY <2>1, <2>3
  <2> QED
    BY <2>2, <2>4 DEF SaidAtOnce
<1>6. CASE pc'[p] \in Settled
  BY <1>6 DEF WholeInv, Settled, Ended, ToSeal, Placing, Writing
<1>7. CASE pc'[p] = pc[p]
  BY <1>1, <1>2, <1>3, <1>4, <1>5, <1>7 DEF WholeInv
<1> QED
  BY <1>6, <1>7

(* A step that moves a command on but neither stores nor signs.            *)
LEMMA MovesOn ==
  ASSUME TypedInv, NEW p \in Procs, WholeInv(p), UNCHANGED <<job, store>>,
         subject'[p] = subject[p], checks'[p] = checks[p], stored'[p] = stored[p],
         began'[p] = began[p],
         pc[p] \in {"manifest"} \cup ToSeal, pc'[p] \in ToSeal \cup Settled,
         pc'[p] \in Placing /\ target'[p] = "seal" =>
             text'[p].subject = subject[p] /\ text'[p].checks = checks[p]
  PROVE  WholeInv(p)'
<1>1. Scanning(p)' <=> Scanning(p)
  BY DEF Scanning
<1>2. HasRows(p) => HasRows(p)'
  BY DEF HasRows
<1>3. SaidAtOnce(p) => SaidAtOnce(p)'
  BY DEF SaidAtOnce
<1> QED
  BY <1>1, <1>2, <1>3 DEF WholeInv, Settled, Ended, ToSeal, Placing, Writing

LEMMA HashSubjectWhole ==
  ASSUME TypedInv, NEW p \in Procs, HashSubject(p)
  PROVE  WholeInv(p)'
<1>1. /\ pc'[p] = "assemble" /\ began'[p] = Len(store) /\ store' = store /\ job' = job
      /\ job[p].cmd \in {"seal", "seal-keyless"} /\ Len(store) \in Nat
  BY DEF TypedInv, TypeOK, HashSubject, Goto
<1> QED
  BY <1>1 DEF WholeInv, Scanning, ToSeal, Placing, Writing

LEMMA AssembleWhole ==
  ASSUME TypedInv, NEW p \in Procs, WholeInv(p), Assemble(p)
  PROVE  WholeInv(p)'
<1>1. /\ pc[p] = "assemble" /\ pc'[p] \in {"key", "sign"}
      /\ checks'[p] = RowsFor(store, subject[p].digest)
      /\ began' = began /\ store' = store /\ job' = job /\ subject' = subject
  BY DEF TypedInv, TypeOK, Assemble, Goto, history
<1>2. store \in Seq(Row) /\ Len(store) \in Nat /\ SubSeq(store, 1, Len(store)) = store
  BY DEF TypedInv, TypeOK
<1>3. SaysAll(checks'[p], store, subject[p].digest)
  BY <1>1, <1>2, RowsForIsFaithful
<1>4. began[p] \in Nat /\ began[p] <= Len(store) /\ ~Scanning(p)
  BY <1>1 DEF WholeInv, TypedInv, TypeOK
<1>5. SaidAtOnce(p)'
  <2>1. Len(store) \in began[p]..Len(store)
    BY <1>2, <1>4
  <2> QED
    BY <1>1, <1>2, <1>3, <2>1 DEF SaidAtOnce
<1> QED
  BY <1>1, <1>4, <1>5 DEF WholeInv, Scanning, ToSeal, Placing, Writing

LEMMA IngestReportWhole ==
  ASSUME TypedInv, VettedInv, NEW p \in Procs, IngestReport(p)
  PROVE  WholeInv(p)'
<1>1. /\ pc'[p] = "store" /\ job' = job /\ job[p].cmd = "seal-skillscan"
      /\ stored'[p] = 0
  BY DEF TypedInv, TypeOK, VettedInv, IngestReport, Goto
<1> QED
  BY <1>1 DEF WholeInv, Scanning, HasRows, ToSeal, Placing, Writing

LEMMA StoreRowWhole ==
  ASSUME TypedInv, VettedInv, VettedInv', NEW p \in Procs, WholeInv(p), StoreRow(p)
  PROVE  WholeInv(p)'
<1> DEFINE next == stored[p] + 1
           new  == [subject |-> subject[p], entry |-> checks[p][next]]
<1>1. /\ pc[p] = "store" /\ store' = Append(store, new) /\ stored'[p] = next
      /\ job' = job /\ subject' = subject /\ checks' = checks
      /\ pc'[p] = IF next = Len(checks[p]) THEN AfterStore(job[p]) ELSE "store"
  BY DEF TypedInv, TypeOK, StoreRow, Goto
<1>2. /\ subject[p] \in Subject /\ checks[p] \in Seq(Entry) /\ stored[p] \in Nat
      /\ next \in DOMAIN checks[p] /\ store \in Seq(Row)
  BY <1>1 DEF VettedInv, StoringInv
<1>3. new \in Row
  BY <1>2 DEF Row
<1>4. Scanning(p) /\ HasRows(p)
  BY <1>1 DEF WholeInv
<1>5. pc'[p] \in {"store", "manifest", "key", "announce"}
  BY <1>1 DEF AfterStore, AfterManifest
<1>6. HasRows(p)'
  <2> SUFFICES ASSUME NEW k \in 1..next
               PROVE  \E r \in DOMAIN store' :
                         store'[r] = [subject |-> subject[p], entry |-> checks[p][k]]
    BY <1>1 DEF HasRows
  <2> DEFINE end == Len(store) + 1
  <2>1. /\ \A r \in DOMAIN store : r \in DOMAIN store' /\ store'[r] = store[r]
        /\ end \in DOMAIN store' /\ store'[end] = new
    <3> HIDE DEF new
    <3> QED
      BY <1>1, <1>2, <1>3
  <2>2. CASE k = next
    BY <2>1, <2>2
  <2>3. CASE k \in 1..stored[p]
    <3>1. PICK r \in DOMAIN store :
             store[r] = [subject |-> subject[p], entry |-> checks[p][k]]
      BY <1>4, <2>3 DEF HasRows
    <3> QED
      BY <2>1, <3>1
  <2> QED
    BY <1>2, <2>2, <2>3
<1>7. pc'[p] # "store" => stored'[p] = Len(checks'[p])
  BY <1>1
<1> HIDE DEF next, new
<1> QED
  BY <1>1, <1>4, <1>5, <1>6, <1>7 DEF WholeInv, Scanning, ToSeal, Placing, Writing

LEMMA OneMoves ==
  ASSUME TypedInv, Inv, VettedInv, VettedInv', NEW p \in Procs, WholeInv(p), Step(p)
  PROVE  WholeInv(p)'
<1>1. CASE PutManifest(p) \/ LoadKey(p)
  <2>1. /\ pc[p] \in {"manifest", "key"} /\ pc'[p] \in {"mktemp", "sign"}
        /\ UNCHANGED <<job, store, subject, checks, stored, began>>
        /\ pc'[p] \in Placing => target'[p] = "manifest"
    BY <1>1 DEF PutManifest, LoadKey, TypedInv, TypeOK, Goto, history, writing,
       Placing, Writing
  <2> QED
    BY <2>1, MovesOn DEF ToSeal, Placing
<1>2. CASE Sign(p)
  <2>1. /\ pc[p] = "sign" /\ pc'[p] = "mktemp"
        /\ UNCHANGED <<job, store, subject, checks, stored, began>>
        /\ text'[p].subject = subject[p] /\ text'[p].checks = checks[p]
    BY <1>2 DEF Sign, TypedInv, TypeOK, Goto, history
  <2> QED
    BY <2>1, MovesOn DEF ToSeal, Placing
<1>3. CASE MakeTemp(p) \/ WriteTemp(p) \/ SyncTemp(p)
  <2>1. /\ pc[p] \in Placing /\ pc'[p] \in Placing
        /\ UNCHANGED <<job, store, subject, checks, stored, began, target, text>>
    BY <1>3 DEF MakeTemp, WriteTemp, SyncTemp, TypedInv, TypeOK, Goto, history,
       Placing, Writing
  <2> QED
    BY <2>1, MovesOn DEF ToSeal, WholeInv
<1>4. CASE Replace(p)
  <2>1. /\ pc[p] \in Placing /\ pc'[p] \in {"key", "announce"}
        /\ UNCHANGED <<job, store, subject, checks, stored, began>>
    BY <1>4 DEF Replace, TypedInv, TypeOK, Goto, history, Placing, Writing, AfterManifest
  <2>2. "key" \notin Placing /\ "announce" \notin Placing
    BY DEF Placing, Writing
  <2> QED
    BY <2>1, <2>2, MovesOn DEF ToSeal, Settled
<1>5. CASE Announce(p) \/ Raise(p) \/ Kill(p)
  <2>1. /\ pc'[p] \in Settled
        /\ UNCHANGED <<job, store, subject, checks, stored, began, target, text>>
    BY <1>5 DEF Announce, Raise, Kill, TypedInv, TypeOK, Goto, history, writing,
       Settled, Ended
  <2> QED
    BY <2>1, WholeStays DEF Grows
<1> QED
  BY <1>1, <1>2, <1>3, <1>4, <1>5, HashSubjectWhole, AssembleWhole, IngestReportWhole,
     StoreRowWhole DEF Step

LEMMA OthersStay ==
  ASSUME TypedInv, VettedInv, NEW p \in Procs, Step(p), NEW q \in Procs \ {p}, WholeInv(q)
  PROVE  WholeInv(q)'
<1>1. Grows
  <2>1. CASE StoreRow(p)
    <3>1. /\ pc[p] = "store"
          /\ store' = Append(store, [subject |-> subject[p],
                                     entry |-> checks[p][stored[p] + 1]])
      BY <2>1 DEF StoreRow
    <3>2. subject[p] \in Subject /\ checks[p][stored[p] + 1] \in Entry
      BY <3>1 DEF VettedInv, StoringInv
    <3>3. [subject |-> subject[p], entry |-> checks[p][stored[p] + 1]] \in Row
      BY <3>2 DEF Row
    <3> QED
      BY <3>1, <3>3 DEF Grows
  <2>2. CASE ~StoreRow(p)
    BY <2>2 DEF Grows, Step, HashSubject, Assemble, IngestReport, PutManifest, LoadKey,
       Sign, MakeTemp, WriteTemp, SyncTemp, Replace, Announce, Raise, Kill
  <2> QED
    BY <2>1, <2>2
<1>2. /\ job' = job /\ pc'[q] = pc[q] /\ subject'[q] = subject[q] /\ checks'[q] = checks[q]
      /\ stored'[q] = stored[q] /\ target'[q] = target[q] /\ text'[q] = text[q]
      /\ began'[q] = began[q]
  BY DEF TypedInv, TypeOK, Step, HashSubject, Assemble, IngestReport, StoreRow,
     PutManifest, LoadKey, Sign, MakeTemp, WriteTemp, SyncTemp, Replace, Announce,
     Raise, Kill, Goto, history, writing
<1> QED
  BY <1>1, <1>2, WholeStays

LEMMA WholeStep ==
  ASSUME TypedInv, Inv, VettedInv, \A p \in Procs : WholeInv(p), [Next]_vars
  PROVE  \A p \in Procs : WholeInv(p)'
<1>1. VettedInv'
  BY VettedStep
<1>2. ASSUME NEW p \in Procs, Step(p) PROVE \A q \in Procs : WholeInv(q)'
  BY <1>1, <1>2, OneMoves, OthersStay
<1>3. CASE SubjectRewritten \/ DirectoryFlushed \/ UNCHANGED vars
  <2>1. UNCHANGED <<job, pc, store, subject, checks, stored, target, text, began>>
    BY <1>3 DEF SubjectRewritten, DirectoryFlushed, vars, writing, history
  <2> QED
    BY <2>1, WholeStays DEF Grows
<1>4. CASE PowerFailure
  <2>1. \A p \in Procs : pc'[p] = IF pc[p] \in Running \ {"start"} THEN "killed" ELSE pc[p]
    BY <1>4 DEF PowerFailure
  <2>2. \A p \in Procs : pc'[p] \in {"start"} \cup Ended
    BY <2>1 DEF TypedInv, TypeOK, Ended
  <2> QED
    BY <2>2 DEF WholeInv, Ended, ToSeal, Placing, Writing
<1> QED
  BY <1>2, <1>3, <1>4 DEF Next

(* The seal that is put in place says what the store said, or what it says. *)
LEMMA ReplaceTells ==
  ASSUME TypedInv, Inv, NEW p \in Procs, WholeInv(p), Replace(p),
         NEW i \in installed' \ installed, i.target = "seal"
  PROVE  TellsTheWholeStore(i)
<1>1. /\ pc[p] = "replace" /\ i.by = p /\ i.target = target[p] /\ i.text = temp[p].text
  BY DEF Replace
<1>2. temp[p].text = text[p]
  <2>1. ProcInv(p)
    BY DEF Inv
  <2>2. temp[p] = [text |-> text[p], synced |-> TRUE]
    BY <1>1, <2>1 DEF ProcInv, TempInv
  <2> QED
    BY <2>2
<1>3. /\ i.text.subject = subject[p] /\ i.text.checks = checks[p]
      /\ pc[p] \in ToSeal
  BY <1>1, <1>2 DEF WholeInv, ToSeal, Placing, Writing
<1>4. CASE Scanning(p)
  <2>1. HasRows(p) /\ stored[p] = Len(checks[p]) /\ checks[p] \in Seq(Entry)
    BY <1>3, <1>4 DEF WholeInv, TypedInv, TypeOK
  <2>2. \A entry \in Elements(i.text.checks) : \E k \in DOMAIN store :
           store[k] = [subject |-> i.text.subject, entry |-> entry]
    BY <1>3, <2>1 DEF HasRows, Elements
  <2> QED
    BY <1>1, <1>4, <2>2 DEF TellsTheWholeStore, Scanning
<1>5. CASE ~Scanning(p)
  <2>1. SaidAtOnce(p)
    BY <1>3, <1>5 DEF WholeInv
  <2> QED
    BY <1>1, <1>3, <1>5, <2>1 DEF TellsTheWholeStore, Scanning, SaidAtOnce
<1> QED
  BY <1>4, <1>5

(* A seal of seal or seal-keyless put in place tells all that the store    *)
(* said of its subject at one instant since its command began.  One of     *)
(* seal-skillscan tells only of its scan, each check of which is in the    *)
(* store by then.  (seal.py: assemble; __main__.py: _cmd_seal_skillscan.)  *)
THEOREM SealsTellAll == Spec => SealsTellTheWholeStore
<1> DEFINE Whole == \A p \in Procs : WholeInv(p)
<1>1. Init => Whole
  BY DEF Init, WholeInv, ToSeal, Placing, Writing
<1>2. Inv /\ VettedInv /\ TypedInv /\ Whole /\ [Next]_vars => Whole'
  BY WholeStep
<1>3. Inv /\ TypedInv /\ Whole /\ [Next]_vars =>
      [\A i \in installed' \ installed : i.target = "seal" => TellsTheWholeStore(i)]_vars
  <2> SUFFICES ASSUME Inv, TypedInv, Whole, Next, NEW i \in installed' \ installed,
                      i.target = "seal"
               PROVE  TellsTheWholeStore(i)
    OBVIOUS
  <2>1. \E p \in Procs : Replace(p)
    BY DEF Next, Step, HashSubject, Assemble, IngestReport, StoreRow, PutManifest,
       LoadKey, Sign, MakeTemp, WriteTemp, SyncTemp, Announce, Raise, Kill,
       SubjectRewritten, DirectoryFlushed, PowerFailure, disk
  <2> QED
    BY <2>1, ReplaceTells
<1> HIDE DEF Whole
<1> QED
  BY <1>1, <1>2, <1>3, TypedInvariant, PTL DEF Spec, SealsTellTheWholeStore

=============================================================================
