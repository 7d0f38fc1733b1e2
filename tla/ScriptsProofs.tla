----------------------------- MODULE ScriptsProofs -----------------------------
(***************************************************************************)
(* For any commands, jobs, files and rewrites: what the producer scripts   *)
(* of Scripts put into the store is backed by what they read, and what     *)
(* they seal is all of it.                                                 *)
(*                                                                         *)
(* The argument follows the data.  What a command holds at a step was in   *)
(* its files while it ran (DataInv); its rows are its entries, numbered,   *)
(* in the store's order (StoreInv); a seal is a copy of rows of the store  *)
(* (SealsInv); and the only owner of an output file knows what is in it    *)
(* (OutInv).  Once a command has stored a row its data are fixed, so what  *)
(* was said of its rows stays true.                                        *)
(***************************************************************************)
EXTENDS Scripts, TLAPS

Scripted == {"judge", "harness", "manual"}     \* the kinds that append rows
Before   == {"start", "read", "walk", "hash", "pin"}
Signed   == {"open", "write", "done"}

Kinded(p, kinds) == job[p].kind \in kinds

(* Everything is as it is in the files p has seen. *)
SinceInv == \A p \in Running : \A path \in Path : files[path] \in since[p][path]

KindOf(p) ==
    /\ pc[p] = "walk" => Kinded(p, {"skillscan"})
    /\ pc[p] = "read" => ~Kinded(p, {"keyless"})
    /\ pc[p] \in {"hash", "assemble", "open", "write"} => ~Kinded(p, {"skillscan"})
    /\ pc[p] = "pin" => Kinded(p, {"harness", "manual"})
    /\ pc[p] = "open" => ~Kinded(p, {"keyless"})
    /\ pc[p] \in {"assemble", "open", "write"} => job[p].out \in Out
KindInv == \A p \in Procs : KindOf(p)

Vetted(p) == held[p] \in WasThere(p, job[p].source) /\ Vets(job[p].kind, held[p])
Hashed(p) == /\ digest[p] \in {Sha256(c) : c \in WasThere(p, job[p].subject)}
             /\ AboutSubject(job[p].kind, held[p], digest[p])
Pinned(p) == pinned[p] \in {Sha256(c) : c \in WasThere(p, job[p].source)}

(* All that the rows of p are made of is known. *)
Ready(p) == /\ Kinded(p, Scripted) /\ Vetted(p) /\ Hashed(p)
            /\ ~Kinded(p, {"judge"}) => Pinned(p)

DataOf(p) ==
    /\ pc[p] \in {"walk", "hash", "pin"} /\ ~Kinded(p, {"keyless"}) => Vetted(p)
    /\ pc[p] = "pin" => Hashed(p)
    /\ pc[p] \in {"assemble", "open", "write"} => digest[p] \in Digest
    /\ pc[p] = "append" \/ next[p] > 0 => Ready(p) /\ next[p] <= Len(Entries(p))
    /\ pc[p] \in Before => next[p] = 0
    /\ pc[p] \notin Before \cup {"append", "stopped"} /\ next[p] > 0 => AllAppended(p)
    /\ pc[p] \in {"assemble"} \cup Signed /\ Kinded(p, Scripted) =>
               next[p] > 0 /\ AllAppended(p)
DataInv == \A p \in Procs : DataOf(p)

IsRowOf(row, p) == /\ row.subject = digest[p]
                   /\ row.nth \in 1..next[p]
                   /\ <<row.entry, row.evidence>> = Entries(p)[row.nth]

StoreInv ==
    /\ \A k \in DOMAIN store : IsRowOf(store[k], store[k].by)
    /\ \A p \in Procs : \A n \in 1..next[p] :
          \E k \in DOMAIN store : store[k].by = p /\ store[k].nth = n
    /\ \A j, k \in DOMAIN store :
          j < k /\ store[j].by = store[k].by => store[j].nth < store[k].nth

(* Of two judge runs that never ran at one time one ended without a row.   *)
EndedBare(p) == pc[p] \in Ended /\ next[p] = 0

MetInv ==
    \A p, q \in Procs :
        /\ p # q /\ Kinded(p, {"judge"}) /\ Kinded(q, {"judge"})
        /\ pc[p] # "start" /\ pc[q] # "start" /\ {p, q} \notin met
        => EndedBare(p) \/ EndedBare(q)

Fragments == {Absent, Truncated, Mixed}

(* A seal is a copy of rows of the store; it has all or none of a command. *)
IsWhole(s) ==
    /\ IsSeal(s)
    /\ \A k \in DOMAIN s.rows : k \in DOMAIN store /\ s.rows[k] = store[k]
    /\ \A p \in Procs \ s.during :
          OwnIn(s, p) # {} /\ pc[p] # "stopped" => AllAppended(p) /\ HasAll(s, p)

SealsInv ==
    /\ \A p \in Procs : pc[p] \in {"open", "write"} => IsWhole(seal[p])
    /\ \A out \in Out : outs[out] \in Fragments \/ IsWhole(outs[out])

SoleOwner(p) == /\ Kinded(p, Scripted) /\ job[p].out # None
                /\ \A q \in Procs \ {p} : job[q].out # job[p].out

OutOf(p) ==
    /\ pc[p] \in {"open", "write"} => HasAll(seal[p], p)
    /\ pc[p] = "write" => outs[job[p].out] = Truncated
    /\ pc[p] = "done" => IsWhole(outs[job[p].out]) /\ HasAll(outs[job[p].out], p)
OutInv == \A p \in Procs : SoleOwner(p) => OutOf(p)

Inv == /\ TypeOK
       /\ job \in Jobs
       /\ SinceInv
       /\ KindInv
       /\ DataInv
       /\ StoreInv
       /\ MetInv
       /\ SealsInv
       /\ OutInv

--------------------------------------------------------------------------------
(* What the constants give.                                                *)

LEMMA TheJobs ==
    ASSUME job \in Jobs, NEW p \in Procs
    PROVE  /\ job \in [Procs -> Job] /\ job[p] \in Job
           /\ ~Kinded(p, {"keyless"}) => job[p].source \in Path
           /\ ~Kinded(p, {"skillscan"}) => job[p].subject \in Path
           /\ Kinded(p, {"judge"}) => job[p].subject = job[p].source
           /\ Kinded(p, {"keyless"}) => job[p].out \in Out
BY ScriptsAssumption DEF Kinded

LEMMA Readings ==
    ASSUME NEW content \in Content
    PROVE  /\ Sha256(content) \in Digest
           /\ JudgeVets(content) => ReceiptOf(content) \in Seq(Record) \ {<<>>}
           /\ HarnessVets(content) =>
                 /\ LastSegment(ReportOf(content).threat_class) \in ThreatClass
                 /\ ReportOf(content).config_sha256 \in ConfigRef
           /\ RightsOf(content) # IllTyped => RightsOf(content).ledger \in Evidence
<1>1. Sha256(content) \in Digest
  BY DEF Digest
<1>2. JudgeVets(content) => ReceiptOf(content) \in Seq(Record) \ {<<>>}
  BY ScriptsAssumption DEF JudgeVets
<1>3. HarnessVets(content) =>
          /\ LastSegment(ReportOf(content).threat_class) \in ThreatClass
          /\ ReportOf(content).config_sha256 \in ConfigRef
  BY ScriptsAssumption DEF HarnessVets
<1> QED
  BY <1>1, <1>2, <1>3, ScriptsAssumption

LEMMA ShortLists ==
    ASSUME NEW S, NEW a \in S, NEW b \in S
    PROVE  /\ <<a>> \in Seq(S) /\ <<a>> # <<>>
           /\ <<a, b>> \in Seq(S) /\ <<a, b>> # <<>>
OBVIOUS

(* What a script is to append is a sequence of checks with their evidence. *)
LEMMA EntriesOfKinds ==
    ASSUME NEW kind \in Scripted, NEW content \in Content, NEW pin,
           Vets(kind, content), kind # "judge" => pin \in Digest
    PROVE  /\ ToAppend(kind, content, pin) \in Seq(CheckEntry \X Evidence)
           /\ ToAppend(kind, content, pin) # <<>>
<1>1. CASE kind = "judge"
  <2> DEFINE receipt == ReceiptOf(content)
  <2>1. receipt \in Seq(Record) /\ receipt # <<>>
    BY <1>1, Readings DEF Vets
  <2>2. \A k \in DOMAIN receipt :
            <<JudgeEntry(receipt[k]), receipt[k].evidence>> \in CheckEntry \X Evidence
    <3> TAKE k \in DOMAIN receipt
    <3>1. JudgeRecord(receipt[k])
      BY <1>1 DEF Vets, JudgeVets
    <3>2. receipt[k] \in Record
      BY <2>1
    <3> HIDE DEF receipt
    <3>3. JudgeEntry(receipt[k]) \in CheckEntry
      BY <3>1, <3>2 DEF JudgeRecord, JudgeEntry, Record, CheckEntry, Check, CheckId,
         Verdict, Namespace, CheckKind, Enforced, Grade, Authority
    <3>4. receipt[k].evidence \in Evidence
      BY <3>2 DEF Record, Evidence
    <3> QED
      BY <3>3, <3>4
  <2>3. ToAppend(kind, content, pin) =
            [k \in 1..Len(receipt) |-> <<JudgeEntry(receipt[k]), receipt[k].evidence>>]
    BY <1>1, <2>1 DEF ToAppend
  <2> QED
    BY <2>1, <2>2, <2>3
<1>2. CASE kind = "harness"
  <2>1. HarnessEntry(ReportOf(content), pin) \in CheckEntry
    <3>1. /\ LastSegment(ReportOf(content).threat_class) \in ThreatClass
          /\ ReportOf(content).config_sha256 \in ConfigRef /\ pin \in Digest
      BY <1>2, Readings DEF Vets
    <3> QED
      BY <3>1, ScriptsAssumption DEF HarnessEntry, CheckEntry, Check, CheckId, Verdict,
         EnforcedProof, Namespace, CheckKind, Results, Enforced, Grade, Authority
  <2>2. ToAppend(kind, content, pin) = <<<<HarnessEntry(ReportOf(content), pin), pin>>>>
    BY <1>2 DEF ToAppend
  <2>3. <<HarnessEntry(ReportOf(content), pin), pin>> \in CheckEntry \X Evidence
    BY <1>2, <2>1 DEF Evidence
  <2> QED
    BY <2>2, <2>3, ShortLists
<1>3. CASE kind = "manual"
  <2>1. /\ ManualEntry("rights-gate") \in CheckEntry
        /\ ManualEntry("provenance-ledger") \in CheckEntry
    BY ScriptsAssumption DEF ManualEntry, CheckEntry, Check, CheckId, Verdict,
       Namespace, CheckKind, Results, Enforced, Grade, Authority
  <2>2. RightsOf(content).ledger \in Evidence
    BY <1>3, Readings DEF Vets
  <2>3. ToAppend(kind, content, pin) =
            <<<<ManualEntry("rights-gate"), pin>>,
              <<ManualEntry("provenance-ledger"), RightsOf(content).ledger>>>>
    BY <1>3 DEF ToAppend
  <2>4. /\ <<ManualEntry("rights-gate"), pin>> \in CheckEntry \X Evidence
        /\ <<ManualEntry("provenance-ledger"), RightsOf(content).ledger>>
              \in CheckEntry \X Evidence
    BY <1>3, <2>1, <2>2 DEF Evidence
  <2> QED
    BY <2>3, <2>4, ShortLists
<1> QED
  BY <1>1, <1>2, <1>3 DEF Scripted

LEMMA EntriesTyped ==
    ASSUME TypeOK, job \in Jobs, NEW p \in Procs, Ready(p)
    PROVE  /\ Entries(p) \in Seq(CheckEntry \X Evidence) /\ Entries(p) # <<>>
           /\ digest[p] \in Digest
           /\ Len(Entries(p)) \in Nat /\ Len(Entries(p)) > 0
           /\ DOMAIN Entries(p) = 1..Len(Entries(p))
<1>1. job[p].source \in Path /\ job[p].subject \in Path /\ job[p].kind \in Scripted
  BY TheJobs DEF Ready, Kinded, Scripted
<1>2. \A path \in Path : WasThere(p, path) \subseteq Content
  BY DEF TypeOK, InputsTypeOK, WasThere, Entry
<1>3. held[p] \in Content /\ Vets(job[p].kind, held[p])
  BY <1>1, <1>2 DEF Ready, Vetted
<1>4. digest[p] \in Digest
  BY <1>1, <1>2, Readings DEF Ready, Hashed
<1>5. job[p].kind # "judge" => pinned[p] \in Digest
  BY <1>1, <1>2, Readings DEF Ready, Pinned, Kinded
<1>6. Entries(p) \in Seq(CheckEntry \X Evidence) /\ Entries(p) # <<>>
  BY <1>1, <1>3, <1>5, EntriesOfKinds DEF Entries
<1> QED
  BY <1>4, <1>6

--------------------------------------------------------------------------------
(* What a step leaves alone.                                               *)

(* Nobody but p is touched. *)
OnlyOf(p) ==
    /\ job' = job
    /\ \A q \in Procs \ {p} :
          /\ pc'[q] = pc[q] /\ held'[q] = held[q] /\ digest'[q] = digest[q]
          /\ pinned'[q] = pinned[q] /\ seal'[q] = seal[q] /\ next'[q] = next[q]
          /\ walk'[q] = walk[q] /\ since'[q] = since[q]

LEMMA StepsAreOnesOwn ==
    ASSUME TypeOK, NEW p \in Procs, Step(p)
    PROVE  OnlyOf(p)
<1> USE DEF TypeOK, InputsTypeOK, OnlyOf, Goto, inputVars, memory, storing
<1>1. CASE Start(p)
  BY <1>1 DEF Start, Begin
<1>2. CASE Read(p)
  BY <1>2 DEF Read, StartWalk
<1>3. CASE Hash(p)
  BY <1>3 DEF Hash
<1>4. CASE Pin(p)
  BY <1>4 DEF Pin
<1>5. CASE ListDirectory(p) /\ UNCHANGED <<job, memory, storing, outs, met>>
  BY <1>5 DEF ListDirectory
<1>6. CASE Look(p) /\ UNCHANGED <<job, memory, storing, outs, met>>
  BY <1>6 DEF Look
<1>7. CASE HashFile(p) /\ UNCHANGED <<job, memory, storing, outs, met>>
  BY <1>7 DEF HashFile
<1>8. CASE CompareClaim(p)
  BY <1>8 DEF CompareClaim
<1>9. CASE AppendRow(p)
  BY <1>9 DEF AppendRow
<1>10. CASE Appended(p)
  BY <1>10 DEF Appended
<1>11. CASE Assemble(p)
  BY <1>11 DEF Assemble
<1>12. CASE OpenOut(p)
  BY <1>12 DEF OpenOut
<1>13. CASE WriteOut(p)
  BY <1>13 DEF WriteOut
<1>14. CASE Stop(p)
  BY <1>14 DEF Stop
<1> QED
  BY <1>1, <1>2, <1>3, <1>4, <1>5, <1>6, <1>7, <1>8, <1>9, <1>10, <1>11, <1>12, <1>13,
     <1>14 DEF Step

(* A rewrite adds to what the running commands have seen. *)
LEMMA ARewrite ==
    ASSUME TypeOK, NEW path \in Path, Change(path)
    PROVE  /\ \E entry \in Entry \cup {None} :
                 /\ files' = [files EXCEPT ![path] = entry]
                 /\ \A p \in Procs :
                       since'[p] = IF pc[p] \in {"start"} \cup Ended THEN since[p]
                                   ELSE [since[p] EXCEPT ![path] = @ \cup {entry}]
           /\ DOMAIN since' = Procs /\ rewrites' \in 0..MaxRewrites
           /\ UNCHANGED <<pc, walk, job, memory, storing, outs, met>>
<1>1. PICK entry \in Versions(path) \ {files[path]} :
          /\ files' = [files EXCEPT ![path] = entry]
          /\ since' = [p \in Procs |-> IF pc[p] \in {"start"} \cup Ended THEN since[p]
                           ELSE [since[p] EXCEPT ![path] = @ \cup {entry}]]
  BY DEF Change, Rewrite
<1>2. entry \in Entry \cup {None}
  BY InputsAssumption
<1>3. rewrites' \in 0..MaxRewrites /\ UNCHANGED <<pc, walk, job, memory, storing, outs, met>>
  BY InputsAssumption DEF Change, Rewrite, TypeOK, InputsTypeOK
<1> QED
  BY <1>1, <1>2, <1>3

(* What a running command has seen it keeps, and it sees what changes.     *)
Grows == \A q \in Procs : pc[q] # "start" =>
            \A path \in Path : since[q][path] \subseteq since'[q][path]

LEMMA SinceGrows ==
    ASSUME TypeOK, SinceInv, [Next]_vars
    PROVE  Grows /\ SinceInv'
<1> USE DEF TypeOK, InputsTypeOK, Running, SinceInv, Grows
<1>1. CASE UNCHANGED vars
  BY <1>1 DEF vars, inputVars
<1>2. ASSUME NEW path \in Path, Change(path) PROVE Grows /\ SinceInv'
  <2>1. PICK entry \in Entry \cup {None} :
          /\ files' = [files EXCEPT ![path] = entry]
          /\ \A p \in Procs :
                since'[p] = IF pc[p] \in {"start"} \cup Ended THEN since[p]
                            ELSE [since[p] EXCEPT ![path] = @ \cup {entry}]
    BY <1>2, ARewrite
  <2>2. pc' = pc
    BY <1>2, ARewrite
  <2>3. \A q \in Procs : since[q] \in [Path -> SUBSET (Entry \cup {None})]
    OBVIOUS
  <2>4. ASSUME NEW q \in Procs, NEW x \in Path PROVE since[q][x] \subseteq since'[q][x]
    <3>1. CASE since'[q] = since[q]
      BY <3>1
    <3>2. CASE since'[q] = [since[q] EXCEPT ![path] = @ \cup {entry}]
      BY <2>3, <3>2
    <3> QED
      BY <2>1, <3>1, <3>2
  <2>5. ASSUME NEW q \in Procs, pc[q] \notin {"start"} \cup Ended, NEW x \in Path
        PROVE  files'[x] \in since'[q][x]
    <3>1. since'[q] = [since[q] EXCEPT ![path] = @ \cup {entry}]
      BY <2>1, <2>5
    <3>2. files[x] \in since[q][x]
      BY <2>5
    <3> QED
      BY <2>1, <2>3, <3>1, <3>2
  <2> QED
    BY <2>2, <2>4, <2>5
<1>3. ASSUME NEW p \in Procs, Start(p) PROVE Grows /\ SinceInv'
  <2>1. /\ since' = [since EXCEPT ![p] = [path \in Path |-> {files[path]}]]
        /\ files' = files /\ pc[p] = "start"
        /\ \A q \in Procs \ {p} : pc'[q] = pc[q]
    BY <1>3 DEF Start, Begin, Goto
  <2> QED
    BY <2>1
<1>4. ASSUME NEW p \in Procs, Step(p), ~Start(p) PROVE Grows /\ SinceInv'
  <2>1. files' = files /\ since' = since
    BY <1>4 DEF Step, Read, Hash, Pin, ListDirectory, Look, HashFile, CompareClaim,
       AppendRow, Appended, Assemble, OpenOut, WriteOut, Stop, inputVars
  <2>2. \A q \in Procs : pc'[q] \notin {"start"} \cup Ended => pc[q] \notin {"start"} \cup Ended
    <3>1. \A q \in Procs \ {p} : pc'[q] = pc[q]
      BY <1>4, StepsAreOnesOwn DEF OnlyOf
    <3>2. pc[p] \notin {"start"} \cup Ended
      BY <1>4 DEF Step, Read, Hash, Pin, ListDirectory, Look, HashFile, CompareClaim,
         AppendRow, Appended, Assemble, OpenOut, WriteOut, Stop, Walked, Ended
    <3> QED
      BY <3>1, <3>2
  <2> QED
    BY <2>1, <2>2
<1> QED
  BY <1>1, <1>2, <1>3, <1>4 DEF Next

--------------------------------------------------------------------------------
(* Types.                                                                  *)

WithListed(w, dir, found) ==
    [w EXCEPT !.unlisted = @ \ {dir}, !.listed = @ \cup found]
WithLooked(w, path, next_one) ==
    [w EXCEPT !.listed = @ \ {path}, !.hashing = next_one]
WithHashed(w, path, bytes) ==
    [w EXCEPT !.hashing = None,
              !.manifest = [key \in DOMAIN @ \cup {Key(path)} |->
                               IF key = Key(path) THEN bytes ELSE @[key]]]

LEMMA WalkBegins == IsWalk([NotWalking EXCEPT !.unlisted = Dir])
BY DEF IsWalk, NotWalking, NoManifest

LEMMA WalkLists ==
    ASSUME NEW w, IsWalk(w), NEW dir, NEW found \in SUBSET Path
    PROVE  IsWalk(WithListed(w, dir, found))
BY DEF IsWalk, WithListed

LEMMA WalkLooks ==
    ASSUME NEW w, IsWalk(w), NEW path, NEW next_one \in w.listed \cup {None}
    PROVE  IsWalk(WithLooked(w, path, next_one))
BY DEF IsWalk, WithLooked

LEMMA WalkHashes ==
    ASSUME NEW w, IsWalk(w), NEW path \in Path, NEW bytes \in Content
    PROVE  IsWalk(WithHashed(w, path, bytes))
BY DEF IsWalk, WithHashed

(* The steps of a walk, in these terms. *)
LEMMA ListStep ==
    ASSUME TypeOK, NEW p \in Procs, ListDirectory(p)
    PROVE  \E dir \in walk[p].unlisted :
              walk' = [walk EXCEPT ![p] = WithListed(walk[p], dir,
                          {path \in Path : DirOf(path) = dir /\ files[path] # None})]
BY DEF ListDirectory, WithListed

LEMMA LookStep ==
    ASSUME TypeOK, NEW p \in Procs, Look(p), walk' # walk
    PROVE  \E path \in walk[p].listed :
              walk' = [walk EXCEPT ![p] = WithLooked(walk[p], path,
                          IF Skipped(path) THEN None ELSE path)]
BY DEF Look, WithLooked

LEMMA HashFileStep ==
    ASSUME TypeOK, NEW p \in Procs, HashFile(p), walk' # walk
    PROVE  /\ files[walk[p].hashing] # None
           /\ walk' = [walk EXCEPT ![p] = WithHashed(walk[p], walk[p].hashing,
                          files[walk[p].hashing].bytes)]
BY DEF HashFile, WithHashed

LEMMA WhatIsThere ==
    ASSUME TypeOK, NEW path \in Path
    PROVE  /\ Bytes(path) \in Content \cup {None}
           /\ files[path] # None => files[path].bytes \in Content
           /\ Bytes(path) # None => files[path] \in Entry /\ Bytes(path) = files[path].bytes
BY DEF TypeOK, InputsTypeOK, Bytes, Entry

LEMMA TypesStep ==
    ASSUME TypeOK, job \in Jobs, KindInv, DataInv, SealsInv, [Next]_vars
    PROVE  TypeOK' /\ job' \in Jobs
<1> USE DEF TypeOK, InputsTypeOK
<1>1. CASE UNCHANGED vars
  BY <1>1 DEF vars, inputVars, memory, storing, Entries
<1>2. ASSUME NEW path \in Path, Change(path) PROVE TypeOK' /\ job' \in Jobs
  <2>1. PICK entry \in Entry \cup {None} :
          /\ files' = [files EXCEPT ![path] = entry]
          /\ \A p \in Procs :
                since'[p] = IF pc[p] \in {"start"} \cup Ended THEN since[p]
                            ELSE [since[p] EXCEPT ![path] = @ \cup {entry}]
    BY <1>2, ARewrite
  <2>2. /\ DOMAIN since' = Procs /\ rewrites' \in 0..MaxRewrites
        /\ UNCHANGED <<pc, walk, job, memory, storing, outs, met>>
    BY <1>2, ARewrite
  <2>3. files' \in [Path -> Entry \cup {None}]
    BY <2>1
  <2>4. ASSUME NEW p \in Procs PROVE since'[p] \in [Path -> SUBSET (Entry \cup {None})]
    <3>1. since[p] \in [Path -> SUBSET (Entry \cup {None})]
      OBVIOUS
    <3>2. CASE since'[p] = since[p]
      BY <3>1, <3>2
    <3>3. CASE since'[p] = [since[p] EXCEPT ![path] = @ \cup {entry}]
      BY <3>1, <3>3
    <3> QED
      BY <2>1, <3>2, <3>3
  <2>5. since' = [p \in Procs |-> since'[p]]
    BY <1>2 DEF Change, Rewrite
  <2> QED
    BY <2>2, <2>3, <2>4, <2>5 DEF memory, storing
<1>3. ASSUME NEW p \in Procs, Step(p) PROVE TypeOK' /\ job' \in Jobs
  <2> USE <1>3 DEF Goto, inputVars, memory, storing, Steps, Ended
  <2>1. CASE Start(p)
    <3>1. since' \in [Procs -> [Path -> SUBSET (Entry \cup {None})]]
      BY <2>1 DEF Start, Begin
    <3>2. pc' \in [Procs -> Steps \cup Ended]
      BY <2>1 DEF Start
    <3>3. met' \subseteq SUBSET Procs
      <4>1. met' = met \cup {{p, q} : q \in Running} /\ Running \subseteq Procs
        BY <2>1 DEF Start, Running
      <4>2. ASSUME NEW m \in met' PROVE m \in SUBSET Procs
        <5>1. CASE m \in met
          BY <5>1
        <5>2. CASE m \notin met
          <6>1. PICK q \in Running : m = {p, q}
            BY <4>1, <5>2
          <6> QED
            BY <4>1, <6>1
        <5> QED
          BY <5>1, <5>2
      <4> QED
        BY <4>2
    <3> QED
      BY <2>1, <3>1, <3>2, <3>3 DEF Start
  <2>2. CASE Read(p)
    <3>1. /\ pc' \in [Procs -> Steps \cup Ended]
          /\ held' = held \/ held' = [held EXCEPT ![p] = Bytes(job[p].source)]
          /\ walk' = walk \/ walk' = [walk EXCEPT ![p] = [NotWalking EXCEPT !.unlisted = Dir]]
      BY <2>2 DEF Read, StartWalk
    <3>2. Bytes(job[p].source) \in Content \cup {None}
      BY <2>2, TheJobs, WhatIsThere DEF Read, KindInv, KindOf
    <3>3. held' \in [Procs -> Content \cup {None}]
      BY <3>1, <3>2
    <3>4. DOMAIN walk' = Procs /\ \A q \in Procs : IsWalk(walk'[q])
      BY <3>1, WalkBegins
    <3> QED
      BY <2>2, <3>1, <3>3, <3>4 DEF Read
  <2>3. CASE Hash(p)
    <3>1. /\ pc' \in [Procs -> Steps \cup Ended]
          /\ \/ digest' = digest
             \/ /\ Bytes(job[p].subject) # None
                /\ digest' = [digest EXCEPT ![p] = Sha256(Bytes(job[p].subject))]
      BY <2>3 DEF Hash, AfterHash
    <3>2. Bytes(job[p].subject) \in Content \cup {None}
      BY <2>3, TheJobs, WhatIsThere DEF Hash, KindInv, KindOf
    <3>3. Bytes(job[p].subject) # None => Sha256(Bytes(job[p].subject)) \in Digest
      BY <3>2, Readings
    <3>4. digest' \in [Procs -> Digest \cup {None}]
      BY <3>1, <3>3
    <3> QED
      BY <2>3, <3>1, <3>4 DEF Hash
  <2>4. CASE Pin(p)
    <3>1. /\ pc' \in [Procs -> Steps \cup Ended]
          /\ \/ pinned' = pinned
             \/ /\ Bytes(job[p].source) # None
                /\ pinned' = [pinned EXCEPT ![p] = Sha256(Bytes(job[p].source))]
      BY <2>4 DEF Pin
    <3>2. Bytes(job[p].source) \in Content \cup {None}
      BY <2>4, TheJobs, WhatIsThere DEF Pin, KindInv, KindOf, Kinded
    <3>3. Bytes(job[p].source) # None => Sha256(Bytes(job[p].source)) \in Digest
      BY <3>2, Readings
    <3>4. pinned' \in [Procs -> Digest \cup {None}]
      BY <3>1, <3>3
    <3> QED
      BY <2>4, <3>1, <3>4 DEF Pin
  <2>5. CASE ListDirectory(p) /\ UNCHANGED <<job, memory, storing, outs, met>>
    <3> DEFINE found(dir) == {path \in Path : DirOf(path) = dir /\ files[path] # None}
    <3>1. PICK dir \in walk[p].unlisted :
              walk' = [walk EXCEPT ![p] = WithListed(walk[p], dir, found(dir))]
      BY <2>5, ListStep
    <3> HIDE DEF found
    <3>2. IsWalk(WithListed(walk[p], dir, found(dir)))
      BY WalkLists DEF found
    <3>3. DOMAIN walk' = Procs /\ \A q \in Procs : IsWalk(walk'[q])
      BY <3>1, <3>2
    <3> QED
      BY <2>5, <3>3 DEF ListDirectory
  <2>6. CASE Look(p) /\ UNCHANGED <<job, memory, storing, outs, met>>
    <3>1. pc' \in [Procs -> Steps \cup Ended]
      BY <2>6 DEF Look
    <3>2. ASSUME NEW path \in walk[p].listed, NEW next_one \in {None, path},
                 walk' = [walk EXCEPT ![p] = WithLooked(walk[p], path, next_one)]
          PROVE  DOMAIN walk' = Procs /\ \A q \in Procs : IsWalk(walk'[q])
      <4>1. IsWalk(WithLooked(walk[p], path, next_one))
        BY WalkLooks
      <4> QED
        BY <3>2, <4>1
    <3>3. DOMAIN walk' = Procs /\ \A q \in Procs : IsWalk(walk'[q])
      BY <2>6, <3>2, LookStep
    <3> QED
      BY <2>6, <3>1, <3>3 DEF Look
  <2>7. CASE HashFile(p) /\ UNCHANGED <<job, memory, storing, outs, met>>
    <3> DEFINE path == walk[p].hashing
    <3>1. /\ pc' \in [Procs -> Steps \cup Ended] /\ path # None
          /\ \/ walk' = walk
             \/ /\ files[path] # None
                /\ walk' = [walk EXCEPT ![p] = WithHashed(walk[p], path, files[path].bytes)]
      BY <2>7, HashFileStep DEF HashFile
    <3>2. path \in Path
      BY <3>1 DEF IsWalk
    <3> HIDE DEF path
    <3>3. files[path] # None => IsWalk(WithHashed(walk[p], path, files[path].bytes))
      BY <3>2, WhatIsThere, WalkHashes
    <3>4. DOMAIN walk' = Procs /\ \A q \in Procs : IsWalk(walk'[q])
      BY <3>1, <3>3
    <3> QED
      BY <2>7, <3>1, <3>4 DEF HashFile
  <2>8. CASE CompareClaim(p)
    BY <2>8 DEF CompareClaim
  <2>9. CASE AppendRow(p)
    <3> DEFINE n     == next[p] + 1
               entry == Entries(p)[n]
               row   == [subject |-> digest[p], entry |-> entry[1],
                         evidence |-> entry[2], by |-> p, nth |-> n]
    <3>1. /\ pc[p] = "append" /\ next[p] # Len(Entries(p))
          /\ next' = [next EXCEPT ![p] = n] /\ store' = Append(store, row)
          /\ UNCHANGED <<inputVars, pc, walk, job, memory, outs, met>>
      BY <2>9 DEF AppendRow, AllAppended
    <3>2. Ready(p) /\ next[p] <= Len(Entries(p))
      BY <3>1 DEF DataInv, DataOf
    <3>3. /\ Entries(p) \in Seq(CheckEntry \X Evidence) /\ digest[p] \in Digest
          /\ n \in 1..Len(Entries(p))
      BY <3>1, <3>2, EntriesTyped
    <3>4. entry \in CheckEntry \X Evidence
      BY <3>3
    <3>5. row \in Row
      BY <3>3, <3>4 DEF Row
    <3> HIDE DEF row
    <3>6. store' \in Seq(Row)
      BY <3>1, <3>5
    <3>7. next' \in [Procs -> Nat]
      BY <3>1, <3>3
    <3> QED
      BY <3>1, <3>6, <3>7
  <2>10. CASE Appended(p)
    BY <2>10 DEF Appended
  <2>11. CASE Assemble(p)
    <3>1. \/ seal' = seal
          \/ seal' = [seal EXCEPT ![p] = [subject |-> digest[p], rows |-> Collected(p),
                                           by |-> p, during |-> Appending]]
      BY <2>11 DEF Assemble
    <3>2. digest[p] \in Digest
      BY <2>11 DEF Assemble, DataInv, DataOf
    <3>3. IsSeal([subject |-> digest[p], rows |-> Collected(p),
                  by |-> p, during |-> Appending])
      BY <3>2 DEF IsSeal, Collected, About, Appending
    <3>4. DOMAIN seal' = Procs /\ \A q \in Procs : seal'[q] = Absent \/ IsSeal(seal'[q])
      BY <3>1, <3>3
    <3>5. pc' \in [Procs -> Steps \cup Ended]
      BY <2>11 DEF Assemble
    <3> QED
      BY <2>11, <3>4, <3>5 DEF Assemble
  <2>12. CASE OpenOut(p)
    BY <2>12 DEF OpenOut
  <2>13. CASE WriteOut(p)
    BY <2>13 DEF WriteOut
  <2>14. CASE Stop(p)
    BY <2>14 DEF Stop
  <2> QED
    BY <2>1, <2>2, <2>3, <2>4, <2>5, <2>6, <2>7, <2>8, <2>9, <2>10, <2>11, <2>12,
       <2>13, <2>14 DEF Step
<1> QED
  BY <1>1, <1>2, <1>3 DEF Next

--------------------------------------------------------------------------------
(* Who is where, and with what.                                            *)

LEMMA KindsStep ==
    ASSUME TypeOK, job \in Jobs, KindInv, DataInv, [Next]_vars
    PROVE  KindInv'
<1>1. CASE UNCHANGED vars
  BY <1>1 DEF vars, KindInv, KindOf, Kinded
<1>2. ASSUME NEW path \in Path, Change(path) PROVE KindInv'
  BY <1>2, ARewrite DEF KindInv, KindOf, Kinded
<1>3. ASSUME NEW p \in Procs, Step(p) PROVE KindInv'
  <2>1. ASSUME NEW q \in Procs \ {p} PROVE KindOf(q)'
    BY <1>3, StepsAreOnesOwn DEF OnlyOf, KindInv, KindOf, Kinded
  <2>2. KindOf(p)'
    <3>1. /\ pc \in [Procs -> Steps \cup Ended] /\ job' = job /\ KindOf(p)
          /\ job[p] \in Job /\ (Kinded(p, {"keyless"}) => job[p].out \in Out)
      BY <1>3, StepsAreOnesOwn, TheJobs DEF OnlyOf, KindInv, TypeOK
    <3> USE <3>1 DEF Goto, KindOf, Kinded, Ended
    <3>2. CASE Start(p)
      BY <3>2 DEF Start
    <3>3. CASE Read(p)
      BY <3>3 DEF Read
    <3>4. CASE Hash(p)
      BY <3>4 DEF Hash, AfterHash, Job, Kind
    <3>5. CASE Pin(p)
      BY <3>5 DEF Pin
    <3>6. CASE ListDirectory(p) \/ Look(p) \/ HashFile(p) \/ AppendRow(p) \/ CompareClaim(p)
      BY <3>6 DEF ListDirectory, Look, HashFile, AppendRow, CompareClaim
    <3>7. CASE Appended(p)
      <4>1. Kinded(p, Scripted)
        BY <3>7 DEF Appended, DataInv, DataOf, Ready
      <4> QED
        BY <3>7, <4>1 DEF Appended, Scripted, Job
    <3>8. CASE Assemble(p)
      BY <3>8 DEF Assemble
    <3>9. CASE OpenOut(p)
      BY <3>9 DEF OpenOut
    <3>10. CASE WriteOut(p) \/ Stop(p)
      BY <3>10 DEF WriteOut, Stop
    <3> QED
      BY <1>3, <3>2, <3>3, <3>4, <3>5, <3>6, <3>7, <3>8, <3>9, <3>10 DEF Step
  <2> QED
    BY <2>1, <2>2 DEF KindInv
<1> QED
  BY <1>1, <1>2, <1>3 DEF Next

(* What is in a file that a running command sees. *)
LEMMA BytesWereThere ==
    ASSUME TypeOK, SinceInv, NEW p \in Running, NEW path \in Path, Bytes(path) # None
    PROVE  Bytes(path) \in WasThere(p, path) /\ Bytes(path) \in Content
<1>1. files[path] # None /\ files[path] \in since[p][path]
  BY DEF SinceInv, Bytes
<1> QED
  BY <1>1, WhatIsThere DEF WasThere, Bytes

LEMMA MoreWasThere ==
    ASSUME Grows, NEW q \in Procs, pc[q] # "start", NEW path \in Path
    PROVE  WasThere(q, path) \subseteq WasThere(q, path)'
BY DEF Grows, WasThere

(* What a command holds stays what it is while its memory stays. *)
LEMMA ReadingsStay ==
    ASSUME job \in Jobs, Grows, job' = job, NEW q \in Procs, pc[q] # "start",
           ~Kinded(q, {"keyless"})
    PROVE  /\ held'[q] = held[q] /\ Vetted(q) => Vetted(q)'
           /\ /\ held'[q] = held[q] /\ digest'[q] = digest[q]
              /\ ~Kinded(q, {"skillscan"}) /\ Hashed(q)
              => Hashed(q)'
           /\ pinned'[q] = pinned[q] /\ Pinned(q) => Pinned(q)'
           /\ held'[q] = held[q] /\ pinned'[q] = pinned[q] => Entries(q)' = Entries(q)
           /\ /\ held'[q] = held[q] /\ digest'[q] = digest[q] /\ pinned'[q] = pinned[q]
              /\ Ready(q)
              => Ready(q)'
<1>1. job[q].source \in Path /\ (~Kinded(q, {"skillscan"}) => job[q].subject \in Path)
  BY TheJobs
<1>2. WasThere(q, job[q].source) \subseteq WasThere(q, job[q].source)'
  BY <1>1, MoreWasThere
<1>3. ~Kinded(q, {"skillscan"}) =>
          WasThere(q, job[q].subject) \subseteq WasThere(q, job[q].subject)'
  BY <1>1, MoreWasThere
<1>4. held'[q] = held[q] /\ Vetted(q) => Vetted(q)'
  BY <1>2 DEF Vetted
<1>5. /\ held'[q] = held[q] /\ digest'[q] = digest[q]
      /\ ~Kinded(q, {"skillscan"}) /\ Hashed(q)
      => Hashed(q)'
  BY <1>3 DEF Hashed
<1>6. pinned'[q] = pinned[q] /\ Pinned(q) => Pinned(q)'
  BY <1>2 DEF Pinned
<1>7. held'[q] = held[q] /\ pinned'[q] = pinned[q] => Entries(q)' = Entries(q)
  BY DEF Entries
<1> QED
  BY <1>4, <1>5, <1>6, <1>7 DEF Ready, Kinded, Scripted

LEMMA DataFrame ==
    ASSUME job \in Jobs, Grows, job' = job, NEW q \in Procs, DataOf(q),
           pc'[q] = pc[q], held'[q] = held[q], digest'[q] = digest[q],
           pinned'[q] = pinned[q], next'[q] = next[q], KindOf(q)
    PROVE  DataOf(q)'
<1>1. CASE pc[q] = "start" \/ Kinded(q, {"keyless"})
  BY <1>1 DEF DataOf, Before, Signed, Kinded, Scripted, Ready, KindOf, AllAppended
<1>2. CASE pc[q] # "start" /\ ~Kinded(q, {"keyless"})
  BY <1>2, ReadingsStay DEF DataOf, Before, Signed, Kinded, Scripted, Ready, KindOf, AllAppended
<1> QED
  BY <1>1, <1>2

LEMMA EntriesToCome ==
    ASSUME TypeOK, job \in Jobs, job' = job, NEW p \in Procs, Kinded(p, Scripted),
           Vetted(p), held'[p] = held[p], ~Kinded(p, {"judge"}) => pinned'[p] \in Digest
    PROVE  Len(Entries(p)') \in Nat /\ Len(Entries(p)') > 0
<1>1. job[p].source \in Path /\ job[p].kind \in Scripted
  BY TheJobs DEF Kinded, Scripted
<1>2. WasThere(p, job[p].source) \subseteq Content
  BY <1>1 DEF TypeOK, InputsTypeOK, WasThere, Entry
<1>3. held[p] \in Content /\ Vets(job[p].kind, held[p])
  BY <1>2 DEF Vetted
<1>4. Entries(p)' = ToAppend(job[p].kind, held[p], pinned'[p])
  BY DEF Entries
<1>5. /\ Entries(p)' \in Seq(CheckEntry \X Evidence)
      /\ Entries(p)' # <<>>
  BY <1>1, <1>3, <1>4, EntriesOfKinds DEF Kinded
<1> QED
  BY <1>5

LEMMA DataStep ==
    ASSUME TypeOK, job \in Jobs, SinceInv, KindInv, DataInv, [Next]_vars
    PROVE  DataInv'
<1>g. Grows
  BY SinceGrows
<1>1. CASE UNCHANGED vars
  BY <1>1, <1>g, DataFrame DEF vars, memory, storing, DataInv, KindInv
<1>2. ASSUME NEW path \in Path, Change(path) PROVE DataInv'
  BY <1>2, <1>g, ARewrite, DataFrame DEF memory, storing, DataInv, KindInv
<1>3. ASSUME NEW p \in Procs, Step(p) PROVE DataInv'
  <2>1. ASSUME NEW q \in Procs \ {p} PROVE DataOf(q)'
    BY <1>3, <1>g, <2>1, StepsAreOnesOwn, DataFrame DEF OnlyOf, DataInv, KindInv
  <2>2. DataOf(p)'
    <3>1. /\ pc \in [Procs -> Steps \cup Ended] /\ job' = job /\ KindOf(p) /\ DataOf(p)
          /\ job[p].kind \in Kind /\ next[p] \in Nat
          /\ held \in [Procs -> Content \cup {None}] /\ digest \in [Procs -> Digest \cup {None}]
          /\ pinned \in [Procs -> Digest \cup {None}] /\ next \in [Procs -> Nat]
      BY <1>3, StepsAreOnesOwn, TheJobs DEF OnlyOf, KindInv, DataInv, TypeOK, Job
    <3> USE DEF Goto, memory, storing, Before, Signed, Ended
    <3>2. CASE Start(p)
      BY <3>1, <3>2 DEF Start, DataOf, KindOf, Kinded, Scripted
    <3>3. CASE Read(p)
      <4> DEFINE content == Bytes(job[p].source)
      <4>1. pc[p] = "read" /\ next'[p] = next[p] /\ next[p] = 0 /\ pc' \in [Procs -> Steps \cup Ended]
        BY <3>1, <3>3 DEF Read, DataOf, Steps
      <4>2. CASE content # None /\ Vets(job[p].kind, content)
        <5>1. held' = [held EXCEPT ![p] = content] /\ pc'[p] \in {"walk", "hash"}
          BY <3>1, <3>3, <4>2 DEF Read
        <5>2. job[p].source \in Path /\ p \in Running
          BY <3>1, <4>1, TheJobs DEF KindOf, Running
        <5>3. content \in WasThere(p, job[p].source)
          BY <4>2, <5>2, BytesWereThere
        <5>4. WasThere(p, job[p].source) \subseteq WasThere(p, job[p].source)'
          BY <1>g, <3>1, <4>1, <5>2, MoreWasThere
        <5>5. Vetted(p)'
          BY <3>1, <4>2, <5>1, <5>3, <5>4 DEF Vetted
        <5> QED
          BY <4>1, <5>1, <5>5 DEF DataOf
      <4>3. CASE ~(content # None /\ Vets(job[p].kind, content))
        BY <3>1, <3>3, <4>1, <4>3 DEF Read, DataOf, Kinded
      <4> QED
        BY <4>2, <4>3
    <3>4. CASE Hash(p)
      <4> DEFINE content == Bytes(job[p].subject)
                 hashes  == content # None /\ AboutSubject(job[p].kind, held[p], Sha256(content))
      <4>1. /\ pc[p] = "hash" /\ next'[p] = next[p] /\ next[p] = 0
            /\ held'[p] = held[p] /\ pinned'[p] = pinned[p]
        BY <3>1, <3>4 DEF Hash, DataOf
      <4>2. CASE hashes
        <5>1. digest' = [digest EXCEPT ![p] = Sha256(content)] /\ pc'[p] = AfterHash(job[p].kind)
          BY <3>1, <3>4, <4>2 DEF Hash
        <5>2. job[p].subject \in Path /\ p \in Running /\ ~Kinded(p, {"skillscan"})
          BY <3>1, <4>1, TheJobs DEF KindOf, Running
        <5>3. content \in WasThere(p, job[p].subject) /\ content \in Content
          BY <4>2, <5>2, BytesWereThere
        <5>4. WasThere(p, job[p].subject) \subseteq WasThere(p, job[p].subject)'
          BY <1>g, <3>1, <4>1, <5>2, MoreWasThere
        <5>5. Hashed(p)' /\ digest'[p] \in Digest
          BY <3>1, <4>1, <4>2, <5>1, <5>3, <5>4, Readings DEF Hashed
        <5>6. ~Kinded(p, {"keyless"}) => Vetted(p)'
          BY <1>g, <3>1, <4>1, ReadingsStay DEF DataOf
        <5>7. Kinded(p, {"judge"}) => Ready(p)' /\ 0 <= Len(Entries(p)')
          <6>1. Kinded(p, {"judge"}) => Ready(p)'
            BY <3>1, <5>5, <5>6 DEF Ready, Kinded, Scripted
          <6>2. Kinded(p, {"judge"}) => Kinded(p, Scripted) /\ Vetted(p)
            BY <4>1, <3>1 DEF DataOf, Kinded, Scripted
          <6> QED
            BY <6>1, <6>2, <3>1, <4>1, EntriesToCome DEF Kinded
        <5> QED
          BY <3>1, <4>1, <5>1, <5>2, <5>5, <5>6, <5>7
             DEF DataOf, AfterHash, Kinded, Scripted, Kind
      <4>3. CASE ~hashes
        BY <3>1, <3>4, <4>1, <4>3 DEF Hash, DataOf
      <4> QED
        BY <4>2, <4>3
    <3>5. CASE Pin(p)
      <4> DEFINE content == Bytes(job[p].source)
      <4>1. /\ pc[p] = "pin" /\ next'[p] = next[p] /\ next[p] = 0
            /\ held'[p] = held[p] /\ digest'[p] = digest[p]
        BY <3>1, <3>5 DEF Pin, DataOf
      <4>2. CASE content # None
        <5>1. pinned' = [pinned EXCEPT ![p] = Sha256(content)] /\ pc'[p] = "append"
          BY <3>1, <3>5, <4>2 DEF Pin
        <5>2. job[p].source \in Path /\ p \in Running /\ Kinded(p, {"harness", "manual"})
          BY <3>1, <4>1, TheJobs DEF KindOf, Running, Kinded
        <5>3. content \in WasThere(p, job[p].source) /\ content \in Content
          BY <4>2, <5>2, BytesWereThere
        <5>4. WasThere(p, job[p].source) \subseteq WasThere(p, job[p].source)'
          BY <1>g, <3>1, <4>1, <5>2, MoreWasThere
        <5>5. Pinned(p)' /\ pinned'[p] \in Digest
          BY <3>1, <5>1, <5>3, <5>4, Readings DEF Pinned
        <5>6. Vetted(p) /\ Vetted(p)' /\ Hashed(p)'
          BY <1>g, <3>1, <4>1, <5>2, ReadingsStay DEF DataOf, Kinded
        <5>7. Ready(p)'
          BY <3>1, <5>2, <5>5, <5>6 DEF Ready, Kinded, Scripted
        <5>8. Len(Entries(p)') \in Nat /\ Len(Entries(p)') > 0
          BY <3>1, <4>1, <5>2, <5>5, <5>6, EntriesToCome DEF Kinded, Scripted
        <5> QED
          BY <3>1, <4>1, <5>1, <5>7, <5>8 DEF DataOf
      <4>3. CASE content = None
        BY <3>1, <3>5, <4>1, <4>3 DEF Pin, DataOf
      <4> QED
        BY <4>2, <4>3
    <3>6. CASE ListDirectory(p) \/ Look(p) \/ HashFile(p) \/ CompareClaim(p)
      <4>1. /\ pc[p] = "walk" /\ pc'[p] \in {"walk", "refused", "done"}
            /\ held'[p] = held[p] /\ next'[p] = next[p]
        BY <1>3, <3>1, <3>6 DEF Step, ListDirectory, Look, HashFile, CompareClaim, Walked,
           Start, Read, Hash, Pin, AppendRow, Appended, Assemble, OpenOut, WriteOut, Stop
      <4>2. next[p] = 0 /\ Kinded(p, {"skillscan"}) /\ Vetted(p)'
        BY <1>g, <3>1, <4>1, ReadingsStay DEF DataOf, KindOf, Kinded
      <4> QED
        BY <3>1, <4>1, <4>2 DEF DataOf, Kinded, Scripted
    <3>7. CASE AppendRow(p)
      <4>1. /\ pc[p] = "append" /\ pc'[p] = "append" /\ next'[p] = next[p] + 1
            /\ next[p] # Len(Entries(p))
            /\ held'[p] = held[p] /\ digest'[p] = digest[p] /\ pinned'[p] = pinned[p]
        BY <3>1, <3>7 DEF AppendRow, AllAppended
      <4>2. Ready(p) /\ next[p] <= Len(Entries(p)) /\ Len(Entries(p)) \in Nat
        BY <3>1, <4>1, EntriesTyped DEF DataOf
      <4>3. Ready(p)' /\ Entries(p)' = Entries(p)
        BY <1>g, <3>1, <4>1, <4>2, ReadingsStay DEF Ready, Kinded, Scripted
      <4> QED
        BY <3>1, <4>1, <4>2, <4>3 DEF DataOf
    <3>8. CASE Appended(p) \/ Assemble(p) \/ OpenOut(p) \/ WriteOut(p) \/ Stop(p)
      <4>1. /\ pc[p] # "start" /\ next'[p] = next[p]
            /\ held'[p] = held[p] /\ digest'[p] = digest[p] /\ pinned'[p] = pinned[p]
        BY <3>1, <3>8 DEF Appended, Assemble, OpenOut, WriteOut, Stop, Running
      <4>2. Kinded(p, Scripted) =>
                /\ Ready(p) => Ready(p)'
                /\ Entries(p)' = Entries(p) /\ (AllAppended(p) => AllAppended(p)')
        BY <1>g, <3>1, <4>1, ReadingsStay DEF Kinded, Scripted, AllAppended
      <4>3. next[p] > 0 \/ pc[p] = "append" => Kinded(p, Scripted)
        BY <3>1 DEF DataOf, Ready
      <4>4. CASE Appended(p)
        <5>1. /\ pc[p] = "append" /\ AllAppended(p) /\ pc'[p] \in {"done", "assemble"}
          BY <3>1, <4>4 DEF Appended
        <5>2. Ready(p) /\ Len(Entries(p)) > 0 /\ digest[p] \in Digest
          BY <3>1, <5>1, EntriesTyped DEF DataOf
        <5> QED
          BY <3>1, <4>1, <4>2, <4>3, <5>1, <5>2 DEF DataOf, AllAppended
      <4>5. CASE Assemble(p)
        <5>1. pc[p] = "assemble" /\ pc'[p] \in {"write", "open", "refused"}
          BY <3>1, <4>5 DEF Assemble
        <5> QED
          BY <3>1, <4>1, <4>2, <4>3, <5>1 DEF DataOf, Kinded
      <4>6. CASE OpenOut(p)
        <5>1. pc[p] = "open" /\ pc'[p] = "write"
          BY <3>1, <4>6 DEF OpenOut
        <5> QED
          BY <3>1, <4>1, <4>2, <4>3, <5>1 DEF DataOf, Kinded
      <4>7. CASE WriteOut(p)
        <5>1. pc[p] = "write" /\ pc'[p] = "done"
          BY <3>1, <4>7 DEF WriteOut
        <5> QED
          BY <3>1, <4>1, <4>2, <4>3, <5>1 DEF DataOf, Kinded
      <4>8. CASE Stop(p)
        <5>1. pc'[p] = "stopped"
          BY <3>1, <4>8 DEF Stop
        <5> QED
          BY <3>1, <4>1, <4>2, <4>3, <5>1 DEF DataOf, Kinded
      <4> QED
        BY <3>8, <4>4, <4>5, <4>6, <4>7, <4>8
    <3> QED
      BY <1>3, <3>2, <3>3, <3>4, <3>5, <3>6, <3>7, <3>8 DEF Step
  <2> QED
    BY <2>1, <2>2 DEF DataInv
<1> QED
  BY <1>1, <1>2, <1>3 DEF Next

--------------------------------------------------------------------------------
(* The store.                                                              *)

(* What the rows of a command are made of does not change any more. *)
LEMMA RowsAreFixed ==
    ASSUME TypeOK, DataInv, [Next]_vars
    PROVE  /\ job' = job
           /\ \A q \in Procs : next[q] > 0 =>
                 /\ held'[q] = held[q] /\ digest'[q] = digest[q] /\ pinned'[q] = pinned[q]
                 /\ Entries(q)' = Entries(q)
<1>1. CASE UNCHANGED vars
  BY <1>1 DEF vars, memory, Entries
<1>2. ASSUME NEW path \in Path, Change(path) PROVE UNCHANGED <<job, memory>>
  BY <1>2, ARewrite
<1>3. ASSUME NEW p \in Procs, Step(p)
      PROVE  /\ job' = job
             /\ \A q \in Procs : next[q] > 0 =>
                   held'[q] = held[q] /\ digest'[q] = digest[q] /\ pinned'[q] = pinned[q]
  <2>1. OnlyOf(p)
    BY <1>3, StepsAreOnesOwn
  <2>2. next[p] > 0 => held' = held /\ digest' = digest /\ pinned' = pinned
    <3>1. next[p] > 0 => pc[p] \notin Before
      BY DEF DataInv, DataOf
    <3> QED
      BY <1>3, <3>1 DEF Step, Start, Read, Hash, Pin, ListDirectory, Look, HashFile,
         CompareClaim, AppendRow, Appended, Assemble, OpenOut, WriteOut, Stop, memory, Before
  <2> QED
    BY <2>1, <2>2 DEF OnlyOf
<1> QED
  BY <1>1, <1>2, <1>3 DEF Next, memory, Entries

(* Only the append itself writes to the store. *)
LEMMA StoreOrAppend ==
    ASSUME TypeOK, [Next]_vars
    PROVE  UNCHANGED storing \/ \E p \in Procs : AppendRow(p)
<1>1. CASE UNCHANGED vars
  BY <1>1 DEF vars, storing
<1>2. ASSUME NEW path \in Path, Change(path) PROVE UNCHANGED storing
  BY <1>2, ARewrite
<1>3. ASSUME NEW p \in Procs, Step(p), ~AppendRow(p) PROVE UNCHANGED storing
  BY <1>3 DEF Step, Start, Read, Hash, Pin, CompareClaim, Appended, Assemble, OpenOut,
     WriteOut, Stop
<1> QED
  BY <1>1, <1>2, <1>3 DEF Next

LEMMA AnAppend ==
    ASSUME TypeOK, job \in Jobs, DataInv, NEW p \in Procs, AppendRow(p)
    PROVE  LET n   == next[p] + 1
               row == [subject |-> digest[p], entry |-> Entries(p)[n][1],
                       evidence |-> Entries(p)[n][2], by |-> p, nth |-> n]
           IN /\ pc[p] = "append" /\ n \in 1..Len(Entries(p)) /\ Len(Entries(p)) \in Nat
              /\ next' = [next EXCEPT ![p] = n]
              /\ Len(store) \in Nat /\ DOMAIN store' = 1..(Len(store) + 1)
              /\ DOMAIN store = 1..Len(store)
              /\ \A k \in 1..Len(store) : store'[k] = store[k]
              /\ store'[Len(store) + 1] = row
              /\ UNCHANGED <<inputVars, pc, walk, job, memory, outs, met>>
              /\ <<row.entry, row.evidence>> = Entries(p)[n]
<1> DEFINE n   == next[p] + 1
           row == [subject |-> digest[p], entry |-> Entries(p)[n][1],
                   evidence |-> Entries(p)[n][2], by |-> p, nth |-> n]
<1>1. /\ pc[p] = "append" /\ next[p] # Len(Entries(p))
      /\ next' = [next EXCEPT ![p] = n] /\ store' = Append(store, row)
      /\ UNCHANGED <<inputVars, pc, walk, job, memory, outs, met>>
  BY DEF AppendRow, AllAppended
<1>2. Ready(p) /\ next[p] <= Len(Entries(p)) /\ next[p] \in Nat
  BY <1>1 DEF DataInv, DataOf, TypeOK
<1>3. /\ Entries(p) \in Seq(CheckEntry \X Evidence) /\ Len(Entries(p)) \in Nat
      /\ n \in 1..Len(Entries(p))
  BY <1>1, <1>2, EntriesTyped
<1>4. Entries(p)[n] \in CheckEntry \X Evidence
  BY <1>3
<1>5. <<row.entry, row.evidence>> = Entries(p)[n]
  BY <1>4
<1>6. store \in Seq(Row)
  BY DEF TypeOK
<1> HIDE DEF row
<1>7. /\ Len(store) \in Nat /\ DOMAIN store' = 1..(Len(store) + 1)
      /\ DOMAIN store = 1..Len(store)
      /\ \A k \in 1..Len(store) : store'[k] = store[k]
      /\ store'[Len(store) + 1] = row
  BY <1>1, <1>6
<1> QED
  BY <1>1, <1>3, <1>5, <1>7 DEF row

LEMMA StoreStep ==
    ASSUME TypeOK, job \in Jobs, DataInv, StoreInv, [Next]_vars
    PROVE  StoreInv'
<1>1. ASSUME NEW k \in DOMAIN store PROVE store[k].by \in Procs
  <2>1. store \in Seq(Row)
    BY DEF TypeOK
  <2>2. store[k] \in Row
    BY <2>1
  <2> QED
    BY <2>2 DEF Row
<1>2. CASE UNCHANGED storing
  <2>1. store' = store /\ next' = next
    BY <1>2 DEF storing
  <2>2. ASSUME NEW k \in DOMAIN store PROVE IsRowOf(store[k], store[k].by)'
    <3>1. IsRowOf(store[k], store[k].by) /\ next[store[k].by] > 0
      <4>1. IsRowOf(store[k], store[k].by) /\ store[k].by \in Procs
        BY <1>1 DEF StoreInv
      <4>2. store[k].nth \in 1..next[store[k].by]
        BY <4>1 DEF IsRowOf
      <4>3. next[store[k].by] \in Nat
        BY <4>1 DEF TypeOK
      <4> QED
        BY <4>1, <4>2, <4>3
    <3> QED
      BY <1>1, <2>1, <3>1, RowsAreFixed DEF IsRowOf
  <2> QED
    BY <2>1, <2>2 DEF StoreInv
<1>3. ASSUME NEW p \in Procs, AppendRow(p) PROVE StoreInv'
  <2> DEFINE n   == next[p] + 1
             new == Len(store) + 1
             row == [subject |-> digest[p], entry |-> Entries(p)[n][1],
                     evidence |-> Entries(p)[n][2], by |-> p, nth |-> n]
  <2>1. /\ next' = [next EXCEPT ![p] = n] /\ next[p] \in Nat /\ next \in [Procs -> Nat]
        /\ Len(store) \in Nat /\ DOMAIN store' = 1..new
        /\ DOMAIN store = 1..Len(store)
        /\ \A k \in 1..Len(store) : store'[k] = store[k]
        /\ store'[new] = row
        /\ \A q \in Procs : digest'[q] = digest[q] /\ Entries(q)' = Entries(q)
        /\ <<row.entry, row.evidence>> = Entries(p)[n]
    BY <1>3, AnAppend DEF memory, TypeOK, Entries
  <2>2. row.by = p /\ row.nth = n /\ row.subject = digest[p]
    OBVIOUS
  <2> HIDE DEF row
  <2>3. ASSUME NEW k \in 1..new PROVE IsRowOf(store[k], store[k].by)'
    <3>1. CASE k = new
      BY <2>1, <2>2, <3>1 DEF IsRowOf
    <3>2. CASE k \in 1..Len(store)
      <4>1. IsRowOf(store[k], store[k].by) /\ store[k].by \in Procs
        BY <1>1, <2>1, <3>2 DEF StoreInv
      <4> QED
        BY <2>1, <3>2, <4>1 DEF IsRowOf
    <3> QED
      BY <2>1, <3>1, <3>2
  <2>4. ASSUME NEW q \in Procs, NEW i \in 1..next'[q]
        PROVE  \E k \in DOMAIN store' : store'[k].by = q /\ store'[k].nth = i
    <3>1. CASE q = p /\ i = n
      BY <2>1, <2>2, <3>1
    <3>2. CASE ~(q = p /\ i = n)
      <4>1. i \in 1..next[q]
        BY <2>1, <3>2
      <4>2. \E k \in DOMAIN store : store[k].by = q /\ store[k].nth = i
        BY <4>1 DEF StoreInv
      <4>3. PICK k \in 1..Len(store) : store[k].by = q /\ store[k].nth = i
        BY <2>1, <4>2
      <4> QED
        BY <2>1, <4>3
    <3> QED
      BY <3>1, <3>2
  <2>5. ASSUME NEW j \in 1..new, NEW k \in 1..new, j < k, store'[j].by = store'[k].by
        PROVE  store'[j].nth < store'[k].nth
    <3>1. CASE k = new
      <4>1. j \in 1..Len(store) /\ store[j].by = p
        BY <2>1, <2>2, <2>5, <3>1
      <4>2. store[j].nth \in 1..next[p]
        BY <2>1, <4>1 DEF StoreInv, IsRowOf
      <4>3. store'[j].nth = store[j].nth /\ store'[k].nth = next[p] + 1
        BY <2>1, <2>2, <3>1, <4>1
      <4>4. next[p] \in Nat
        BY <2>1
      <4> QED
        BY <4>2, <4>3, <4>4
    <3>2. CASE k # new
      <4>1. k \in 1..Len(store) /\ j \in 1..Len(store)
        BY <2>1, <2>5, <3>2
      <4> QED
        BY <2>1, <2>5, <4>1 DEF StoreInv
    <3> QED
      BY <3>1, <3>2
  <2> QED
    BY <2>1, <2>3, <2>4, <2>5 DEF StoreInv
<1> QED
  BY <1>2, <1>3, StoreOrAppend

--------------------------------------------------------------------------------
(* Who ran with whom.                                                      *)

LEMMA EndedStays ==
    ASSUME TypeOK, [Next]_vars
    PROVE  \A q \in Procs : pc[q] \in Ended => pc'[q] = pc[q] /\ next'[q] = next[q]
<1>1. CASE UNCHANGED vars
  BY <1>1 DEF vars, storing
<1>2. ASSUME NEW path \in Path, Change(path) PROVE UNCHANGED <<pc, storing>>
  BY <1>2, ARewrite
<1>3. ASSUME NEW p \in Procs, Step(p)
      PROVE  \A q \in Procs : pc[q] \in Ended => pc'[q] = pc[q] /\ next'[q] = next[q]
  <2>1. pc[p] \notin Ended
    BY <1>3 DEF Step, Start, Read, Hash, Pin, ListDirectory, Look, HashFile, CompareClaim,
       AppendRow, Appended, Assemble, OpenOut, WriteOut, Stop, Walked, Running, Ended
  <2> QED
    BY <1>3, <2>1, StepsAreOnesOwn DEF OnlyOf
<1> QED
  BY <1>1, <1>2, <1>3 DEF Next, storing

LEMMA MetStep ==
    ASSUME TypeOK, job \in Jobs, DataInv, StoreInv, MetInv, [Next]_vars
    PROVE  MetInv'
<1>1. \A q \in Procs : EndedBare(q) => EndedBare(q)'
  BY EndedStays DEF EndedBare
<1>2. job' = job
  BY RowsAreFixed
<1>3. ASSUME met' = met, \A q \in Procs : pc[q] = "start" => pc'[q] = "start"
      PROVE  MetInv'
  BY <1>1, <1>2, <1>3 DEF MetInv, Kinded
<1>4. CASE UNCHANGED vars
  BY <1>3, <1>4 DEF vars
<1>5. ASSUME NEW path \in Path, Change(path) PROVE MetInv'
  BY <1>3, <1>5, ARewrite
<1>6. ASSUME NEW p \in Procs, Step(p), ~Start(p) PROVE MetInv'
  <2>1. met' = met /\ pc[p] # "start"
    BY <1>6 DEF Step, Read, Hash, Pin, ListDirectory, Look, HashFile, CompareClaim,
       AppendRow, Appended, Assemble, OpenOut, WriteOut, Stop, Walked, Running
  <2> QED
    BY <1>3, <1>6, <2>1, StepsAreOnesOwn DEF OnlyOf
<1>7. ASSUME NEW p \in Procs, Start(p) PROVE MetInv'
  <2>1. /\ met' = met \cup {{p, q} : q \in Running} /\ pc[p] = "start"
        /\ \A q \in Procs \ {p} : pc'[q] = pc[q]
        /\ Kinded(p, {"judge"}) /\ store # <<>> => pc'[p] = "refused"
        /\ next' = next
    BY <1>7 DEF Start, Goto, Kinded, TypeOK, storing
  <2>2. next[p] = 0
    BY <2>1 DEF DataInv, DataOf, Before
  <2>3. ASSUME NEW q \in Procs \ {p}, Kinded(p, {"judge"}), pc[q] # "start", {p, q} \notin met'
        PROVE  EndedBare(p)' \/ EndedBare(q)'
    <3>1. pc[q] \in Ended
      BY <2>1, <2>3 DEF Running
    <3>2. CASE next[q] = 0
      BY <1>1, <3>1, <3>2 DEF EndedBare
    <3>3. CASE next[q] # 0
      <4>1. next[q] \in Nat
        BY DEF TypeOK
      <4>2. 1 \in 1..next[q]
        BY <3>3, <4>1
      <4>3. store # <<>>
        BY <4>2 DEF StoreInv
      <4> QED
        BY <2>1, <2>2, <2>3, <4>3 DEF EndedBare, Ended
    <3> QED
      BY <3>2, <3>3
  <2>4. ASSUME NEW q \in Procs, NEW r \in Procs, q # r,
               Kinded(q, {"judge"}), Kinded(r, {"judge"}),
               pc'[q] # "start", pc'[r] # "start", {q, r} \notin met'
        PROVE  EndedBare(q)' \/ EndedBare(r)'
    <3>1. CASE q = p
      BY <2>1, <2>3, <2>4, <3>1
    <3>2. CASE r = p
      <4>1. {q, r} = {r, q}
        OBVIOUS
      <4> QED
        BY <2>1, <2>3, <2>4, <3>2, <4>1
    <3>3. CASE q # p /\ r # p
      BY <1>1, <2>1, <2>4, <3>3 DEF MetInv
    <3> QED
      BY <3>1, <3>2, <3>3
  <2> QED
    BY <1>2, <2>4 DEF MetInv, Kinded
<1> QED
  BY <1>4, <1>5, <1>6, <1>7 DEF Next

--------------------------------------------------------------------------------
(* The seals and the output files.                                         *)

(* The rows of a command in a copy of the store are its own. *)
LEMMA RowsInSeals ==
    ASSUME TypeOK, StoreInv, NEW q \in Procs, NEW k \in DOMAIN store, store[k].by = q
    PROVE  /\ next[q] \in Nat /\ next[q] > 0 /\ store[k].nth \in 1..next[q]
           /\ store[k].subject = digest[q]
           /\ <<store[k].entry, store[k].evidence>> = Entries(q)[store[k].nth]
<1>1. IsRowOf(store[k], q)
  BY DEF StoreInv
<1>2. store[k].nth \in 1..next[q] /\ next[q] \in Nat
  BY <1>1 DEF IsRowOf, TypeOK
<1> QED
  BY <1>1, <1>2 DEF IsRowOf

(* All of the entries of a command that is through are collected for its   *)
(* subject.                                                                *)
LEMMA CollectedIsWhole ==
    ASSUME TypeOK, job \in Jobs, DataInv, StoreInv, NEW subject, NEW s,
           s.rows = [k \in About(subject) |-> store[k]],
           NEW q \in Procs, AllAppended(q), next[q] > 0, digest[q] = subject
    PROVE  HasAll(s, q)
<1>1. DOMAIN Entries(q) = 1..next[q]
  BY EntriesTyped DEF DataInv, DataOf, AllAppended
<1>2. OwnIn(s, q) = {k \in About(subject) : store[k].by = q}
  BY DEF OwnIn
<1>3. ASSUME NEW k \in OwnIn(s, q) PROVE s.rows[k].nth \in 1..next[q]
  BY <1>2, RowsInSeals DEF About
<1>4. ASSUME NEW n \in 1..next[q] PROVE \E k \in OwnIn(s, q) : s.rows[k].nth = n
  <2>1. PICK k \in DOMAIN store : store[k].by = q /\ store[k].nth = n
    BY DEF StoreInv
  <2>2. store[k].subject = subject
    BY <2>1, RowsInSeals
  <2> QED
    BY <1>2, <2>1, <2>2 DEF About
<1> QED
  BY <1>1, <1>3, <1>4 DEF HasAll

LEMMA ANewSeal ==
    ASSUME TypeOK, job \in Jobs, DataInv, StoreInv, NEW p \in Procs, digest[p] \in Digest
    PROVE  IsWhole([subject |-> digest[p], rows |-> Collected(p),
                    by |-> p, during |-> Appending])
<1> DEFINE s == [subject |-> digest[p], rows |-> Collected(p), by |-> p, during |-> Appending]
<1>1. store \in Seq(Row)
  BY DEF TypeOK
<1>2. IsSeal(s)
  BY <1>1 DEF IsSeal, Collected, About, Appending
<1>3. /\ s.rows = [k \in About(digest[p]) |-> store[k]] /\ s.during = Appending
      /\ About(digest[p]) \subseteq DOMAIN store
  BY DEF Collected, About
<1> HIDE DEF s
<1>4. ASSUME NEW q \in Procs \ s.during, OwnIn(s, q) # {}, pc[q] # "stopped"
      PROVE  AllAppended(q) /\ HasAll(s, q)
  <2>1. PICK k \in About(digest[p]) : store[k].by = q
    BY <1>3, <1>4 DEF OwnIn
  <2>2. digest[q] = digest[p] /\ next[q] > 0
    BY <2>1, RowsInSeals DEF About
  <2>3. AllAppended(q)
    <3>1. pc[q] \notin Before
      BY <2>2 DEF DataInv, DataOf
    <3>2. pc[q] # "append" => AllAppended(q)
      BY <1>4, <2>2, <3>1 DEF DataInv, DataOf
    <3> QED
      BY <1>3, <1>4, <3>2 DEF Appending
  <2> QED
    BY <1>3, <2>2, <2>3, CollectedIsWhole
<1> QED
  BY <1>2, <1>3, <1>4 DEF IsWhole, s

(* Appends only extend the store. *)
LEMMA StoreGrows ==
    ASSUME TypeOK, job \in Jobs, DataInv, [Next]_vars
    PROVE  /\ \A k \in DOMAIN store : k \in DOMAIN store' /\ store'[k] = store[k]
           /\ \A q \in Procs : AllAppended(q) => next'[q] = next[q]
<1>1. CASE UNCHANGED storing
  BY <1>1 DEF storing
<1>2. ASSUME NEW p \in Procs, AppendRow(p)
      PROVE  /\ \A k \in DOMAIN store : k \in DOMAIN store' /\ store'[k] = store[k]
             /\ \A q \in Procs : AllAppended(q) => next'[q] = next[q]
  <2>1. \A k \in DOMAIN store : k \in DOMAIN store' /\ store'[k] = store[k]
    <3>1. /\ DOMAIN store = 1..Len(store) /\ Len(store) \in Nat
          /\ DOMAIN store' = 1..(Len(store) + 1)
          /\ \A k \in 1..Len(store) : store'[k] = store[k]
      BY <1>2, AnAppend
    <3> QED
      BY <3>1
  <2>2. \A q \in Procs : AllAppended(q) => next'[q] = next[q]
    BY <1>2 DEF AppendRow, TypeOK
  <2> QED
    BY <2>1, <2>2
<1> QED
  BY <1>1, <1>2, StoreOrAppend

LEMMA WholeStays ==
    ASSUME TypeOK, job \in Jobs, DataInv, StoreInv, [Next]_vars, NEW s, IsWhole(s)
    PROVE  IsWhole(s)'
<1>1. \A k \in DOMAIN s.rows : k \in DOMAIN store' /\ s.rows[k] = store'[k]
  BY StoreGrows DEF IsWhole
<1>2. ASSUME NEW q \in Procs \ s.during, OwnIn(s, q) # {}, pc'[q] # "stopped"
      PROVE  AllAppended(q)' /\ HasAll(s, q)'
  <2>1. pc[q] # "stopped"
    BY <1>2, EndedStays DEF Ended
  <2>2. AllAppended(q) /\ HasAll(s, q)
    BY <1>2, <2>1 DEF IsWhole
  <2>3. PICK k \in DOMAIN store : store[k].by = q
    BY <1>2 DEF OwnIn, IsWhole
  <2>4. Entries(q)' = Entries(q) /\ next'[q] = next[q]
    BY <2>2, <2>3, RowsInSeals, RowsAreFixed, StoreGrows
  <2> QED
    BY <2>2, <2>4 DEF AllAppended, HasAll, OwnIn
<1> QED
  BY <1>1, <1>2 DEF IsWhole, IsSeal, OwnIn

(* Who writes what. *)
LEMMA OutputSteps ==
    ASSUME TypeOK, KindInv, NEW p \in Procs, Step(p)
    PROVE  \/ outs' = outs /\ seal' = seal /\ pc'[p] \notin {"open", "write"}
              /\ (pc'[p] = "done" => job[p].out = None \/ Kinded(p, {"skillscan"}))
           \/ Assemble(p) \/ OpenOut(p) \/ WriteOut(p)
<1>1. pc \in [Procs -> Steps \cup Ended] /\ job[p].kind \in Kind
  BY DEF TypeOK, Job
<1> QED
  BY <1>1 DEF Step, Start, Read, Hash, Pin, ListDirectory, Look, HashFile, CompareClaim,
     AppendRow, Appended, Stop, Walked, Goto, AfterHash, KindInv, KindOf, Kinded, Signed,
     memory, Kind, Ended

LEMMA SealsStep ==
    ASSUME TypeOK, job \in Jobs, KindInv, DataInv, StoreInv, SealsInv, [Next]_vars
    PROVE  SealsInv'
<1>1. \A s : IsWhole(s) => IsWhole(s)'
  BY WholeStays
<1>2. ASSUME UNCHANGED <<pc, seal, outs>> PROVE SealsInv'
  BY <1>1, <1>2 DEF SealsInv
<1>3. CASE UNCHANGED vars
  BY <1>2, <1>3 DEF vars, memory
<1>4. ASSUME NEW path \in Path, Change(path) PROVE SealsInv'
  BY <1>2, <1>4, ARewrite DEF memory
<1>5. ASSUME NEW p \in Procs, Step(p) PROVE SealsInv'
  <2>1. \A q \in Procs \ {p} : pc'[q] = pc[q] /\ seal'[q] = seal[q]
    BY <1>5, StepsAreOnesOwn DEF OnlyOf
  <2>2. CASE outs' = outs /\ seal' = seal /\ pc'[p] \notin {"open", "write"}
    BY <1>1, <2>1, <2>2 DEF SealsInv
  <2>3. CASE Assemble(p)
    <3> DEFINE new == [subject |-> digest[p], rows |-> Collected(p),
                       by |-> p, during |-> Appending]
    <3>1. outs' = outs /\ pc[p] = "assemble"
      BY <2>3 DEF Assemble
    <3>2. IsWhole(new)
      BY <3>1, ANewSeal DEF DataInv, DataOf
    <3>3. pc'[p] \in {"open", "write"} => seal' = [seal EXCEPT ![p] = new]
      BY <2>3 DEF Assemble, Goto, TypeOK
    <3> HIDE DEF new
    <3>4. pc'[p] \in {"open", "write"} => IsWhole(seal[p])'
      <4>1. ASSUME pc'[p] \in {"open", "write"} PROVE seal'[p] = new
        BY <3>3, <4>1 DEF TypeOK
      <4>2. PICK s : s = new
        OBVIOUS
      <4>3. IsWhole(s)'
        BY <1>1, <3>2, <4>2
      <4> QED
        BY <4>1, <4>2, <4>3
    <3> QED
      BY <1>1, <2>1, <3>1, <3>4 DEF SealsInv
  <2>4. CASE OpenOut(p)
    <3>1. /\ pc[p] = "open" /\ outs' = [outs EXCEPT ![job[p].out] = Truncated]
          /\ seal' = seal
      BY <2>4 DEF OpenOut, memory
    <3>2. IsWhole(seal[p])
      BY <3>1 DEF SealsInv
    <3>3. \A out \in Out : outs'[out] \in {Truncated, outs[out]}
      BY <3>1 DEF TypeOK
    <3> QED
      BY <1>1, <2>1, <3>1, <3>2, <3>3 DEF SealsInv, Fragments
  <2>5. CASE WriteOut(p)
    <3>1. /\ pc[p] = "write" /\ seal' = seal
          /\ \E text \in {seal[p], Mixed} : outs' = [outs EXCEPT ![job[p].out] = text]
      BY <2>5 DEF WriteOut, memory
    <3>2. IsWhole(seal[p])
      BY <3>1 DEF SealsInv
    <3>3. \A out \in Out : outs'[out] \in {seal[p], Mixed, outs[out]}
      BY <3>1 DEF TypeOK
    <3> QED
      BY <1>1, <2>1, <3>1, <3>2, <3>3 DEF SealsInv, Fragments
  <2> QED
    BY <1>5, <2>2, <2>3, <2>4, <2>5, OutputSteps
<1> QED
  BY <1>3, <1>4, <1>5 DEF Next

(* Output files are written by the commands they belong to. *)
LEMMA OutputFiles ==
    ASSUME TypeOK, NEW p \in Procs, Step(p)
    PROVE  \A out \in Out \ {job[p].out} : outs'[out] = outs[out]
<1>1. outs' = outs \/ OpenOut(p) \/ WriteOut(p)
  BY DEF Step, Start, Read, Hash, Pin, ListDirectory, Look, HashFile, CompareClaim,
     AppendRow, Appended, Assemble, Stop
<1> QED
  BY <1>1 DEF OpenOut, WriteOut, TypeOK

LEMMA OutStep ==
    ASSUME TypeOK, job \in Jobs, KindInv, DataInv, StoreInv, SealsInv, OutInv, [Next]_vars
    PROVE  OutInv'
<1>1. job' = job
  BY RowsAreFixed
<1>2. \A p \in Procs : SoleOwner(p)' <=> SoleOwner(p)
  BY <1>1 DEF SoleOwner, Kinded
<1>3. \A s : IsWhole(s) => IsWhole(s)'
  BY WholeStays
<1>4. ASSUME NEW p \in Procs, Kinded(p, Scripted), pc[p] \in {"assemble"} \cup Signed
      PROVE  /\ next[p] > 0 /\ AllAppended(p) /\ Entries(p)' = Entries(p)
             /\ \A s : HasAll(s, p) => HasAll(s, p)'
  <2>1. next[p] > 0 /\ AllAppended(p)
    BY <1>4 DEF DataInv, DataOf
  <2>2. Entries(p)' = Entries(p)
    BY <2>1, RowsAreFixed
  <2> QED
    BY <2>1, <2>2 DEF HasAll, OwnIn
<1>5. ASSUME NEW p \in Procs, SoleOwner(p), OutOf(p), pc'[p] = pc[p], seal'[p] = seal[p],
             outs'[job[p].out] = outs[job[p].out]
      PROVE  OutOf(p)'
  <2>1. pc[p] \in {"open", "write"} => HasAll(seal[p], p)'
    <3>1. PICK s : s = seal[p]
      OBVIOUS
    <3>2. pc[p] \in {"open", "write"} => HasAll(s, p)'
      BY <1>4, <1>5, <3>1 DEF SoleOwner, Signed, OutOf
    <3> QED
      BY <1>5, <3>1, <3>2 DEF HasAll, OwnIn
  <2>2. pc[p] = "done" => IsWhole(outs[job[p].out])' /\ HasAll(outs[job[p].out], p)'
    <3>1. PICK s : s = outs[job[p].out]
      OBVIOUS
    <3>2. pc[p] = "done" => IsWhole(s)' /\ HasAll(s, p)'
      BY <1>3, <1>4, <1>5, <3>1 DEF SoleOwner, Signed, OutOf
    <3>3. outs'[job'[p].out] = s
      BY <1>1, <1>5, <3>1
    <3> QED
      BY <3>2, <3>3 DEF HasAll, OwnIn, IsWhole
  <2> QED
    BY <1>1, <1>5, <2>1, <2>2 DEF OutOf
<1>6. ASSUME UNCHANGED <<pc, seal, outs>> PROVE OutInv'
  BY <1>2, <1>5, <1>6 DEF OutInv
<1>7. CASE UNCHANGED vars
  BY <1>6, <1>7 DEF vars, memory
<1>8. ASSUME NEW path \in Path, Change(path) PROVE OutInv'
  BY <1>6, <1>8, ARewrite DEF memory
<1>9. ASSUME NEW q \in Procs, Step(q) PROVE OutInv'
  <2>1. ASSUME NEW p \in Procs \ {q}, SoleOwner(p) PROVE OutOf(p)'
    <3>1. pc'[p] = pc[p] /\ seal'[p] = seal[p]
      BY <1>9, StepsAreOnesOwn DEF OnlyOf
    <3>2. job[p].out \in Out \ {job[q].out}
      BY <2>1, TheJobs DEF SoleOwner, Job
    <3>3. outs'[job[p].out] = outs[job[p].out]
      BY <1>9, <3>2, OutputFiles
    <3> QED
      BY <1>5, <2>1, <3>1, <3>3 DEF OutInv
  <2>2. ASSUME SoleOwner(q) PROVE OutOf(q)'
    <3>1. OutOf(q) /\ Kinded(q, Scripted) /\ ~Kinded(q, {"keyless"}) /\ job[q].out \in Out
      BY <2>2, TheJobs DEF OutInv, SoleOwner, Kinded, Scripted, Job
    <3>2. CASE /\ outs' = outs /\ seal' = seal /\ pc'[q] \notin {"open", "write"}
               /\ (pc'[q] = "done" => job[q].out = None \/ Kinded(q, {"skillscan"}))
      BY <2>2, <3>1, <3>2 DEF OutOf, SoleOwner, Kinded, Scripted
    <3>3. CASE Assemble(q)
      <4>1. pc[q] = "assemble" /\ outs' = outs /\ pc'[q] \in {"open", "refused"}
        BY <3>1, <3>3 DEF Assemble, Goto, TypeOK, Kinded
      <4>2. CASE pc'[q] = "open"
        <5>1. seal'[q].rows = [k \in About(digest[q]) |-> store[k]]
          <6>1. seal' = [seal EXCEPT ![q] = [subject |-> digest[q], rows |-> Collected(q),
                                             by |-> q, during |-> Appending]]
            BY <3>3, <4>2 DEF Assemble, Goto, TypeOK
          <6>2. seal'[q] = [subject |-> digest[q], rows |-> Collected(q),
                            by |-> q, during |-> Appending]
            BY <6>1 DEF TypeOK
          <6> QED
            BY <6>2 DEF Collected
        <5>2. PICK s : s = seal'[q]
          OBVIOUS
        <5>3. HasAll(s, q)
          BY <1>4, <3>1, <4>1, <5>1, <5>2, CollectedIsWhole
        <5>4. HasAll(s, q)'
          BY <1>4, <3>1, <4>1, <5>3
        <5> QED
          BY <4>2, <5>2, <5>4 DEF OutOf, HasAll, OwnIn
      <4>3. CASE pc'[q] = "refused"
        BY <4>3 DEF OutOf
      <4> QED
        BY <4>1, <4>2, <4>3
    <3>4. CASE OpenOut(q)
      <4>1. /\ pc[q] = "open" /\ pc'[q] = "write" /\ seal' = seal
            /\ outs'[job[q].out] = Truncated
        BY <3>1, <3>4 DEF OpenOut, Goto, TypeOK, memory
      <4>2. PICK s : s = seal[q]
        OBVIOUS
      <4>3. HasAll(s, q)'
        BY <1>4, <3>1, <4>1, <4>2 DEF OutOf, Signed
      <4> QED
        BY <1>1, <4>1, <4>2, <4>3 DEF OutOf, HasAll, OwnIn
    <3>5. CASE WriteOut(q)
      <4>1. pc[q] = "write" /\ pc'[q] = "done" /\ outs[job[q].out] = Truncated
        BY <3>1, <3>5 DEF WriteOut, Goto, TypeOK, OutOf
      <4>2. outs'[job[q].out] = seal[q]
        BY <3>1, <3>5, <4>1 DEF WriteOut, TypeOK
      <4>3. PICK s : s = seal[q]
        OBVIOUS
      <4>4. HasAll(s, q)'
        BY <1>4, <3>1, <4>1, <4>3 DEF OutOf, Signed
      <4>5. IsWhole(s)'
        BY <1>3, <4>1, <4>3 DEF SealsInv
      <4>6. outs'[job'[q].out] = s
        BY <1>1, <4>2, <4>3
      <4>7. HasAll(outs[job[q].out], q)'
        BY <4>4, <4>6 DEF HasAll, OwnIn
      <4>8. IsWhole(outs[job[q].out])'
        BY <4>5, <4>6 DEF IsWhole, HasAll, OwnIn
      <4> QED
        BY <4>1, <4>7, <4>8 DEF OutOf
    <3> QED
      BY <1>9, <3>2, <3>3, <3>4, <3>5, OutputSteps
  <2> QED
    BY <1>2, <2>1, <2>2 DEF OutInv
<1> QED
  BY <1>7, <1>8, <1>9 DEF Next

--------------------------------------------------------------------------------
(* The invariant, and what follows from it.                                *)

LEMMA ScriptsInit == Init => Inv
<1> SUFFICES ASSUME Init PROVE Inv
  OBVIOUS
<1>1. /\ pc = [p \in Procs |-> "start"] /\ next = [p \in Procs |-> 0] /\ store = <<>>
      /\ seal = [p \in Procs |-> Absent] /\ outs = [out \in Out |-> Absent] /\ met = {}
      /\ job \in Jobs
  BY DEF Init
<1>2. TypeOK
  <2>1. InputsTypeOK
    <3>1. IsWalk(NotWalking)
      BY DEF IsWalk, NotWalking, NoManifest
    <3> QED
      BY <3>1, ScriptsAssumption, InputsAssumption DEF Init, InputsInit, InputsTypeOK
  <2> QED
    BY <1>1, <2>1, ScriptsAssumption DEF Init, TypeOK, Steps
<1>3. SinceInv
  BY <1>1 DEF SinceInv, Running
<1>4. KindInv
  BY <1>1 DEF KindInv, KindOf
<1>5. DataInv
  BY <1>1 DEF DataInv, DataOf, Before, Signed
<1>6. StoreInv
  BY <1>1 DEF StoreInv
<1>7. MetInv
  BY <1>1 DEF MetInv
<1>8. SealsInv /\ OutInv
  BY <1>1 DEF SealsInv, OutInv, OutOf, Fragments
<1> QED
  BY <1>1, <1>2, <1>3, <1>4, <1>5, <1>6, <1>7, <1>8 DEF Inv

LEMMA ScriptsStep == Inv /\ [Next]_vars => Inv'
<1> SUFFICES ASSUME Inv, [Next]_vars PROVE Inv'
  OBVIOUS
<1> USE DEF Inv
<1>1. TypeOK' /\ job' \in Jobs
  BY TypesStep
<1>2. SinceInv'
  BY SinceGrows
<1>3. KindInv' /\ DataInv'
  BY KindsStep, DataStep
<1>4. StoreInv' /\ MetInv'
  BY StoreStep, MetStep
<1>5. SealsInv' /\ OutInv'
  BY SealsStep, OutStep
<1> QED
  BY <1>1, <1>2, <1>3, <1>4, <1>5

(* What the scripts hold was in their files while they ran; their rows are *)
(* numbered in the store's order; seals copy the store; and the only owner *)
(* of an output file knows what is in it.                                  *)
THEOREM ScriptsInvariant == Spec => []Inv
BY ScriptsInit, ScriptsStep, PTL DEF Spec

(* Every state of every execution is well-formed: in particular what a     *)
(* script signs and stores is a seal over rows whose checks have all their *)
(* fields in range, whatever the files said (operantj.py; model.py).       *)
THEOREM Typing == Spec => []TypeOK
<1>1. Inv => TypeOK
  BY DEF Inv
<1> QED
  BY <1>1, ScriptsInvariant, PTL

(* A report that the script takes and that is well formed enforces: on     *)
(* proper numbers the coercions change nothing.                            *)
LEMMA ProperNumbersEnforce ==
    ASSUME NEW content \in Content, HarnessVets(content),
           WellFormedReport(ReportOf(content))
    PROVE  Enforces(ReportOf(content))
<1> DEFINE report == ReportOf(content)
<1>1. report \notin {NotAReport, Unparsable}
  BY DEF HarnessVets
<1>2. /\ report.ees \in 0..100 => EesOf(report.ees) = report.ees
      /\ report.enforced \in Nat => IntOf(report.enforced) = report.enforced
      /\ report.advised \in Nat => IntOf(report.advised) = report.advised
      /\ None \notin Nat
  BY <1>1, ScriptsAssumption
<1>3. report.ees \in 0..100 /\ report.enforced \in Nat /\ report.advised \in Nat
  BY DEF WellFormedReport
<1>4. /\ EesOf(report.ees) >= EesFloor
      /\ CountOf(report.enforced) > 0 /\ CountOf(report.advised) = 0
  BY DEF HarnessVets
<1>5. CountOf(report.enforced) = report.enforced /\ CountOf(report.advised) = report.advised
  BY <1>2, <1>3 DEF CountOf
<1> HIDE DEF report
<1> QED
  BY <1>2, <1>3, <1>4, <1>5 DEF Enforces, report

(* A row made of one reading of the source and one hashing of it is backed *)
(* by the two.                                                             *)
LEMMA TwoReadingsBack ==
    ASSUME NEW kind \in Scripted, NEW said \in Content, NEW hashed \in Content,
           NEW pin, NEW row, NEW n,
           Vets(kind, said), AboutSubject(kind, said, row.subject),
           n \in DOMAIN ToAppend(kind, said, pin),
           <<row.entry, row.evidence>> = ToAppend(kind, said, pin)[n],
           kind = "judge" => row.subject = Sha256(hashed),
           kind # "judge" => pin = Sha256(hashed)
    PROVE  Backs(kind, said, hashed, row)
<1>1. CASE kind = "judge"
  <2> DEFINE receipt == ReceiptOf(said)
  <2>1. ToAppend(kind, said, pin) =
            [k \in DOMAIN receipt |-> <<JudgeEntry(receipt[k]), receipt[k].evidence>>]
    BY <1>1 DEF ToAppend
  <2>2. n \in DOMAIN receipt /\ JudgeRecord(receipt[n])
    BY <1>1, <2>1 DEF Vets, JudgeVets
  <2>3. row.entry = JudgeEntry(receipt[n]) /\ row.evidence = receipt[n].evidence
    BY <2>1, <2>2
  <2>4. /\ receipt[n].enforced = "observed" /\ ~receipt[n].proof
        /\ row.entry.check.id.class = receipt[n].case
        /\ row.entry.verdict.result = receipt[n].result
    BY <2>2, <2>3 DEF JudgeRecord, JudgeEntry
  <2> QED
    BY <1>1, <2>2, <2>3, <2>4 DEF Backs
<1>2. CASE kind = "harness"
  <2> DEFINE report == ReportOf(said)
  <2>1. ToAppend(kind, said, pin) = <<<<HarnessEntry(report, pin), pin>>>>
    BY <1>2 DEF ToAppend
  <2>2. n = 1 /\ <<row.entry, row.evidence>> = <<HarnessEntry(report, pin), pin>>
    BY <2>1
  <2>3. row.entry = HarnessEntry(report, pin) /\ row.evidence = Sha256(hashed)
    BY <1>2, <2>2
  <2>4. HarnessVets(said) /\ report.config_sha256 = row.subject
    BY <1>2 DEF Vets, AboutSubject
  <2>5. /\ row.entry.verdict.enforced_proof.sha256 = Sha256(hashed)
        /\ row.entry.check.id.class = LastSegment(report.threat_class)
        /\ row.entry.check.config_ref = report.config_sha256
    BY <1>2, <2>3 DEF HarnessEntry
  <2>6. ASSUME said = hashed, WellFormedReport(report),
               LastSegment(report.threat_class) = report.threat_class
        PROVE  Resolves(row.entry, said)
    <3>1. Enforces(report)
      BY <2>4, <2>6, ProperNumbersEnforce
    <3>2. said # Unreadable
      BY ScriptsAssumption
    <3>3. /\ report \notin {NotAReport, Unparsable}
          /\ report.config_sha256 \notin {None, IllTyped}
          /\ report.threat_class \notin {None, IllTyped}
      BY <2>4 DEF HarnessVets
    <3> QED
      BY <2>5, <2>6, <3>1, <3>2, <3>3 DEF Resolves, CoversClass, StronglyBound,
         ThreatClassOf
  <2> QED
    BY <1>2, <2>3, <2>4, <2>5, <2>6 DEF Backs
<1>3. CASE kind = "manual"
  <2>1. ToAppend(kind, said, pin) =
            <<<<ManualEntry("rights-gate"), pin>>,
              <<ManualEntry("provenance-ledger"), RightsOf(said).ledger>>>>
    BY <1>3 DEF ToAppend
  <2>2. row.evidence \in {pin, RightsOf(said).ledger}
    BY <2>1
  <2> QED
    BY <1>3, <2>2 DEF Backs, AboutSubject
<1> QED
  BY <1>1, <1>2, <1>3 DEF Scripted

(* Every stored row is about bytes its script found in the subject and is  *)
(* backed by what its script found in the source, in one version of it or  *)
(* in the two it read and hashed, for any files, any changes to them and   *)
(* any interleaving of the commands (operantj.py; seal_harness_config.py;  *)
(* seal_field_manual.py).                                                  *)
THEOREM StoredRowsAreBacked == Spec => []EvidenceBacksTheRow
<1>1. ASSUME Inv PROVE EvidenceBacksTheRow
  <2> SUFFICES ASSUME NEW k \in DOMAIN store, NEW p, p = store[k].by
               PROVE  /\ \E content \in WasThere(p, job[p].subject) :
                            store[k].subject = Sha256(content)
                      /\ \E said, hashed \in WasThere(p, job[p].source) :
                            Backs(job[p].kind, said, hashed, store[k])
    BY DEF EvidenceBacksTheRow
  <2>1. p \in Procs
    <3>1. store \in Seq(Row)
      BY <1>1 DEF Inv, TypeOK
    <3>2. store[k] \in Row
      BY <3>1
    <3> QED
      BY <3>2 DEF Row
  <2>2. /\ next[p] \in Nat /\ next[p] > 0 /\ store[k].nth \in 1..next[p]
        /\ store[k].subject = digest[p]
        /\ <<store[k].entry, store[k].evidence>> = Entries(p)[store[k].nth]
    BY <1>1, <2>1, RowsInSeals DEF Inv
  <2>3. Ready(p) /\ next[p] <= Len(Entries(p))
    BY <1>1, <2>1, <2>2 DEF Inv, DataInv, DataOf
  <2>4. /\ Len(Entries(p)) \in Nat /\ DOMAIN Entries(p) = 1..Len(Entries(p))
        /\ job[p].source \in Path
    BY <1>1, <2>1, <2>3, EntriesTyped, TheJobs DEF Inv, Ready, Kinded, Scripted
  <2>5. WasThere(p, job[p].source) \subseteq Content
    BY <1>1, <2>1, <2>4 DEF Inv, TypeOK, InputsTypeOK, WasThere, Entry
  <2>6. held[p] \in WasThere(p, job[p].source)
    BY <2>3 DEF Ready, Vetted
  <2>7. PICK content \in WasThere(p, job[p].subject) : digest[p] = Sha256(content)
    BY <2>3 DEF Ready, Hashed
  <2>8. PICK hashed \in WasThere(p, job[p].source) :
            /\ ~Kinded(p, {"judge"}) => pinned[p] = Sha256(hashed)
            /\ Kinded(p, {"judge"}) => digest[p] = Sha256(hashed)
    <3>1. CASE Kinded(p, {"judge"})
      <4>1. job[p].subject = job[p].source
        BY <1>1, <2>1, <3>1, TheJobs DEF Inv
      <4> QED
        BY <2>7, <3>1, <4>1
    <3>2. CASE ~Kinded(p, {"judge"})
      BY <2>3, <3>2 DEF Ready, Pinned
    <3> QED
      BY <3>1, <3>2
  <2>9. Backs(job[p].kind, held[p], hashed, store[k])
    <3>1. /\ job[p].kind \in Scripted /\ Vets(job[p].kind, held[p])
          /\ AboutSubject(job[p].kind, held[p], store[k].subject)
      BY <2>2, <2>3 DEF Ready, Vetted, Hashed, Kinded
    <3>2. store[k].nth \in DOMAIN Entries(p)
      BY <2>2, <2>3, <2>4
    <3>3. held[p] \in Content /\ hashed \in Content
      BY <2>5, <2>6
    <3> QED
      BY <2>2, <2>8, <3>1, <3>2, <3>3, TwoReadingsBack DEF Entries, Kinded
  <2> QED
    BY <2>2, <2>6, <2>7, <2>9
<1> QED
  BY <1>1, ScriptsInvariant, PTL

(* Two judge runs with rows in one store overlapped (seal_operant_j_run.py *)
(* :43: the check for an old store).                                       *)
THEOREM JudgesDoNotFollow == Spec => []OneJudgePerStore
<1>1. ASSUME Inv PROVE OneJudgePerStore
  <2> SUFFICES ASSUME NEW j \in DOMAIN store, NEW k \in DOMAIN store, NEW p, NEW q,
                      p = store[j].by, q = store[k].by, p # q,
                      job[p].kind = "judge", job[q].kind = "judge"
               PROVE  {p, q} \in met
    BY DEF OneJudgePerStore
  <2>1. p \in Procs /\ q \in Procs
    <3>1. store \in Seq(Row)
      BY <1>1 DEF Inv, TypeOK
    <3>2. store[j] \in Row /\ store[k] \in Row
      BY <3>1
    <3> QED
      BY <3>2 DEF Row
  <2>2. next[p] > 0 /\ next[q] > 0 /\ next[p] \in Nat /\ next[q] \in Nat
    BY <1>1, <2>1, RowsInSeals DEF Inv
  <2>3. pc[p] # "start" /\ pc[q] # "start"
    BY <1>1, <2>1, <2>2 DEF Inv, DataInv, DataOf, Before
  <2>4. ~EndedBare(p) /\ ~EndedBare(q)
    BY <2>2 DEF EndedBare
  <2> QED
    BY <1>1, <2>1, <2>3, <2>4 DEF Inv, MetInv, Kinded
<1> QED
  BY <1>1, ScriptsInvariant, PTL

LEMMA SealedAreWhole ==
    ASSUME Inv, NEW s \in Sealed
    PROVE  IsWhole(s)
BY DEF Inv, SealsInv, Sealed, Fragments

(* A seal has all of the checks of a command or none, unless the command   *)
(* was stopped, or was not through when the seal was assembled (store.py:  *)
(* read_for_subject; operantj.py; the scripts' main functions).            *)
THEOREM SealsAreWhole == Spec => []OnlyStoppedRunsAreSealedInPart
<1>1. Inv => OnlyStoppedRunsAreSealedInPart
  BY SealedAreWhole DEF OnlyStoppedRunsAreSealedInPart, IsWhole
<1> QED
  BY <1>1, ScriptsInvariant, PTL

(* A script that ended well, and shares its output file with nobody, has   *)
(* its seal there, with all of its checks in the order of its source,      *)
(* whatever others stored meanwhile (the scripts' main functions).         *)
THEOREM EndedScriptsAreSealed == Spec => []DoneMeansSealed
<1>1. ASSUME Inv PROVE DoneMeansSealed
  <2> SUFFICES ASSUME NEW p \in Procs, pc[p] = "done",
                      job[p].kind \notin {"keyless", "skillscan"}, job[p].out # None,
                      \A q \in Procs \ {p} : job[q].out # job[p].out,
                      NEW s, s = outs[job[p].out]
               PROVE  /\ s \in Sealed /\ HasAll(s, p)
                      /\ \A k \in OwnIn(s, p) :
                            /\ <<s.rows[k].entry, s.rows[k].evidence>>
                                  = Entries(p)[s.rows[k].nth]
                            /\ \A j \in OwnIn(s, p) :
                                  j < k <=> s.rows[j].nth < s.rows[k].nth
    BY DEF DoneMeansSealed
  <2>1. job[p].kind \in Kind /\ job[p].out \in Out
    BY <1>1, TheJobs DEF Inv, Job
  <2>2. IsWhole(s) /\ HasAll(s, p)
    <3>1. SoleOwner(p)
      BY <2>1 DEF SoleOwner, Kinded, Scripted, Kind
    <3> QED
      BY <1>1, <3>1 DEF Inv, OutInv, OutOf
  <2>3. s \in Sealed
    <3>1. s \notin {Absent, Truncated, Mixed}
      BY <2>2 DEF IsWhole, IsSeal, Absent, Truncated, Mixed
    <3> QED
      BY <2>1, <3>1 DEF Sealed
  <2>4. ASSUME NEW k \in OwnIn(s, p)
        PROVE  k \in DOMAIN store /\ s.rows[k] = store[k] /\ store[k].by = p
    BY <2>2 DEF IsWhole, OwnIn
  <2>5. ASSUME NEW k \in OwnIn(s, p)
        PROVE  <<s.rows[k].entry, s.rows[k].evidence>> = Entries(p)[s.rows[k].nth]
    BY <1>1, <2>4, RowsInSeals DEF Inv
  <2>6. ASSUME NEW j \in OwnIn(s, p), NEW k \in OwnIn(s, p)
        PROVE  j < k <=> s.rows[j].nth < s.rows[k].nth
    <3>1. /\ j \in DOMAIN store /\ k \in DOMAIN store
          /\ s.rows[j] = store[j] /\ s.rows[k] = store[k]
          /\ store[j].by = p /\ store[k].by = p
      BY <2>4
    <3>2. j \in Nat /\ k \in Nat
      BY <1>1, <3>1 DEF Inv, TypeOK
    <3>3. store[j].nth \in 1..next[p] /\ store[k].nth \in 1..next[p] /\ next[p] \in Nat
      BY <1>1, <3>1, RowsInSeals DEF Inv
    <3>4. /\ j < k => store[j].nth < store[k].nth
          /\ k < j => store[k].nth < store[j].nth
      BY <1>1, <3>1 DEF Inv, StoreInv
    <3> QED
      BY <3>1, <3>2, <3>3, <3>4
  <2> QED
    BY <2>2, <2>3, <2>5, <2>6
<1> QED
  BY <1>1, ScriptsInvariant, PTL
-----------------------------------------------------------------------------
(***************************************************************************)
(* What seal-skillscan takes a bundle to be, for any tree, any rewrites of *)
(* it and any order of the walk (Inputs' walk, bundle.py).                 *)
(*                                                                         *)
(* Two invariants of a walk.  Seen is about every walk: what is in its     *)
(* manifest was there, and what was there all along is still to be listed, *)
(* still to be looked at, or was a file when it was looked at.  Exact is   *)
(* about the walk of a tree that does not change: the manifest is that of  *)
(* the paths taken so far, which have no links and no two of one name.     *)
(***************************************************************************)

(* seen[path] is all that the path has been so far. *)
Seen(w, seen) ==
    /\ w.listed \subseteq BundlePaths
    /\ w.hashing # None => w.hashing \in BundlePaths /\ Counts(w.hashing)
    /\ \A key \in DOMAIN w.manifest : \E path \in BundlePaths :
          /\ Counts(path) /\ Key(path) = key
          /\ \E entry \in seen[path] \ {None} : w.manifest[key] = entry.bytes
    /\ \A path \in BundlePaths : Counts(path) /\ None \notin seen[path] =>
          \/ DirOf(path) \in w.unlisted
          \/ path \in w.listed
          \/ /\ path = w.hashing \/ Key(path) \in DOMAIN w.manifest
             /\ \E entry \in seen[path] : entry.kind = "file"

(* The paths of the tree was that a walk is through with, or at. *)
Taken(w, was) == {path \in BundlePaths : /\ was[path] # None
                                         /\ DirOf(path) \notin w.unlisted
                                         /\ path \notin w.listed}

Exact(w, was) ==
    LET taken == Taken(w, was) \cap Tree(was) IN
    /\ w.listed \subseteq {path \in BundlePaths : was[path] # None}
    /\ w.hashing # None => w.hashing \in taken
    /\ \A path \in Taken(w, was) : ~Noise(path) => was[path].kind = "file"
    /\ \A x, y \in taken : Key(x) = Key(y) => x = y
    /\ DOMAIN w.manifest = {Key(path) : path \in taken \ {w.hashing}}
    /\ \A path \in taken \ {w.hashing} : w.manifest[Key(path)] = was[path].bytes

IsOver(w) == w.unlisted = {} /\ w.listed = {} /\ w.hashing = None

BundleOf(p) ==
    /\ pc[p] \in {"walk", "done"} =>
          /\ Vetted(p) /\ Seen(walk[p], since[p])
          /\ Quiet(p) => Exact(walk[p], WasIn(p))
    /\ pc[p] = "done" => /\ IsOver(walk[p]) /\ walk[p].manifest # NoManifest
                         /\ walk[p].manifest = ClaimOf(held[p])
    /\ pc[p] = "refused" /\ Quiet(p) => ~ClaimsTheTree(p)

BundleInv == \A p \in Procs : Kinded(p, {"skillscan"}) => BundleOf(p)

--------------------------------------------------------------------------------
(* Walks by themselves.                                                    *)

LEMMA ListedFields ==
    ASSUME NEW w, IsWalk(w), NEW dir, NEW found, NEW v, v = WithListed(w, dir, found)
    PROVE  /\ v.unlisted = w.unlisted \ {dir} /\ v.listed = w.listed \cup found
           /\ v.hashing = w.hashing /\ v.manifest = w.manifest
BY DEF IsWalk, WithListed

LEMMA LookedFields ==
    ASSUME NEW w, IsWalk(w), NEW path, NEW next_one, NEW v, v = WithLooked(w, path, next_one)
    PROVE  /\ v.unlisted = w.unlisted /\ v.listed = w.listed \ {path}
           /\ v.hashing = next_one /\ v.manifest = w.manifest
BY DEF IsWalk, WithLooked

LEMMA HashedFields ==
    ASSUME NEW w, IsWalk(w), NEW path, NEW bytes, NEW v, v = WithHashed(w, path, bytes)
    PROVE  /\ v.unlisted = w.unlisted /\ v.listed = w.listed /\ v.hashing = None
           /\ DOMAIN v.manifest = DOMAIN w.manifest \cup {Key(path)}
           /\ v.manifest[Key(path)] = bytes
           /\ \A key \in DOMAIN w.manifest \ {Key(path)} : v.manifest[key] = w.manifest[key]
BY DEF IsWalk, WithHashed

LEMMA BeginFields ==
    ASSUME NEW v, v = [NotWalking EXCEPT !.unlisted = Dir]
    PROVE  /\ v.unlisted = Dir /\ v.listed = {} /\ v.hashing = None
           /\ DOMAIN v.manifest = {}
BY DEF NotWalking, NoManifest

LEMMA BundleDirs ==
    /\ BundlePaths \subseteq Path
    /\ \A path \in BundlePaths : DirOf(path) \in Dir
    /\ \A path \in Path : DirOf(path) \in Dir => path \in BundlePaths
    /\ None \notin Path
BY InputsAssumption DEF BundlePaths

LEMMA SeenMore ==
    ASSUME NEW w, NEW seen, NEW more, Seen(w, seen),
           \A path \in Path : seen[path] \subseteq more[path]
    PROVE  Seen(w, more)
<1>1. \A path \in BundlePaths : seen[path] \subseteq more[path]
  BY BundleDirs
<1> QED
  BY <1>1 DEF Seen

LEMMA SeenBegins ==
    ASSUME NEW seen, NEW v, v = [NotWalking EXCEPT !.unlisted = Dir]
    PROVE  Seen(v, seen)
BY BeginFields, BundleDirs DEF Seen

LEMMA SeenLists ==
    ASSUME NEW w, IsWalk(w), NEW seen, Seen(w, seen), NEW dir \in Dir,
           \A path \in Path : files[path] \in seen[path],
           NEW v, v = WithListed(w, dir, {path \in Path :
                                             DirOf(path) = dir /\ files[path] # None})
    PROVE  Seen(v, seen)
<1> DEFINE found == {path \in Path : DirOf(path) = dir /\ files[path] # None}
<1>1. /\ v.unlisted = w.unlisted \ {dir} /\ v.listed = w.listed \cup found
      /\ v.hashing = w.hashing /\ v.manifest = w.manifest
  BY ListedFields
<1>2. found \subseteq BundlePaths
  BY BundleDirs
<1>3. ASSUME NEW path \in BundlePaths, None \notin seen[path], DirOf(path) = dir
      PROVE  path \in found
  BY <1>3, BundleDirs
<1> HIDE DEF found
<1>4. \A key \in DOMAIN v.manifest : \E x \in BundlePaths :
          /\ Counts(x) /\ Key(x) = key
          /\ \E entry \in seen[x] \ {None} : v.manifest[key] = entry.bytes
  <2>1. \A key \in DOMAIN w.manifest : \E x \in BundlePaths :
            /\ Counts(x) /\ Key(x) = key
            /\ \E entry \in seen[x] \ {None} : w.manifest[key] = entry.bytes
    BY DEF Seen
  <2>2. v.manifest = w.manifest
    BY <1>1
  <2> QED
    BY <2>1, <2>2
<1>5. ASSUME NEW x \in BundlePaths, Counts(x), None \notin seen[x]
      PROVE  \/ DirOf(x) \in v.unlisted
             \/ x \in v.listed
             \/ /\ x = v.hashing \/ Key(x) \in DOMAIN v.manifest
                /\ \E entry \in seen[x] : entry.kind = "file"
  <2>1. \/ DirOf(x) \in w.unlisted
        \/ x \in w.listed
        \/ /\ x = w.hashing \/ Key(x) \in DOMAIN w.manifest
           /\ \E entry \in seen[x] : entry.kind = "file"
    BY <1>5 DEF Seen
  <2> QED
    BY <1>1, <1>3, <1>5, <2>1
<1> QED
  BY <1>1, <1>2, <1>4, <1>5 DEF Seen

LEMMA SeenLooks ==
    ASSUME NEW p, NEW w, w = walk[p], IsWalk(w), NEW seen, Seen(w, seen),
           w.hashing = None, NEW path \in w.listed, ~Refused(p, path),
           \A x \in Path : files[x] \in seen[x] /\ files[x] \in Entry \cup {None},
           NEW v, v = WithLooked(w, path, IF Skipped(path) THEN None ELSE path)
    PROVE  Seen(v, seen)
<1>1. /\ v.unlisted = w.unlisted /\ v.listed = w.listed \ {path}
      /\ v.hashing = IF Skipped(path) THEN None ELSE path
      /\ v.manifest = w.manifest
  BY LookedFields
<1>2. path \in BundlePaths /\ path \in Path /\ DirOf(path) # None
  BY BundleDirs DEF Seen, BundlePaths
<1>3. ~Skipped(path) => Counts(path)
  BY <1>2 DEF Skipped, Counts
<1>4. Counts(path) /\ None \notin seen[path] =>
          ~Skipped(path) /\ \E entry \in seen[path] : entry.kind = "file"
  BY <1>2 DEF Counts, Skipped, Refused, IsLink, Entry
<1>5. \A key \in DOMAIN v.manifest : \E x \in BundlePaths :
          /\ Counts(x) /\ Key(x) = key
          /\ \E entry \in seen[x] \ {None} : v.manifest[key] = entry.bytes
  BY <1>1 DEF Seen
<1>6. ASSUME NEW x \in BundlePaths, Counts(x), None \notin seen[x]
      PROVE  \/ DirOf(x) \in v.unlisted
             \/ x \in v.listed
             \/ /\ x = v.hashing \/ Key(x) \in DOMAIN v.manifest
                /\ \E entry \in seen[x] : entry.kind = "file"
  <2>1. \/ DirOf(x) \in w.unlisted
        \/ x \in w.listed
        \/ /\ x = w.hashing \/ Key(x) \in DOMAIN w.manifest
           /\ \E entry \in seen[x] : entry.kind = "file"
    BY <1>6 DEF Seen
  <2> QED
    BY <1>1, <1>4, <1>6, <2>1, BundleDirs
<1> QED
  BY <1>1, <1>2, <1>3, <1>5, <1>6 DEF Seen

LEMMA SeenHashes ==
    ASSUME NEW w, IsWalk(w), NEW seen, Seen(w, seen), NEW path, path = w.hashing,
           path # None, files[path] \in seen[path], files[path] # None,
           NEW v, v = WithHashed(w, path, files[path].bytes)
    PROVE  Seen(v, seen)
<1>1. /\ v.unlisted = w.unlisted /\ v.listed = w.listed /\ v.hashing = None
      /\ DOMAIN v.manifest = DOMAIN w.manifest \cup {Key(path)}
      /\ v.manifest[Key(path)] = files[path].bytes
      /\ \A key \in DOMAIN w.manifest \ {Key(path)} : v.manifest[key] = w.manifest[key]
  BY HashedFields
<1>2. path \in BundlePaths /\ Counts(path)
  BY DEF Seen
<1> QED
  BY <1>1, <1>2 DEF Seen

(* The tree that was, while it is. *)
IsTree(was) == \A path \in BundlePaths : was[path] \in Entry \cup {None}
Still(was)  == \A path \in BundlePaths : files[path] = was[path]

LEMMA ExactBegins ==
    ASSUME NEW was, NEW v, v = [NotWalking EXCEPT !.unlisted = Dir]
    PROVE  Exact(v, was)
<1>1. v.unlisted = Dir /\ v.listed = {} /\ v.hashing = None /\ DOMAIN v.manifest = {}
  BY BeginFields
<1>2. Taken(v, was) = {}
  BY <1>1, BundleDirs DEF Taken
<1> QED
  BY <1>1, <1>2 DEF Exact

LEMMA ExactLists ==
    ASSUME NEW w, IsWalk(w), NEW was, Exact(w, was), Still(was), NEW dir \in w.unlisted,
           NEW v, v = WithListed(w, dir, {path \in Path :
                                             DirOf(path) = dir /\ files[path] # None})
    PROVE  Exact(v, was)
<1> DEFINE found == {path \in Path : DirOf(path) = dir /\ files[path] # None}
<1>1. /\ v.unlisted = w.unlisted \ {dir} /\ v.listed = w.listed \cup found
      /\ v.hashing = w.hashing /\ v.manifest = w.manifest
  BY ListedFields
<1>2. dir \in Dir
  BY DEF IsWalk
<1>3. found = {path \in BundlePaths : DirOf(path) = dir /\ was[path] # None}
  BY <1>2, BundleDirs DEF Still
<1> HIDE DEF found
<1>4. Taken(v, was) = Taken(w, was)
  BY <1>1, <1>3 DEF Taken
<1>5. v.listed \subseteq {path \in BundlePaths : was[path] # None}
  BY <1>1, <1>3 DEF Exact
<1> QED
  BY <1>1, <1>4, <1>5 DEF Exact

(* Looking takes one path more. *)
LEMMA TakenLooks ==
    ASSUME NEW w, IsWalk(w), NEW was, Exact(w, was), w.unlisted = {},
           NEW path \in w.listed, NEW next_one,
           NEW v, v = WithLooked(w, path, next_one)
    PROVE  /\ path \in BundlePaths /\ was[path] # None
           /\ path \notin Taken(w, was)
           /\ Taken(v, was) = Taken(w, was) \cup {path}
<1>1. v.unlisted = {} /\ v.listed = w.listed \ {path}
  BY LookedFields
<1>2. path \in BundlePaths /\ was[path] # None
  BY DEF Exact
<1> QED
  BY <1>1, <1>2 DEF Taken

LEMMA ExactLooks ==
    ASSUME NEW p, NEW w, w = walk[p], IsWalk(w), NEW was, Exact(w, was), Still(was),
           IsTree(was), w.unlisted = {}, w.hashing = None,
           NEW path \in w.listed, ~Refused(p, path),
           NEW v, v = WithLooked(w, path, IF Skipped(path) THEN None ELSE path)
    PROVE  Exact(v, was)
<1> DEFINE taken == Taken(w, was) \cap Tree(was)
<1>1. /\ v.unlisted = {} /\ v.listed = w.listed \ {path} /\ v.manifest = w.manifest
      /\ v.hashing = IF Skipped(path) THEN None ELSE path
  BY LookedFields
<1>2. /\ path \in BundlePaths /\ was[path] # None /\ files[path] = was[path]
      /\ path \notin Taken(w, was) /\ Taken(v, was) = Taken(w, was) \cup {path}
  BY TakenLooks DEF Still
<1>3. ~Noise(path) => was[path].kind = "file"
  BY <1>2 DEF Refused, IsLink, IsTree, Entry
<1>4. path \in Tree(was) <=> ~Skipped(path)
  BY <1>2 DEF Tree, Counts, Skipped, BundlePaths
<1>5. DOMAIN w.manifest = {Key(x) : x \in taken} /\ None \notin taken
  BY BundleDirs DEF Exact, Tree
<1>6. ~Skipped(path) => \A x \in taken : Key(x) # Key(path)
  BY <1>5 DEF Refused
<1>7. Taken(v, was) \cap Tree(was) = IF Skipped(path) THEN taken ELSE taken \cup {path}
  BY <1>2, <1>4
<1>8. (Taken(v, was) \cap Tree(was)) \ {v.hashing} = taken
  BY <1>1, <1>2, <1>5, <1>7
<1>9. \A x, y \in Taken(v, was) \cap Tree(was) : Key(x) = Key(y) => x = y
  BY <1>6, <1>7 DEF Exact
<1>10. \A x \in taken : w.manifest[Key(x)] = was[x].bytes
  BY <1>5 DEF Exact
<1>11. \A x \in Taken(v, was) : ~Noise(x) => was[x].kind = "file"
  BY <1>2, <1>3 DEF Exact
<1>12. v.listed \subseteq {x \in BundlePaths : was[x] # None}
  BY <1>1 DEF Exact
<1>13. v.hashing # None => v.hashing \in Taken(v, was) \cap Tree(was)
  BY <1>1, <1>7
<1> HIDE DEF taken
<1> QED
  BY <1>1, <1>5, <1>8, <1>9, <1>10, <1>11, <1>12, <1>13 DEF Exact

LEMMA ExactHashes ==
    ASSUME NEW w, IsWalk(w), NEW was, Exact(w, was), Still(was),
           NEW path, path = w.hashing, path # None,
           NEW v, v = WithHashed(w, path, files[path].bytes)
    PROVE  Exact(v, was) /\ files[path] # None
<1> DEFINE taken == Taken(w, was) \cap Tree(was)
<1>1. /\ v.unlisted = w.unlisted /\ v.listed = w.listed /\ v.hashing = None
      /\ DOMAIN v.manifest = DOMAIN w.manifest \cup {Key(path)}
      /\ v.manifest[Key(path)] = files[path].bytes
      /\ \A key \in DOMAIN w.manifest \ {Key(path)} : v.manifest[key] = w.manifest[key]
  BY HashedFields
<1>2. path \in taken /\ path \in BundlePaths /\ None \notin taken
  BY BundleDirs DEF Exact, Tree
<1>3. files[path] = was[path] /\ was[path] # None
  BY <1>2 DEF Still, Tree
<1>4. Taken(v, was) = Taken(w, was)
  BY <1>1 DEF Taken
<1>5. \A x, y \in taken : Key(x) = Key(y) => x = y
  BY DEF Exact
<1>6. DOMAIN w.manifest = {Key(x) : x \in taken \ {path}}
  BY DEF Exact
<1>7. DOMAIN v.manifest = {Key(x) : x \in taken}
  BY <1>1, <1>2, <1>6
<1>8. ASSUME NEW x \in taken PROVE v.manifest[Key(x)] = was[x].bytes
  <2>1. CASE x = path
    BY <1>1, <1>3, <2>1
  <2>2. CASE x # path
    <3>1. Key(x) # Key(path) /\ Key(x) \in DOMAIN w.manifest
      BY <1>2, <1>5, <1>6, <2>2
    <3>2. w.manifest[Key(x)] = was[x].bytes
      BY <2>2 DEF Exact
    <3> QED
      BY <1>1, <3>1, <3>2
  <2> QED
    BY <2>1, <2>2
<1>9. /\ v.listed \subseteq {x \in BundlePaths : was[x] # None}
      /\ \A x \in Taken(v, was) : ~Noise(x) => was[x].kind = "file"
  BY <1>1, <1>4 DEF Exact
<1>10. taken \ {v.hashing} = taken
  BY <1>1, <1>2
<1> HIDE DEF taken
<1>11. Taken(v, was) \cap Tree(was) = taken
  BY <1>4 DEF taken
<1> QED
  BY <1>1, <1>3, <1>5, <1>7, <1>8, <1>9, <1>10, <1>11 DEF Exact

(* A tree that a look refuses has no manifest. *)
LEMMA ExactRefuses ==
    ASSUME NEW p, NEW w, w = walk[p], NEW was, Exact(w, was), Still(was), IsTree(was),
           w.hashing = None, NEW path \in w.listed, Refused(p, path)
    PROVE  ~HasManifest(was)
<1>1. path \in BundlePaths /\ was[path] # None /\ files[path] = was[path]
  BY DEF Exact, Still
<1>2. CASE ~Noise(path) /\ IsLink(path)
  BY <1>1, <1>2 DEF IsLink, HasManifest
<1>3. CASE ~Skipped(path) /\ Key(path) \in DOMAIN w.manifest
  <2>1. path \in Tree(was)
    BY <1>1, <1>3 DEF Skipped, Tree, Counts, BundlePaths
  <2>2. PICK x \in Taken(w, was) \cap Tree(was) : Key(x) = Key(path)
    BY <1>3 DEF Exact
  <2>3. x # path
    BY <2>2 DEF Taken
  <2> QED
    BY <2>1, <2>2, <2>3 DEF HasManifest
<1> QED
  BY <1>2, <1>3 DEF Refused

(* At the end of the walk the manifest is that of the tree. *)
LEMMA ExactEnds ==
    ASSUME NEW w, IsWalk(w), NEW was, Exact(w, was), IsOver(w)
    PROVE  /\ w.manifest = ManifestOf(was)
           /\ HasManifest(was) <=> w.manifest # NoManifest
<1>1. Taken(w, was) = {path \in BundlePaths : was[path] # None}
  BY DEF IsOver, Taken
<1>2. Taken(w, was) \cap Tree(was) = Tree(was) /\ None \notin Tree(was)
  BY <1>1, BundleDirs DEF Tree
<1>3. Tree(was) \ {w.hashing} = Tree(was)
  BY <1>2 DEF IsOver
<1>4. /\ DOMAIN w.manifest = {Key(path) : path \in Tree(was)}
      /\ \A path \in Tree(was) : w.manifest[Key(path)] = was[path].bytes
      /\ \A x, y \in Tree(was) : Key(x) = Key(y) => x = y
      /\ \A path \in BundlePaths :
            ~Noise(path) /\ was[path] # None => was[path].kind = "file"
  BY <1>1, <1>2, <1>3 DEF Exact
<1>5. w.manifest = [key \in DOMAIN w.manifest |-> w.manifest[key]]
  BY DEF IsWalk
<1>6. ASSUME NEW key \in DOMAIN w.manifest
      PROVE  w.manifest[key] = was[CHOOSE path \in Tree(was) : Key(path) = key].bytes
  <2>1. PICK path \in Tree(was) : Key(path) = key
    BY <1>4
  <2>2. (CHOOSE x \in Tree(was) : Key(x) = key) = path
    BY <1>4, <2>1
  <2> QED
    BY <1>4, <2>1, <2>2
<1>7. w.manifest = ManifestOf(was)
  BY <1>4, <1>5, <1>6 DEF ManifestOf
<1>8. w.manifest = NoManifest <=> Tree(was) = {}
  <2>1. w.manifest = NoManifest <=> DOMAIN w.manifest = {}
    BY <1>5 DEF NoManifest
  <2> QED
    BY <1>4, <2>1
<1> QED
  BY <1>4, <1>7, <1>8 DEF HasManifest

LEMMA ManifestsAreTyped ==
    ASSUME NEW was, IsTree(was)
    PROVE  ManifestOf(was) # IllTyped
<1> DEFINE keys == {Key(path) : path \in Tree(was)}
<1>1. keys \in SUBSET {Key(path) : path \in Path}
  BY BundleDirs DEF Tree
<1>2. ASSUME NEW key \in keys
      PROVE  was[CHOOSE path \in Tree(was) : Key(path) = key].bytes \in Content
  <2>1. (CHOOSE path \in Tree(was) : Key(path) = key) \in Tree(was)
    BY <1>2
  <2> QED
    BY <2>1 DEF Tree, IsTree, Entry
<1>3. ManifestOf(was) \in [keys -> Content]
  BY <1>2 DEF ManifestOf
<1> HIDE DEF keys
<1> QED
  BY <1>1, <1>3, ScriptsAssumption

--------------------------------------------------------------------------------
(* Walks among the other commands.                                         *)

IsScan(p) == p \in Procs /\ Kinded(p, {"skillscan"})

LEMMA ScansAreSomewhere ==
    ASSUME Inv, NEW p, IsScan(p)
    PROVE  /\ pc[p] \in {"start", "read", "walk"} \cup Ended
           /\ job[p].source \in Path /\ IsWalk(walk[p])
           /\ ~Kinded(p, {"keyless"}) /\ ~Kinded(p, Scripted) /\ ~Kinded(p, {"judge"})
<1>1. pc[p] \in Steps \cup Ended /\ IsWalk(walk[p])
  BY DEF IsScan, Inv, TypeOK, InputsTypeOK
<1>2. pc[p] \notin {"hash", "pin", "append", "assemble", "open", "write"}
  BY DEF IsScan, Inv, KindInv, KindOf, DataInv, DataOf, Ready, Kinded, Scripted
<1>3. ~Kinded(p, {"keyless"}) /\ ~Kinded(p, Scripted) /\ ~Kinded(p, {"judge"})
  BY DEF IsScan, Kinded, Scripted
<1>4. job[p].source \in Path
  BY <1>3, TheJobs DEF IsScan, Inv
<1> QED
  BY <1>1, <1>2, <1>3, <1>4 DEF Steps

(* While a command runs and nothing changes, the files are what they were. *)
LEMMA QuietFacts ==
    ASSUME Inv, NEW p, IsScan(p), p \in Running, Quiet(p)
    PROVE  /\ \A path \in BundlePaths \cup {job[p].source} : since[p][path] = {files[path]}
           /\ IsTree(WasIn(p)) /\ Still(WasIn(p))
<1>1. BundlePaths \cup {job[p].source} \subseteq Path
  BY BundleDirs, ScansAreSomewhere
<1>2. ASSUME NEW path \in BundlePaths \cup {job[p].source}
      PROVE  since[p][path] = {files[path]} /\ files[path] \in Entry \cup {None}
  <2>1. files[path] \in since[p][path] /\ files[path] \in Entry \cup {None}
    BY <1>1 DEF Inv, SinceInv, TypeOK, InputsTypeOK
  <2> QED
    BY <2>1 DEF Quiet, Untouched
<1>3. ASSUME NEW path \in BundlePaths PROVE WasIn(p)[path] = files[path]
  BY <1>2 DEF WasIn
<1> QED
  BY <1>2, <1>3 DEF IsTree, Still

(* A command that has ended sees no more changes. *)
LEMMA EndedSees ==
    ASSUME TypeOK, [Next]_vars, NEW p \in Procs, pc[p] \in Ended
    PROVE  since'[p] = since[p]
<1>1. CASE UNCHANGED vars
  BY <1>1 DEF vars, inputVars
<1>2. ASSUME NEW path \in Path, Change(path) PROVE since'[p] = since[p]
  BY <1>2, ARewrite
<1>3. ASSUME NEW q \in Procs, Step(q) PROVE since'[p] = since[p]
  <2>1. CASE q = p
    BY <1>3, <2>1, EndedStays DEF Step, Start, Read, Hash, Pin, ListDirectory, Look,
       HashFile, CompareClaim, AppendRow, Appended, Assemble, OpenOut, WriteOut, Stop,
       inputVars, Ended
  <2>2. CASE q # p
    BY <1>3, <2>2, StepsAreOnesOwn DEF OnlyOf
  <2> QED
    BY <2>1, <2>2
<1> QED
  BY <1>1, <1>2, <1>3 DEF Next

LEMMA QuietWas ==
    ASSUME Inv, [Next]_vars, NEW p, IsScan(p), pc[p] # "start", Quiet(p)'
    PROVE  /\ Quiet(p) /\ WasIn(p)' = WasIn(p)
           /\ WasThere(p, job[p].source)' = WasThere(p, job[p].source)
<1>1. BundlePaths \cup {job[p].source} \subseteq Path /\ p \in Procs
  BY BundleDirs, ScansAreSomewhere DEF IsScan
<1>2. job' = job /\ Grows
  BY RowsAreFixed, SinceGrows DEF Inv
<1>3. ASSUME NEW path \in BundlePaths \cup {job[p].source}
      PROVE  Untouched(p, path) /\ since'[p][path] = since[p][path]
  <2>1. PICK entry \in since'[p][path] : since'[p][path] = {entry}
    BY <1>2 DEF Quiet, Untouched
  <2>2. CASE p \in Running
    <3>1. files[path] \in since[p][path] /\ since[p][path] \subseteq since'[p][path]
      BY <1>1, <1>2, <2>2 DEF Inv, SinceInv, Grows, Running
    <3> QED
      BY <2>1, <3>1 DEF Untouched
  <2>3. CASE p \notin Running
    <3>1. since'[p] = since[p]
      BY <1>1, <2>3, EndedSees DEF Running, Inv
    <3> QED
      BY <2>1, <3>1 DEF Untouched
  <2> QED
    BY <2>2, <2>3
<1>4. WasIn(p)' = WasIn(p)
  BY <1>3 DEF WasIn
<1>5. WasThere(p, job[p].source)' = WasThere(p, job[p].source)
  BY <1>2, <1>3 DEF WasThere
<1> QED
  BY <1>3, <1>4, <1>5 DEF Quiet

LEMMA BundleFrame ==
    ASSUME Inv, [Next]_vars, NEW p, IsScan(p), BundleOf(p),
           pc'[p] = pc[p], walk'[p] = walk[p], held'[p] = held[p]
    PROVE  BundleOf(p)'
<1>1. p \in Procs /\ job' = job /\ Grows
  BY RowsAreFixed, SinceGrows DEF Inv, IsScan
<1>2. pc[p] # "start" /\ Quiet(p)' =>
          /\ Quiet(p) /\ WasIn(p)' = WasIn(p)
          /\ WasThere(p, job[p].source)' = WasThere(p, job[p].source)
  BY QuietWas
<1>3. ASSUME pc[p] \in {"walk", "done"}
      PROVE  /\ Vetted(p)' /\ Seen(walk[p], since[p])'
             /\ Quiet(p)' => Exact(walk[p], WasIn(p))'
  <2>1. Vetted(p)'
    BY <1>1, <1>3, ScansAreSomewhere, ReadingsStay DEF BundleOf, Inv, IsScan
  <2>2. Seen(walk[p], since'[p])
    BY <1>1, <1>3, SeenMore DEF BundleOf, Grows
  <2> QED
    BY <1>2, <1>3, <2>1, <2>2 DEF BundleOf
<1>4. pc[p] = "refused" /\ Quiet(p)' => ~ClaimsTheTree(p)'
  BY <1>1, <1>2 DEF BundleOf, ClaimsTheTree
<1> QED
  BY <1>1, <1>3, <1>4 DEF BundleOf

(* What a walking command has before a step of its own. *)
LEMMA Walking ==
    ASSUME Inv, NEW p, IsScan(p), BundleOf(p), pc[p] = "walk"
    PROVE  /\ p \in Running /\ IsWalk(walk[p]) /\ Vetted(p)
           /\ \A path \in Path : /\ files[path] \in since[p][path]
                                 /\ files[path] \in Entry \cup {None}
           /\ Seen(walk[p], since[p])
           /\ Quiet(p) => /\ Exact(walk[p], WasIn(p))
                          /\ IsTree(WasIn(p)) /\ Still(WasIn(p))
<1>1. p \in Running
  BY DEF Running, IsScan, Ended
<1> QED
  BY <1>1, ScansAreSomewhere, QuietFacts DEF BundleOf, Inv, SinceInv, TypeOK, InputsTypeOK

LEMMA StillVetted ==
    ASSUME Inv, [Next]_vars, NEW p, IsScan(p), pc'[p] = "walk"
    PROVE  Vetted(p)'
<1>1. DataOf(p)'
  BY ScriptsStep DEF Inv, DataInv, IsScan
<1>2. job' = job
  BY RowsAreFixed DEF Inv
<1> QED
  BY <1>1, <1>2 DEF DataOf, IsScan, Kinded

(* A step of the walk that goes on. *)
LEMMA WalkGoesOn ==
    ASSUME Inv, [Next]_vars, NEW p, IsScan(p), BundleOf(p), pc[p] = "walk", pc'[p] = "walk",
           since' = since, NEW v, walk'[p] = v, Seen(v, since[p]),
           Quiet(p) => Exact(v, WasIn(p))
    PROVE  BundleOf(p)'
<1>1. Vetted(p)'
  BY StillVetted
<1>2. Quiet(p)' => Quiet(p) /\ WasIn(p)' = WasIn(p)
  BY QuietWas
<1> QED
  BY <1>1, <1>2 DEF BundleOf

(* A step by which a bundle is refused. *)
LEMMA Refuses ==
    ASSUME Inv, [Next]_vars, NEW p, IsScan(p), pc[p] # "start", pc'[p] = "refused",
           Quiet(p) => ~ClaimsTheTree(p)
    PROVE  BundleOf(p)'
<1>1. job' = job
  BY RowsAreFixed DEF Inv
<1>2. Quiet(p)' => Quiet(p) /\ (ClaimsTheTree(p)' <=> ClaimsTheTree(p))
  BY <1>1, QuietWas DEF ClaimsTheTree
<1> QED
  BY <1>2 DEF BundleOf

LEMMA BundleOwn ==
    ASSUME Inv, [Next]_vars, NEW p, IsScan(p), BundleOf(p), Step(p)
    PROVE  BundleOf(p)'
<1> DEFINE source == job[p].source
<1>1. /\ p \in Procs /\ pc \in [Procs -> Steps \cup Ended] /\ DOMAIN walk = Procs
      /\ held \in [Procs -> Content \cup {None}] /\ job[p].kind = "skillscan"
      /\ pc[p] \in {"start", "read", "walk"} \cup Ended /\ source \in Path
  BY ScansAreSomewhere DEF IsScan, Inv, TypeOK, InputsTypeOK, Kinded
<1>2. CASE Start(p)
  BY <1>1, <1>2 DEF Start, Goto, BundleOf
<1>3. CASE Stop(p)
  BY <1>1, <1>3 DEF Stop, Goto, BundleOf
<1>4. CASE Read(p)
  <2> DEFINE content == Bytes(source)
  <2>1. pc[p] = "read" /\ since' = since /\ job' = job /\ p \in Running
    BY <1>1, <1>4 DEF Read, inputVars, Running, Ended
  <2>2. CASE content # None /\ Vets(job[p].kind, content)
    <3>1. pc'[p] = "walk" /\ walk'[p] = [NotWalking EXCEPT !.unlisted = Dir]
      BY <1>1, <1>4, <2>2 DEF Read, Goto, StartWalk
    <3>2. PICK v : v = walk'[p]
      OBVIOUS
    <3>3. Seen(v, since[p]) /\ \A was : Exact(v, was)
      BY <3>1, <3>2, SeenBegins, ExactBegins
    <3>4. Vetted(p)'
      BY <3>1, StillVetted
    <3>5. Quiet(p)' => WasIn(p)' = WasIn(p)
      BY <2>1, QuietWas
    <3> QED
      BY <2>1, <3>1, <3>2, <3>3, <3>4, <3>5 DEF BundleOf
  <2>3. CASE ~(content # None /\ Vets(job[p].kind, content))
    <3>1. pc'[p] = "refused"
      BY <1>1, <1>4, <2>3 DEF Read, Goto
    <3>2. ASSUME Quiet(p), ClaimsTheTree(p) PROVE FALSE
      <4>1. since[p][source] = {files[source]} /\ IsTree(WasIn(p))
        BY <2>1, <3>2, QuietFacts
      <4>2. PICK found \in WasThere(p, source) : ClaimOf(found) = ManifestOf(WasIn(p))
        BY <3>2 DEF ClaimsTheTree
      <4>3. found = content /\ files[source] # None
        BY <4>1, <4>2 DEF WasThere, Bytes
      <4>4. content \in Content
        BY <1>1, <4>3, WhatIsThere DEF Inv, Bytes
      <4>5. ClaimOf(content) # IllTyped
        BY <4>1, <4>2, <4>3, ManifestsAreTyped
      <4> QED
        BY <1>1, <2>3, <4>4, <4>5, NoneAssumption DEF Vets
    <3> QED
      BY <2>1, <3>1, <3>2, Refuses
  <2> QED
    BY <2>2, <2>3
<1>5. CASE ListDirectory(p)
  <2>1. pc[p] = "walk" /\ pc'[p] = "walk" /\ since' = since
    BY <1>1, <1>5 DEF ListDirectory, inputVars
  <2>2. PICK dir \in walk[p].unlisted :
          walk' = [walk EXCEPT ![p] = WithListed(walk[p], dir,
                      {path \in Path : DirOf(path) = dir /\ files[path] # None})]
    BY <1>1, <1>5, ListStep DEF Inv
  <2>3. PICK v : v = WithListed(walk[p], dir,
                         {path \in Path : DirOf(path) = dir /\ files[path] # None})
    OBVIOUS
  <2>4. walk'[p] = v /\ dir \in Dir
    BY <1>1, <2>1, <2>2, <2>3, Walking DEF IsWalk
  <2>5. Seen(v, since[p])
    BY <2>1, <2>3, <2>4, Walking, SeenLists
  <2>6. Quiet(p) => Exact(v, WasIn(p))
    BY <2>1, <2>2, <2>3, Walking, ExactLists
  <2> QED
    BY <2>1, <2>4, <2>5, <2>6, WalkGoesOn
<1>6. CASE Look(p)
  <2>1. /\ pc[p] = "walk" /\ since' = since
        /\ walk[p].unlisted = {} /\ walk[p].hashing = None
    BY <1>1, <1>6 DEF Look, inputVars
  <2>2. PICK path \in walk[p].listed :
          \/ Refused(p, path) /\ pc'[p] = "refused"
          \/ /\ ~Refused(p, path) /\ pc' = pc
             /\ walk' = [walk EXCEPT ![p] = WithLooked(walk[p], path,
                            IF Skipped(path) THEN None ELSE path)]
    BY <1>1, <1>6 DEF Look, Goto, WithLooked
  <2>3. CASE Refused(p, path) /\ pc'[p] = "refused"
    <3>1. Quiet(p) => ~HasManifest(WasIn(p))
      BY <2>1, <2>3, Walking, ExactRefuses
    <3> QED
      BY <2>1, <2>3, <3>1, Refuses DEF ClaimsTheTree
  <2>4. CASE /\ ~Refused(p, path) /\ pc' = pc
             /\ walk' = [walk EXCEPT ![p] = WithLooked(walk[p], path,
                            IF Skipped(path) THEN None ELSE path)]
    <3>1. PICK v : v = WithLooked(walk[p], path, IF Skipped(path) THEN None ELSE path)
      OBVIOUS
    <3>2. walk'[p] = v
      BY <1>1, <2>4, <3>1
    <3>3. Seen(v, since[p])
      BY <2>1, <2>4, <3>1, Walking, SeenLooks
    <3>4. Quiet(p) => Exact(v, WasIn(p))
      BY <2>1, <2>4, <3>1, Walking, ExactLooks
    <3> QED
      BY <2>1, <2>4, <3>2, <3>3, <3>4, WalkGoesOn
  <2> QED
    BY <2>2, <2>3, <2>4
<1>7. CASE HashFile(p)
  <2> DEFINE path == walk[p].hashing
  <2>1. pc[p] = "walk" /\ since' = since /\ path # None
    BY <1>1, <1>7 DEF HashFile, inputVars
  <2>2. path \in Path
    BY <2>1, Walking DEF IsWalk
  <2>3. PICK v : v = WithHashed(walk[p], path, files[path].bytes)
    OBVIOUS
  <2>4. Quiet(p) => Exact(v, WasIn(p)) /\ files[path] # None
    BY <2>1, <2>3, Walking, ExactHashes
  <2>5. CASE files[path] = None
    <3>1. pc'[p] = "refused"
      BY <1>1, <1>7, <2>5 DEF HashFile, Goto
    <3> QED
      BY <2>1, <2>4, <2>5, <3>1, Refuses
  <2>6. CASE files[path] # None
    <3>1. pc'[p] = "walk" /\ walk'[p] = v
      BY <1>1, <1>7, <2>1, <2>3, <2>6 DEF HashFile, WithHashed
    <3>2. Seen(v, since[p])
      BY <2>1, <2>2, <2>3, <2>6, Walking, SeenHashes
    <3> QED
      BY <2>1, <2>4, <3>1, <3>2, WalkGoesOn
  <2> QED
    BY <2>5, <2>6
<1>8. CASE CompareClaim(p)
  <2>1. /\ pc[p] = "walk" /\ IsOver(walk[p]) /\ UNCHANGED <<since, walk, held, job>>
    BY <1>1, <1>8 DEF CompareClaim, Walked, IsOver, inputVars, memory
  <2>2. Quiet(p) => /\ walk[p].manifest = ManifestOf(WasIn(p))
                    /\ HasManifest(WasIn(p)) <=> walk[p].manifest # NoManifest
    BY <2>1, Walking, ExactEnds
  <2> DEFINE agrees == walk[p].manifest # NoManifest /\ walk[p].manifest = ClaimOf(held[p])
  <2>3. CASE agrees
    <3>1. pc'[p] = "done"
      BY <1>1, <1>8, <2>3 DEF CompareClaim, Goto
    <3>2. Vetted(p)'
      BY <1>1, <2>1, Walking, SinceGrows, ReadingsStay, ScansAreSomewhere DEF Inv
    <3>3. Quiet(p)' => Quiet(p) /\ WasIn(p)' = WasIn(p)
      BY <2>1, QuietWas
    <3> QED
      BY <2>1, <2>3, <3>1, <3>2, <3>3 DEF BundleOf
  <2>4. CASE ~agrees
    <3>1. pc'[p] = "refused"
      BY <1>1, <1>8, <2>4 DEF CompareClaim, Goto
    <3>2. ASSUME Quiet(p), ClaimsTheTree(p) PROVE FALSE
      <4>1. since[p][source] = {files[source]} /\ held[p] \in WasThere(p, source)
        BY <2>1, <3>2, Walking, QuietFacts DEF Vetted
      <4>2. \A found \in WasThere(p, source) : found = held[p]
        BY <4>1 DEF WasThere
      <4> QED
        BY <2>2, <2>4, <3>2, <4>2 DEF ClaimsTheTree
    <3> QED
      BY <2>1, <3>1, <3>2, Refuses
  <2> QED
    BY <2>3, <2>4
<1> QED
  BY <1>1, <1>2, <1>3, <1>4, <1>5, <1>6, <1>7, <1>8, ScansAreSomewhere
     DEF Step, Hash, Pin, AppendRow, Appended, Assemble, OpenOut, WriteOut, Ended

LEMMA BundleStep == Inv /\ BundleInv /\ [Next]_vars => BundleInv'
<1> SUFFICES ASSUME Inv, BundleInv, [Next]_vars, NEW p \in Procs, Kinded(p, {"skillscan"})'
             PROVE  BundleOf(p)'
  BY DEF BundleInv
<1>1. IsScan(p) /\ BundleOf(p)
  BY RowsAreFixed DEF Inv, Kinded, IsScan, BundleInv
<1>2. CASE UNCHANGED vars
  BY <1>1, <1>2, BundleFrame DEF vars, memory
<1>3. ASSUME NEW path \in Path, Change(path) PROVE BundleOf(p)'
  <2>1. UNCHANGED <<pc, walk, memory>>
    BY <1>3, ARewrite DEF Inv
  <2> QED
    BY <1>1, <2>1, BundleFrame DEF memory
<1>4. ASSUME NEW q \in Procs, Step(q) PROVE BundleOf(p)'
  <2>1. CASE q = p
    BY <1>1, <1>4, <2>1, BundleOwn
  <2>2. CASE q # p
    <3>1. pc'[p] = pc[p] /\ walk'[p] = walk[p] /\ held'[p] = held[p]
      BY <1>4, <2>2, StepsAreOnesOwn DEF OnlyOf, Inv
    <3> QED
      BY <1>1, <3>1, BundleFrame
  <2> QED
    BY <2>1, <2>2
<1> QED
  BY <1>2, <1>3, <1>4 DEF Next

(* What a walk has in its manifest was there while it ran; and in a tree   *)
(* that nobody touches it is exact (bundle.py: canonical_manifest).        *)
THEOREM BundleInvariant == Spec => []BundleInv
<1>1. Init => BundleInv
  BY DEF Init, BundleInv, BundleOf
<1> QED
  BY <1>1, BundleStep, ScriptsInvariant, PTL DEF Spec

(* A bundle that seal-skillscan accepts was there, file by file, while it  *)
(* was walked; what was there all along is in it; and no link was there    *)
(* all along: for any tree and any rewrites (bundle.py:54-74).             *)
THEOREM AcceptedBundlesWereThere == Spec => []AcceptedManifestWasThere
<1>1. Inv /\ BundleInv => AcceptedManifestWasThere
  <2> SUFFICES ASSUME Inv, BundleInv, NEW p \in Procs, Scanned(p)
               PROVE  /\ \A key \in DOMAIN walk[p].manifest :
                            \E path \in BundlePaths :
                                /\ Counts(path) /\ Key(path) = key
                                /\ walk[p].manifest[key] \in WasThere(p, path)
                      /\ \A path \in BundlePaths :
                            Counts(path) /\ None \notin since[p][path] =>
                            /\ Key(path) \in DOMAIN walk[p].manifest
                            /\ \E entry \in since[p][path] : entry.kind = "file"
                      /\ \E content \in WasThere(p, job[p].source) :
                            ClaimOf(content) = walk[p].manifest
    BY DEF AcceptedManifestWasThere
  <2>1. /\ Vetted(p) /\ Seen(walk[p], since[p]) /\ IsOver(walk[p])
        /\ walk[p].manifest = ClaimOf(held[p])
    BY DEF BundleInv, BundleOf, Scanned, Kinded
  <2>2. \A key \in DOMAIN walk[p].manifest :
            \E path \in BundlePaths : /\ Counts(path) /\ Key(path) = key
                                      /\ walk[p].manifest[key] \in WasThere(p, path)
    BY <2>1 DEF Seen, WasThere
  <2>3. ASSUME NEW path \in BundlePaths, Counts(path), None \notin since[p][path]
        PROVE  /\ Key(path) \in DOMAIN walk[p].manifest
               /\ \E entry \in since[p][path] : entry.kind = "file"
    <3>1. /\ walk[p].unlisted = {} /\ walk[p].listed = {} /\ path # walk[p].hashing
      BY <2>1, BundleDirs DEF IsOver
    <3> QED
      BY <2>1, <2>3, <3>1 DEF Seen
  <2> QED
    BY <2>1, <2>2, <2>3 DEF Vetted
<1> QED
  BY <1>1, BundleInvariant, ScriptsInvariant, PTL

(* In a bundle that nobody touches a scan is accepted exactly when its     *)
(* report claims the manifest of the tree, and the tree has one, whatever  *)
(* the order of the walk (bundle.py: canonical_manifest; skillscan.py:     *)
(* derive_subject).                                                        *)
THEOREM QuietBundlesAreExact == Spec => []QuietBundlesAreJudgedExactly
<1>1. Inv /\ BundleInv => QuietBundlesAreJudgedExactly
  <2> SUFFICES ASSUME Inv, BundleInv, NEW p \in Procs, job[p].kind = "skillscan",
                      pc[p] \in {"done", "refused"}, Quiet(p)
               PROVE  pc[p] = "done" <=> ClaimsTheTree(p)
    BY DEF QuietBundlesAreJudgedExactly
  <2>1. IsScan(p) /\ BundleOf(p)
    BY DEF IsScan, BundleInv, Kinded
  <2>2. ASSUME pc[p] = "done" PROVE ClaimsTheTree(p)
    <3>1. /\ Vetted(p) /\ Exact(walk[p], WasIn(p)) /\ IsOver(walk[p])
          /\ walk[p].manifest # NoManifest /\ walk[p].manifest = ClaimOf(held[p])
          /\ IsWalk(walk[p])
      BY <2>1, <2>2, ScansAreSomewhere DEF BundleOf
    <3> QED
      BY <3>1, ExactEnds DEF ClaimsTheTree, Vetted
  <2>3. pc[p] = "refused" => ~ClaimsTheTree(p)
    BY <2>1 DEF BundleOf
  <2> QED
    BY <2>2, <2>3
<1> QED
  BY <1>1, BundleInvariant, ScriptsInvariant, PTL
=============================================================================
