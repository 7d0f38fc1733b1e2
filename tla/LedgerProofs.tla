------------------------------ MODULE LedgerProofs -----------------------------
(***************************************************************************)
(* Theorems about LedgerStore, for any number of writers, results and      *)
(* records.                                                                *)
(***************************************************************************)
EXTENDS LedgerStore, FiniteSetTheorems, TLAPS

(* The records somebody knows of: those in the ledger, those being         *)
(* returned and those whose append has returned.                           *)
Pending == {written[w] : w \in {v \in Writers : pc[v] = "return"}}
Known   == Pending \cup acked

IdsAreOld == \A r \in ledger \cup Known : r.id <= last_id

(* A record that somebody knows of is, if durable, in the ledger; and its  *)
(* id is nobody else's.                                                    *)
KnownAreKept ==
    /\ \A a \in Known : a \in Record /\ (a.durable => a \in ledger)
    /\ \A a \in Known : a.payload \in Results
    /\ \A a \in Known : \A r \in ledger : r.id = a.id => r = a

LedgerInv == TypeOK /\ IdsAreOld /\ KnownAreKept

LEMMA NewRecords ==
    ASSUME TypeOK, NEW payload \in Results \cup Foreign, NEW trust \in Authority,
           NEW durable \in BOOLEAN
    PROVE  /\ NewRecord(payload, trust, durable) \in Record
           /\ NewRecord(payload, trust, durable).id = last_id + 1
           /\ NewRecord(payload, trust, durable).payload = payload
<1>1. Clamp(trust) \in Authority
  BY LedgerAssumption DEF Clamp
<1> QED
  BY <1>1 DEF NewRecord, Record, TypeOK

LEMMA LedgerInit == Init => LedgerInv
BY DEF Init, LedgerInv, TypeOK, IdsAreOld, KnownAreKept, Known, Pending

(* A write adds one record under a new id. *)
LEMMA AWriteKeeps ==
    ASSUME LedgerInv, NEW record \in Record, record.id = last_id + 1,
           LedgerWrite(record), NEW known, known \subseteq Known \cup {record},
           record.payload \in Results \/ record \notin known
    PROVE  /\ ledger' \subseteq Record /\ last_id' \in Nat
           /\ \A r \in ledger' \cup known : r.id <= last_id'
           /\ \A a \in known : a \in Record /\ (a.durable => a \in ledger')
           /\ \A a \in known : a.payload \in Results
           /\ \A a \in known : \A r \in ledger' : r.id = a.id => r = a
<1> USE DEF LedgerInv, TypeOK, IdsAreOld, KnownAreKept
<1>1. ledger' = ledger \cup {record} /\ last_id' = last_id + 1
  BY DEF LedgerWrite
<1>2. \A r \in ledger \cup Known : r \in Record /\ r.id \in Nat /\ r.id # record.id
  BY DEF Record
<1> QED
  BY <1>1, <1>2 DEF Record

LEMMA LedgerStep == LedgerInv /\ [Next]_vars => LedgerInv'
<1> SUFFICES ASSUME LedgerInv, [Next]_vars PROVE LedgerInv'
  OBVIOUS
<1>1. CASE ForeignWrite
  <2>1. PICK payload \in Foreign, durable \in BOOLEAN :
            LedgerWrite(NewRecord(payload, "agent", durable))
    BY <1>1 DEF ForeignWrite
  <2> DEFINE record == NewRecord(payload, "agent", durable)
  <2>2. record \in Record /\ record.id = last_id + 1
    BY NewRecords, LedgerAssumption DEF LedgerInv
  <2>3. pc' = pc /\ written' = written /\ acked' = acked /\ Known' = Known
    BY <1>1 DEF ForeignWrite, Known, Pending
  <2>4. \A a \in Known : a.id \in Nat /\ a.id <= last_id
    BY DEF LedgerInv, KnownAreKept, IdsAreOld, Record
  <2>5. record \notin Known
    BY <2>2, <2>4 DEF LedgerInv, TypeOK
  <2> HIDE DEF record
  <2>6. LedgerWrite(record)
    BY <2>1 DEF record
  <2>7. /\ ledger' \subseteq Record /\ last_id' \in Nat
        /\ \A r \in ledger' \cup Known : r.id <= last_id'
        /\ \A a \in Known : a \in Record /\ (a.durable => a \in ledger')
        /\ \A a \in Known : a.payload \in Results
        /\ \A a \in Known : \A r \in ledger' : r.id = a.id => r = a
    BY <2>2, <2>5, <2>6, AWriteKeeps
  <2> QED
    BY <2>3, <2>7 DEF LedgerInv, TypeOK, IdsAreOld, KnownAreKept
<1>2. CASE Prune
  <2>1. PICK gone \in SUBSET {r \in ledger : ~r.durable} : ledger' = ledger \ gone
    BY <1>2 DEF Prune
  <2>2. UNCHANGED <<last_id, pc, written, acked>> /\ Known' = Known
    BY <1>2 DEF Prune, Known, Pending
  <2> QED
    BY <2>1, <2>2 DEF LedgerInv, TypeOK, IdsAreOld, KnownAreKept
<1>3. ASSUME NEW w \in Writers, AppendResult(w) PROVE LedgerInv'
  <2>1. PICK result \in Results, durable \in BOOLEAN :
            LET record == NewRecord(result, AuthorityOf(result), durable) IN
            /\ LedgerWrite(record)
            /\ written' = [written EXCEPT ![w] = record]
    BY <1>3 DEF AppendResult
  <2> DEFINE record == NewRecord(result, AuthorityOf(result), durable)
  <2>2. record \in Record /\ record.id = last_id + 1 /\ record.payload \in Results
    BY NewRecords, LedgerAssumption DEF LedgerInv
  <2>3. LedgerWrite(record) /\ written' = [written EXCEPT ![w] = record]
    BY <2>1
  <2>4. acked' = acked /\ pc' = [pc EXCEPT ![w] = "return"]
    BY <1>3 DEF AppendResult
  <2> HIDE DEF record
  <2>5. Known' \subseteq Known \cup {record}
    BY <2>3, <2>4 DEF Known, Pending, LedgerInv, TypeOK
  <2>6. /\ ledger' \subseteq Record /\ last_id' \in Nat
        /\ \A r \in ledger' \cup Known' : r.id <= last_id'
        /\ \A a \in Known' : a \in Record /\ (a.durable => a \in ledger')
        /\ \A a \in Known' : a.payload \in Results
        /\ \A a \in Known' : \A r \in ledger' : r.id = a.id => r = a
    BY <2>2, <2>3, <2>5, AWriteKeeps
  <2>7. TypeOK'
    BY <2>2, <2>3, <2>4, <2>6 DEF LedgerInv, TypeOK
  <2> QED
    BY <2>6, <2>7 DEF LedgerInv, IdsAreOld, KnownAreKept
<1>4. ASSUME NEW w \in Writers, Return(w) \/ Crash(w) PROVE LedgerInv'
  <2>1. /\ UNCHANGED <<ledger, last_id, written>> /\ pc' = [pc EXCEPT ![w] = "idle"]
        /\ pc[w] = "return" /\ acked' \in {acked, acked \cup {written[w]}}
    BY <1>4 DEF Return, Crash
  <2>2. Known' \subseteq Known /\ written[w] \in Known
    BY <2>1 DEF Known, Pending, LedgerInv, TypeOK
  <2>3. acked' \subseteq Record
    BY <2>1, <2>2 DEF LedgerInv, TypeOK, KnownAreKept
  <2> QED
    BY <2>1, <2>2, <2>3 DEF LedgerInv, TypeOK, IdsAreOld, KnownAreKept
<1>5. CASE UNCHANGED vars
  BY <1>5 DEF vars, LedgerInv, TypeOK, IdsAreOld, KnownAreKept, Known, Pending
<1> QED
  BY <1>1, <1>2, <1>3, <1>4, <1>5 DEF Next

(* Ids do not come again, and durable results on their way to the caller,  *)
(* or with him, are in the ledger. (vlstore.py: append.)                   *)
THEOREM LedgerInvariant == Spec => []LedgerInv
BY LedgerInit, LedgerStep, PTL DEF Spec

(* Every state of every execution is well-formed. *)
THEOREM Typing == Spec => []TypeOK
BY LedgerInvariant, PTL DEF LedgerInv

--------------------------------------------------------------------------------
(* The ledger as a log.                                                    *)

OneEach(S) == /\ S \subseteq Record /\ IsFiniteSet(S)
              /\ \A a, b \in S : a.id = b.id => a = b

(* Ids order records: every place from the first to the last has one.      *)
LEMMA RanksCount ==
    ASSUME NEW S, OneEach(S)
    PROVE  /\ Cardinality(S) \in Nat
           /\ \A r \in S : Rank(r, S) \in 1..Cardinality(S)
           /\ \A a, b \in S : Rank(a, S) = Rank(b, S) => a = b
           /\ \A n \in 1..Cardinality(S) : \E r \in S : Rank(r, S) = n
<1> DEFINE Upto(a) == {r \in S : r.id <= a.id}
           c       == Cardinality(S)
           rank    == [r \in S |-> Rank(r, S)]
<1>1. IsFiniteSet(S) /\ c \in Nat /\ \A r \in S : r.id \in Nat
  BY FS_CardinalityType DEF OneEach, Record
<1>2. ASSUME NEW a \in S
      PROVE  IsFiniteSet(Upto(a)) /\ Cardinality(Upto(a)) \in Nat
             /\ Cardinality(Upto(a)) = Rank(a, S) /\ Rank(a, S) \in 1..c
  <2>1. Upto(a) \in SUBSET S /\ a \in Upto(a)
    BY <1>1
  <2>2. IsFiniteSet(Upto(a)) /\ Cardinality(Upto(a)) <= c
    BY <1>1, <2>1, FS_Subset
  <2>3. Cardinality(Upto(a)) \in Nat
    BY <2>2, FS_CardinalityType
  <2>4. Cardinality(Upto(a)) # 0
    BY <2>1, <2>2, FS_EmptySet
  <2> QED
    BY <1>1, <2>2, <2>3, <2>4 DEF Rank
<1>3. ASSUME NEW a \in S, NEW b \in S, a.id < b.id PROVE Rank(a, S) # Rank(b, S)
  <2>1. a.id \in Nat /\ b.id \in Nat /\ \A r \in S : r.id \in Nat
    BY <1>1
  <2>2. \A r \in Upto(a) : r \in Upto(b)
    BY <1>3, <2>1
  <2>3. b \in Upto(b) /\ b \notin Upto(a)
    BY <1>3, <2>1
  <2> HIDE DEF Upto
  <2>4. Upto(a) \in SUBSET Upto(b) /\ Upto(a) # Upto(b)
    BY <2>2, <2>3
  <2> QED
    BY <1>2, <2>4, FS_Subset
<1>4. ASSUME NEW a \in S, NEW b \in S, Rank(a, S) = Rank(b, S) PROVE a = b
  <2>1. ~(a.id < b.id) /\ ~(b.id < a.id) /\ a.id \in Nat /\ b.id \in Nat
    BY <1>1, <1>3, <1>4
  <2>2. a.id = b.id
    BY <2>1
  <2> QED
    BY <2>2 DEF OneEach
<1>5. rank \in Injection(S, 1..c)
  BY <1>2, <1>4 DEF Injection, IsInjective
<1>6. IsFiniteSet(1..c) /\ Cardinality(1..c) = c
  BY <1>1, FS_Interval
<1>7. rank \in Surjection(S, 1..c)
  BY <1>5, <1>6, FS_Injection
<1>8. \A n \in 1..c : \E r \in S : Rank(r, S) = n
  BY <1>7 DEF Surjection
<1> QED
  BY <1>1, <1>2, <1>4, <1>8

At(n, S) == CHOOSE r \in S : Rank(r, S) = n

LEMMA PlacesAreTaken ==
    ASSUME NEW S, OneEach(S), NEW n \in 1..Cardinality(S)
    PROVE  /\ At(n, S) \in S /\ Rank(At(n, S), S) = n
           /\ \A r \in S : Rank(r, S) = n => r = At(n, S)
<1>1. \E r \in S : Rank(r, S) = n
  BY RanksCount
<1>2. At(n, S) \in S /\ Rank(At(n, S), S) = n
  BY <1>1 DEF At
<1> QED
  BY <1>2, RanksCount

(* A record with a newer id comes last and moves none of the others.       *)
LEMMA NewestIsLast ==
    ASSUME NEW S, OneEach(S), NEW new \in Record, \A r \in S : r.id < new.id
    PROVE  LET T == S \cup {new}
               c == Cardinality(S)
           IN /\ OneEach(T) /\ Cardinality(T) = c + 1 /\ c \in Nat
              /\ At(c + 1, T) = new
              /\ \A n \in 1..c : At(n, T) = At(n, S)
<1> DEFINE T == S \cup {new}
           c == Cardinality(S)
<1>1. IsFiniteSet(S) /\ c \in Nat /\ \A r \in T : r.id \in Nat
  BY FS_CardinalityType DEF OneEach, Record
<1>2. new \notin S
  BY <1>1
<1>3. IsFiniteSet(T) /\ Cardinality(T) = c + 1
  BY <1>1, <1>2, FS_AddElement
<1>4. OneEach(T)
  BY <1>1, <1>3 DEF OneEach
<1>5. ASSUME NEW a \in S PROVE Rank(a, T) = Rank(a, S)
  <2>1. {r \in T : r.id <= a.id} = {r \in S : r.id <= a.id}
    BY <1>1
  <2> QED
    BY <2>1 DEF Rank
<1>6. Rank(new, T) = c + 1
  <2>1. {r \in T : r.id <= new.id} = T
    BY <1>1
  <2> QED
    BY <1>3, <2>1 DEF Rank
<1>7. At(c + 1, T) = new
  <2>1. c + 1 \in 1..Cardinality(T) /\ new \in T
    BY <1>1, <1>3
  <2> HIDE DEF T
  <2> QED
    BY <1>4, <1>6, <2>1, PlacesAreTaken
<1>8. ASSUME NEW n \in 1..c PROVE At(n, T) = At(n, S)
  <2>1. At(n, S) \in S /\ Rank(At(n, S), S) = n
    BY PlacesAreTaken
  <2>2. At(n, S) \in T /\ Rank(At(n, S), T) = n /\ n \in 1..Cardinality(T)
    BY <1>1, <1>3, <1>5, <2>1
  <2> HIDE DEF T
  <2> QED
    BY <1>4, <2>2, PlacesAreTaken
<1> QED
  BY <1>1, <1>3, <1>4, <1>7, <1>8

(* What a read returns of the durable rows, and the log it is.             *)
Durables == {r \in ledger : r.durable}
TheLog   == Rows(Durables)

LEMMA RowsOf ==
    ASSUME NEW records
    PROVE  Rows(records) = [k \in 1..Cardinality(Parsed(records)) |->
                               [id     |-> At(k, Parsed(records)).id,
                                result |-> At(k, Parsed(records)).payload]]
BY DEF Rows, InIdOrder, At

OneRecordAnId == LedgerInv /\ OneEach(ledger)

LEMMA OneRecordAnIdStep == OneRecordAnId /\ [Next]_vars => OneRecordAnId'
<1> SUFFICES ASSUME OneRecordAnId, [Next]_vars PROVE OneRecordAnId'
  OBVIOUS
<1>1. LedgerInv'
  BY LedgerStep DEF OneRecordAnId
<1>2. ledger \subseteq Record /\ \A r \in ledger : r.id \in Nat /\ r.id <= last_id
  BY DEF OneRecordAnId, LedgerInv, TypeOK, IdsAreOld, Record
<1>3. ASSUME NEW record, record.id = last_id + 1, LedgerWrite(record)
      PROVE  OneEach(ledger)'
  <2>1. ledger' = ledger \cup {record} /\ ledger' \subseteq Record
    BY <1>1, <1>3 DEF LedgerWrite, LedgerInv, TypeOK
  <2>2. IsFiniteSet(ledger')
    BY <2>1, FS_AddElement DEF OneRecordAnId, OneEach
  <2>3. last_id \in Nat
    BY DEF OneRecordAnId, LedgerInv, TypeOK
  <2>4. \A a, b \in ledger' : a.id = b.id => a = b
    BY <1>2, <1>3, <2>1, <2>3 DEF OneRecordAnId, OneEach
  <2> QED
    BY <2>1, <2>2, <2>4 DEF OneEach
<1>4. CASE ForeignWrite
  BY <1>1, <1>3, <1>4 DEF ForeignWrite, NewRecord, OneRecordAnId
<1>5. CASE Prune
  <2>1. ledger' \subseteq ledger
    BY <1>5 DEF Prune
  <2> QED
    BY <1>1, <2>1, FS_Subset DEF OneRecordAnId, OneEach
<1>6. ASSUME NEW w \in Writers, AppendResult(w) PROVE OneEach(ledger)'
  BY <1>3, <1>6 DEF AppendResult, NewRecord
<1>7. CASE UNCHANGED ledger
  BY <1>1, <1>7 DEF OneRecordAnId, OneEach
<1> QED
  BY <1>1, <1>4, <1>5, <1>6, <1>7 DEF Next, vars, Return, Crash, OneRecordAnId

(* A durable result that is written becomes the log's next row.            *)
LEMMA AWriteAppends ==
    ASSUME OneRecordAnId, NEW record \in Record, record.id = last_id + 1,
           LedgerWrite(record), record.durable,
           record.payload \in Results \ IllFormed
    PROVE  /\ Len(TheLog') = Len(TheLog) + 1
           /\ SubSeq(TheLog', 1, Len(TheLog)) = TheLog
           /\ TheLog'[Len(TheLog')] \in Log!Row
<1> PICK S : S = Parsed(Durables)
  OBVIOUS
<1> DEFINE T == S \cup {record}
           c == Cardinality(S)
           row(n, P) == [id |-> At(n, P).id, result |-> At(n, P).payload]
<1>1. S \subseteq ledger /\ IsFiniteSet(ledger) /\ ledger \subseteq Record
  BY DEF Parsed, Durables, OneRecordAnId, OneEach
<1>2. OneEach(S)
  BY <1>1, FS_Subset DEF OneRecordAnId, OneEach
<1>3. \A r \in S : r.id < record.id
  <2>1. \A r \in ledger : r.id \in Nat /\ r.id <= last_id
    BY DEF OneRecordAnId, LedgerInv, TypeOK, IdsAreOld, Record
  <2>2. last_id \in Nat
    BY DEF OneRecordAnId, LedgerInv, TypeOK
  <2> QED
    BY <1>1, <2>1, <2>2
<1>4. Parsed(Durables)' = T
  BY DEF LedgerWrite, Parsed, Durables
<1>5. /\ Cardinality(T) = c + 1 /\ c \in Nat
      /\ At(c + 1, T) = record
      /\ \A n \in 1..c : At(n, T) = At(n, S)
  BY <1>2, <1>3, NewestIsLast
<1>6. TheLog = [k \in 1..c |-> row(k, S)]
  BY RowsOf DEF TheLog
<1>7. TheLog' = [k \in 1..(c + 1) |-> row(k, T)]
  <2>1. TheLog' = Rows(Durables')
    BY DEF TheLog, Rows, InIdOrder, Rank, Parsed
  <2>2. Parsed(Durables') = T
    BY <1>4 DEF Parsed
  <2> QED
    BY <1>5, <2>1, <2>2, RowsOf
<1> PICK old : old = TheLog
  OBVIOUS
<1> PICK new : new = TheLog'
  OBVIOUS
<1> HIDE DEF T, c
<1>8. Len(old) = c /\ Len(new) = c + 1
  BY <1>5, <1>6, <1>7
<1>9. \A n \in 1..c : new[n] = old[n]
  BY <1>5, <1>6, <1>7
<1>10. SubSeq(new, 1, c) = old
  <2>1. SubSeq(new, 1, c) = [n \in 1..c |-> new[n]]
    BY <1>5 DEF SubSeq
  <2>2. old = [n \in 1..c |-> old[n]]
    BY <1>6
  <2> QED
    BY <1>9, <2>1, <2>2
<1>11. new[c + 1] \in Log!Row
  <2>1. new[c + 1] = [id |-> record.id, result |-> record.payload]
    BY <1>5, <1>7
  <2> QED
    BY <2>1 DEF Log!Row, Record
<1> QED
  BY <1>8, <1>10, <1>11

(* Everything else that happens to the ledger leaves the log as it was.    *)
LEMMA OthersDoNotShow ==
    ASSUME NEW record, LedgerWrite(record),
           ~record.durable \/ record.payload \notin Results \ IllFormed
    PROVE  TheLog' = TheLog
<1>1. Parsed(Durables)' = Parsed(Durables)
  BY DEF LedgerWrite, Parsed, Durables
<1> QED
  BY <1>1 DEF TheLog, Rows

LEMMA LogStep == OneRecordAnId /\ [Next]_vars => [Log!AppendRow]_TheLog
<1> SUFFICES ASSUME OneRecordAnId, [Next]_vars
             PROVE  Log!AppendRow \/ TheLog' = TheLog
  OBVIOUS
<1>1. CASE ForeignWrite
  <2>1. PICK payload \in Foreign, durable \in BOOLEAN :
            LedgerWrite(NewRecord(payload, "agent", durable))
    BY <1>1 DEF ForeignWrite
  <2>2. NewRecord(payload, "agent", durable).payload \notin Results
    BY LedgerAssumption DEF NewRecord
  <2> QED
    BY <2>1, <2>2, OthersDoNotShow
<1>2. CASE Prune
  <2>1. Parsed(Durables)' = Parsed(Durables)
    BY <1>2 DEF Prune, Parsed, Durables
  <2> QED
    BY <2>1 DEF TheLog, Rows
<1>3. ASSUME NEW w \in Writers, AppendResult(w)
      PROVE  Log!AppendRow \/ TheLog' = TheLog
  <2>1. PICK result \in Results, durable \in BOOLEAN :
            LedgerWrite(NewRecord(result, AuthorityOf(result), durable))
    BY <1>3 DEF AppendResult
  <2> DEFINE record == NewRecord(result, AuthorityOf(result), durable)
  <2>2. /\ record \in Record /\ record.id = last_id + 1
        /\ record.payload \in Results /\ record.durable = durable
    BY NewRecords, LedgerAssumption DEF OneRecordAnId, LedgerInv, NewRecord
  <2>3. LedgerWrite(record)
    BY <2>1
  <2> HIDE DEF record
  <2>4. CASE durable /\ record.payload \notin IllFormed
    BY <2>2, <2>3, <2>4, AWriteAppends DEF Log!AppendRow, TheLog, Durables
  <2>5. CASE ~durable \/ record.payload \in IllFormed
    BY <2>2, <2>3, <2>5, OthersDoNotShow
  <2> QED
    BY <2>4, <2>5
<1>4. CASE UNCHANGED ledger
  BY <1>4 DEF TheLog, Rows, InIdOrder, Rank, Parsed, Durables
<1> QED
  BY <1>1, <1>2, <1>3, <1>4 DEF Next, vars, Return, Crash

LEMMA LogInit == Init => OneRecordAnId /\ Log!Init
<1> SUFFICES ASSUME Init PROVE OneRecordAnId /\ Log!Init
  OBVIOUS
<1>1. ledger = {}
  BY DEF Init
<1>2. OneRecordAnId
  BY <1>1, LedgerInit, FS_EmptySet DEF OneRecordAnId, OneEach
<1>3. Parsed(Durables) = {} /\ Cardinality(Parsed(Durables)) = 0
  BY <1>1, FS_EmptySet DEF Parsed, Durables
<1>4. TheLog = <<>>
  <2> DEFINE row(k) == [id |-> At(k, {}).id, result |-> At(k, {}).payload]
  <2>1. TheLog = [k \in 1..0 |-> row(k)]
    BY <1>3, RowsOf DEF TheLog
  <2> HIDE DEF row
  <2>2. [k \in 1..0 |-> row(k)] = <<>>
    OBVIOUS
  <2> QED
    BY <2>1, <2>2
<1> QED
  BY <1>2, <1>4 DEF Log!Init, TheLog, Durables

LEMMA OneRecordAnIdIsInvariant == Spec => []OneRecordAnId
BY LogInit, OneRecordAnIdStep, PTL DEF Spec

(* Where a read shows a record, if it parses, and that it does not if not. *)
LEMMA PlacesOfKnown ==
    ASSUME OneRecordAnId, NEW a \in Known
    PROVE  /\ a.payload \in IllFormed => Places(a) = {}
           /\ a.payload \notin IllFormed /\ a.durable =>
                 \E k \in Places(a) : Places(a) = {k} /\ Rows(ledger)[k].result = a.payload
<1> PICK P : P = Parsed(ledger)
  OBVIOUS
<1> PICK c : c = Cardinality(P)
  OBVIOUS
<1>1. P \subseteq ledger /\ OneEach(P) /\ c \in Nat
      /\ \A r \in P : r.payload \in Results \ IllFormed
  <2>1. P \subseteq ledger /\ \A r \in P : r.payload \in Results \ IllFormed
    BY DEF Parsed
  <2>2. OneEach(P)
    BY <2>1, FS_Subset DEF OneRecordAnId, OneEach
  <2> QED
    BY <2>1, <2>2, RanksCount
<1>2. /\ DOMAIN Rows(ledger) = 1..c
      /\ \A k \in 1..c : /\ Rows(ledger)[k].id = At(k, P).id
                         /\ Rows(ledger)[k].result = At(k, P).payload
  BY RowsOf
<1>3. \A k \in 1..c : At(k, P) \in P /\ Rank(At(k, P), P) = k
  BY <1>1, PlacesAreTaken
<1>4. Places(a) = {k \in 1..c : At(k, P).id = a.id}
  BY <1>2 DEF Places
<1>5. /\ a.durable => a \in ledger
      /\ a.payload \in Results
      /\ \A r \in ledger : r.id = a.id => r = a
  BY DEF OneRecordAnId, LedgerInv, KnownAreKept
<1>6. ASSUME a.payload \in IllFormed PROVE Places(a) = {}
  BY <1>1, <1>3, <1>4, <1>5, <1>6
<1>7. ASSUME a.payload \notin IllFormed, a.durable
      PROVE  \E k \in Places(a) : Places(a) = {k} /\ Rows(ledger)[k].result = a.payload
  <2>1. a \in P
    BY <1>5, <1>7 DEF Parsed
  <2>2. PICK n \in 1..c : n = Rank(a, P)
    BY <1>1, <2>1, RanksCount
  <2>3. At(n, P) = a
    BY <1>1, <2>1, <2>2, PlacesAreTaken
  <2>4. ASSUME NEW k \in 1..c, At(k, P).id = a.id PROVE k = n
    BY <1>1, <1>3, <1>5, <2>2, <2>4
  <2>5. Places(a) = {n}
    BY <1>4, <2>3, <2>4
  <2> QED
    BY <1>2, <2>3, <2>5
<1> QED
  BY <1>6, <1>7

(* A durable append that returned stays in the ledger for ever and keeps   *)
(* its id; a read returns it exactly once if it parses, and never if not,  *)
(* whoever writes in between and whatever is pruned (vlstore.py: append,   *)
(* _iter_checkseal; store.py: durable).                                    *)
THEOREM DurablesStay == Spec => []DurableAppendsAreKept
<1>1. OneRecordAnId => DurableAppendsAreKept
  <2> SUFFICES ASSUME OneRecordAnId, NEW a \in acked
               PROVE  /\ a.durable => a \in ledger
                      /\ \A r \in ledger : r.id = a.id => r = a
                      /\ IF a.payload \in IllFormed
                           THEN Places(a) = {}
                           ELSE a.durable =>
                                  \E k \in Places(a) :
                                     /\ Places(a) = {k}
                                     /\ Rows(ledger)[k].result = a.payload
    BY DEF DurableAppendsAreKept
  <2>1. a \in Known
    BY DEF Known
  <2> QED
    BY <2>1, PlacesOfKnown DEF OneRecordAnId, LedgerInv, KnownAreKept
<1> QED
  BY <1>1, OneRecordAnIdIsInvariant, PTL

(* The durable rows a read returns grow by one new row at a time, in the   *)
(* order of their ids, and none is lost, moved or changed, whoever else    *)
(* writes to the ledger and whatever is pruned (vlstore.py:                *)
(* _iter_checkseal).                                                       *)
THEOREM LedgerImplementsLog == Spec => ImplementsLog
<1>1. Init => OneRecordAnId /\ Log!Init
  BY LogInit
<1>2. OneRecordAnId /\ [Next]_vars => OneRecordAnId'
  BY OneRecordAnIdStep
<1>3. OneRecordAnId /\ [Next]_vars => [Log!AppendRow]_TheLog
  BY LogStep
<1> QED
  BY <1>1, <1>2, <1>3, PTL DEF Spec, ImplementsLog, Log!Spec, TheLog, Durables
=============================================================================
