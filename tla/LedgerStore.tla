------------------------------ MODULE LedgerStore ------------------------------
(***************************************************************************)
(* VerificationLedgerSealStore (vlstore.py): the SealStore over a ledger   *)
(* that other producers write to as well.                                  *)
(*                                                                         *)
(* The ledger itself is not in this repository.  From the store's use of   *)
(* it, and its tests: a write is atomic and gets an id larger than every   *)
(* earlier one; read_all promises no order; what is not durable may be     *)
(* pruned at any time; and in-band writers cannot record operator trust,   *)
(* it is clamped to agent.                                                 *)
(*                                                                         *)
(* An append is a write and a return to the caller, who may die in         *)
(* between; it runs again as a new append.  `acked' is history: the        *)
(* records whose append has returned.                                      *)
(***************************************************************************)
EXTENDS Integers, SequencesExt

CONSTANTS
    Writers,        \* processes that append check results
    Results,        \* check results
    IllFormed,      \* those among them that from_jsonable does not take back
    Foreign,        \* payloads of other producers
    Authority,      \* who vouches for a result, and its record-level trust
    AuthorityOf(_),
    MaxId,          \* bound on the records ever written
    None

ASSUME LedgerAssumption ==
    /\ IllFormed \subseteq Results /\ Results \cap Foreign = {}
    /\ {"operator", "agent"} \subseteq Authority
    /\ \A result \in Results : AuthorityOf(result) \in Authority
    /\ MaxId \in Nat

Record == [id : Nat \ {0}, payload : Results \cup Foreign,
           source_trust : Authority, durable : BOOLEAN]

ASSUME NoneIsNoRecord == None \notin Record

VARIABLES
    ledger,         \* the records of the ledger
    last_id,        \* the largest id it ever gave
    pc,             \* pc[w]: idle, return
    written,        \* written[w]: the record of the append under way
    acked           \* history

vars == <<ledger, last_id, pc, written, acked>>

TypeOK ==
    /\ ledger \subseteq Record /\ acked \subseteq Record
    /\ last_id \in Nat
    /\ pc \in [Writers -> {"idle", "return"}]
    /\ written \in [Writers -> Record \cup {None}]

Init ==
    /\ ledger = {} /\ last_id = 0 /\ acked = {}
    /\ pc = [w \in Writers |-> "idle"]
    /\ written = [w \in Writers |-> None]

--------------------------------------------------------------------------------
(* The ledger.                                                             *)

Clamp(trust) == IF trust = "operator" THEN "agent" ELSE trust

NewRecord(payload, trust, durable) ==
    [id |-> last_id + 1, payload |-> payload,
     source_trust |-> Clamp(trust), durable |-> durable]

LedgerWrite(record) ==
    /\ last_id < MaxId
    /\ ledger' = ledger \cup {record}
    /\ last_id' = last_id + 1

(* Another producer writes what is no check result. *)
ForeignWrite ==
    /\ \E payload \in Foreign, durable \in BOOLEAN :
          LedgerWrite(NewRecord(payload, "agent", durable))
    /\ UNCHANGED <<pc, written, acked>>

(* Retention drops records that are not durable. *)
Prune ==
    /\ \E gone \in SUBSET {r \in ledger : ~r.durable} :
          gone # {} /\ ledger' = ledger \ gone
    /\ UNCHANGED <<last_id, pc, written, acked>>

--------------------------------------------------------------------------------
(* The store.                                                              *)

(* Mutated form: `durable' is not passed on to the ledger. *)
Append_DropsDurable(w) ==
    /\ pc[w] = "idle"
    /\ \E result \in Results, durable \in BOOLEAN :
          LET record == NewRecord(result, AuthorityOf(result), FALSE) IN
          /\ LedgerWrite(record)
          /\ written' = [written EXCEPT ![w] = [record EXCEPT !.durable = durable]]
    /\ pc' = [pc EXCEPT ![w] = "return"]
    /\ UNCHANGED acked

(* Mutated form: the id is the one before the write. *)
Append_EarlierId(w) ==
    /\ pc[w] = "idle"
    /\ \E result \in Results, durable \in BOOLEAN :
          LET record == NewRecord(result, AuthorityOf(result), durable) IN
          /\ LedgerWrite(record)
          /\ written' = [written EXCEPT ![w] = [record EXCEPT !.id = last_id]]
    /\ pc' = [pc EXCEPT ![w] = "return"]
    /\ UNCHANGED acked

(***************************************************************************)
(* append: one record per check result, its payload the canonical JSON.    *)
(* Nothing is validated: an ill-formed id or a name too long is written.   *)
(***************************************************************************)
AppendResult(w) ==
    /\ pc[w] = "idle"
    /\ \E result \in Results, durable \in BOOLEAN :
          LET record == NewRecord(result, AuthorityOf(result), durable) IN
          /\ LedgerWrite(record)
          /\ written' = [written EXCEPT ![w] = record]
    /\ pc' = [pc EXCEPT ![w] = "return"]
    /\ UNCHANGED acked

Return(w) ==
    /\ pc[w] = "return"
    /\ acked' = acked \cup {written[w]}
    /\ pc' = [pc EXCEPT ![w] = "idle"]
    /\ UNCHANGED <<ledger, last_id, written>>

(* The writer dies: the record is there, nobody was told. *)
Crash(w) ==
    /\ pc[w] = "return"
    /\ pc' = [pc EXCEPT ![w] = "idle"]
    /\ UNCHANGED <<ledger, last_id, written, acked>>

(* Mutated form: the order of the ledger's own enumeration, newest first. *)
InIdOrder_Unsorted(records) ==
    SetToSortSeq(records, LAMBDA a, b : a.id > b.id)

(* sorted by id: the nth record is the one with n ids up to its own.       *)
Rank(record, records) == Cardinality({r \in records : r.id <= record.id})
InIdOrder(records) ==
    [n \in 1..Cardinality(records) |-> CHOOSE r \in records : Rank(r, records) = n]

(* CheckResult.from_jsonable succeeds.  It fails on what no store wrote and *)
(* on an ill-formed result alike, and either is passed over.               *)
Parsed(records) == {r \in records : r.payload \in Results \ IllFormed}

(***************************************************************************)
(* _iter_checkseal: one enumeration of the ledger, in id order, without    *)
(* the records that do not parse.                                          *)
(***************************************************************************)
Rows(records) ==
    LET sorted == InIdOrder(Parsed(records)) IN
    [k \in DOMAIN sorted |-> [id |-> sorted[k].id, result |-> sorted[k].payload]]

Next == ForeignWrite \/ Prune
        \/ \E w \in Writers : AppendResult(w) \/ Return(w) \/ Crash(w)

Spec == Init /\ [][Next]_vars

--------------------------------------------------------------------------------
(* Properties.                                                             *)

(* The places in a read where the record's id turns up.                    *)
Places(record) == {k \in DOMAIN Rows(ledger) : Rows(ledger)[k].id = record.id}

(* An append that was acknowledged as durable stays in the ledger for ever *)
(* under the id it returned, and ids never come again; a read returns it   *)
(* exactly once and as what it was, whoever writes in between and whatever *)
(* is pruned.  But an acknowledged result that does not parse is in no     *)
(* read, and no read says so: this is as much as an id promises.           *)
(* (store.py: "keep past retention pruning"; vlstore.py: append,           *)
(* _iter_checkseal.)                                                       *)
DurableAppendsAreKept ==
    \A a \in acked :
        /\ a.durable => a \in ledger
        /\ \A r \in ledger : r.id = a.id => r = a
        /\ IF a.payload \in IllFormed
             THEN Places(a) = {}
             ELSE a.durable =>
                    \E k \in Places(a) : /\ Places(a) = {k}
                                         /\ Rows(ledger)[k].result = a.payload

(* The durable rows a read returns implement the abstract log: each read   *)
(* returns the earlier one's rows in the same order and new ones after     *)
(* them, no foreign record among them.  (vlstore.py: "Ordering is by       *)
(* record id, since check order is part of the canonical statement".)      *)
Log == INSTANCE SealStore WITH log <- Rows({r \in ledger : r.durable})
ImplementsLog == Log!Spec
=============================================================================
