------------------------------ MODULE JsonlStore -------------------------------
(***************************************************************************)
(* JsonlSealStore (store.py): one JSONL file, appended to by any number of *)
(* processes without a lock.                                               *)
(*                                                                         *)
(* An append first reads the whole file for the last id, then opens it in  *)
(* append mode and writes one line.  The two are separate steps, and the   *)
(* line reaches the file in one write(2) or in several (a row larger than  *)
(* the 8 KiB text buffer), so writers interleave and a writer may die in   *)
(* between.                                                                *)
(*                                                                         *)
(* The file is the sequence of its lines, the last one unterminated (empty *)
(* when the file ends in a newline); blank lines, which reads skip, are    *)
(* left out.  A line holds pieces: a row's text is cut in two, since all   *)
(* that matters is whether it is whole, and its newline is the third.  A   *)
(* line parses as JSON iff it is the whole text of one row and no more.    *)
(*                                                                         *)
(* `acked', `seen', `overlapped' and `torn' are history: what append has   *)
(* returned to callers, what the last successful read returned, whether an *)
(* append ever began while the row of another one was being written, and   *)
(* whether a row ever took more than one write.                            *)
(***************************************************************************)
EXTENDS Naturals, Sequences

CONSTANTS
    Writers,        \* processes that append
    Results,        \* what they append
    MaxAppends,     \* bound on the appends begun
    None            \* no append yet

Row   == [id : Nat \ {0}, result : Results]
Piece == [row : Row, part : 1..3]

ASSUME StoreAssumption == MaxAppends \in Nat /\ None \notin Row

VARIABLES
    file,
    pc,             \* pc[w]: idle, write, return
    row,            \* row[w]: the row of the append under way, or the last
    sent,           \* sent[w]: the pieces of it that are in the file
    begun,          \* appends begun, for the bound
    acked,          \* history
    seen,           \* history
    overlapped,     \* history
    torn            \* history

vars == <<file, pc, row, sent, begun, acked, seen, overlapped, torn>>

(* The pieces of r's text from one to another, the newline left out. *)
Text(r, from, to) ==
    [j \in 1..((IF to = 3 THEN 2 ELSE to) - from + 1) |->
        [row |-> r, part |-> from + j - 1]]

IsRow(line) ==
    /\ Len(line) = 2
    /\ \A j \in 1..2 : line[j] = [row |-> line[1].row, part |-> j]

(* Mutated form: lines that do not parse are skipped. *)
Readable_SkipsBad(f) == TRUE

(***************************************************************************)
(* read: json.loads raises on any line that is not a row, and then the     *)
(* whole read fails.                                                       *)
(***************************************************************************)
Readable(f) == \A k \in DOMAIN f : f[k] # <<>> => IsRow(f[k])

Lines(f) == IF f[Len(f)] = <<>> THEN Len(f) - 1 ELSE Len(f)

Rows(f) == [k \in 1..Lines(f) |-> f[k][1].row]

(* Mutated form: the ids count from zero. *)
NextId_FromZero(f) == Len(Rows(f))

(* Mutated form: the first row is taken for the last one. *)
NextId_FirstRow(f) == IF Rows(f) = <<>> THEN 1 ELSE Rows(f)[1].id + 1

(***************************************************************************)
(* _next_id: one more than the id of the last row.                         *)
(***************************************************************************)
NextId(f) == IF Rows(f) = <<>> THEN 1 ELSE Rows(f)[Len(Rows(f))].id + 1

Init ==
    /\ file = <<<<>>>>
    /\ pc = [w \in Writers |-> "idle"]
    /\ row = [w \in Writers |-> None]
    /\ sent = [w \in Writers |-> 0]
    /\ begun = 0 /\ acked = <<>> /\ seen = <<>> /\ overlapped = FALSE /\ torn = FALSE

(***************************************************************************)
(* append, first half: the id is read and the row is formatted.  A file    *)
(* that does not parse makes append raise: the store is left as it is.     *)
(***************************************************************************)
BeginAppend(w) ==
    /\ pc[w] = "idle" /\ begun < MaxAppends
    /\ Readable(file)
    /\ \E result \in Results :
          LET r == [id |-> NextId(file), result |-> result] IN
          /\ row' = [row EXCEPT ![w] = r]
          /\ sent' = [sent EXCEPT ![w] = 0]
    /\ pc' = [pc EXCEPT ![w] = "write"]
    /\ begun' = begun + 1
    /\ overlapped' = (overlapped \/ \E v \in Writers : pc[v] = "write")
    /\ UNCHANGED <<file, acked, seen, torn>>

(* Mutated form: the row is written without its newline. *)
AppendTo_NoNewLine(f, r, from, to) == [f EXCEPT ![Len(f)] = @ \o Text(r, from, to)]

(* Mutated form: the file is opened for writing, not for appending. *)
AppendTo_Truncates(f, r, from, to) ==
    IF to < 3 THEN <<Text(r, from, to)>>
    ELSE IF from < 3 THEN <<Text(r, from, to), <<>>>> ELSE <<<<>>>>

(***************************************************************************)
(* append, second half: the buffer goes to the end of the file, any number *)
(* of pieces at a time.                                                    *)
(***************************************************************************)
AppendTo(f, r, from, to) ==
    LET line == f[Len(f)] \o Text(r, from, to)
        last == [f EXCEPT ![Len(f)] = line]
    IN IF to = 3 /\ line # <<>> THEN Append(last, <<>>) ELSE last

WriteSome(w) ==
    /\ pc[w] = "write"
    /\ \E upto \in (sent[w] + 1)..3 :
          /\ file' = AppendTo(file, row[w], sent[w] + 1, upto)
          /\ sent' = [sent EXCEPT ![w] = upto]
          /\ pc' = [pc EXCEPT ![w] = IF upto = 3 THEN "return" ELSE "write"]
          /\ torn' = (torn \/ upto < 3)
    /\ UNCHANGED <<row, begun, acked, seen, overlapped>>

Return(w) ==
    /\ pc[w] = "return"
    /\ acked' = Append(acked, row[w])
    /\ pc' = [pc EXCEPT ![w] = "idle"]
    /\ UNCHANGED <<file, row, sent, begun, seen, overlapped, torn>>

(***************************************************************************)
(* The process dies inside append, at any point: what it had written stays *)
(* and the caller never hears of it.                                       *)
(***************************************************************************)
Crash(w) ==
    /\ pc[w] # "idle"
    /\ pc' = [pc EXCEPT ![w] = "idle"]
    /\ UNCHANGED <<file, row, sent, begun, acked, seen, overlapped, torn>>

(***************************************************************************)
(* A read by anyone, when it does not raise.                               *)
(***************************************************************************)
Read ==
    /\ Readable(file)
    /\ seen' = Rows(file)
    /\ UNCHANGED <<file, pc, row, sent, begun, acked, overlapped, torn>>

Next == Read \/ \E w \in Writers :
            BeginAppend(w) \/ WriteSome(w) \/ Return(w) \/ Crash(w)

Spec == Init /\ [][Next]_vars

--------------------------------------------------------------------------------
(* Properties.                                                             *)

TypeOK ==
    /\ file \in Seq(Seq(Piece)) \ {<<>>}
    /\ pc \in [Writers -> {"idle", "write", "return"}]
    /\ row \in [Writers -> Row \cup {None}]
    /\ sent \in [Writers -> 0..3]
    /\ begun \in 0..MaxAppends
    /\ acked \in Seq(Row) /\ seen \in Seq(Row)
    /\ overlapped \in BOOLEAN /\ torn \in BOOLEAN

Embeds(s, t) ==
    \E at \in [DOMAIN s -> DOMAIN t] :
        /\ \A i, j \in DOMAIN s : i # j => at[i] # at[j]
        /\ \A i \in DOMAIN s : s[i] = t[at[i]]

(* A read never loses an acknowledged append in silence: it raises, or it  *)
(* returns every one of them, each as many times as it was acknowledged.   *)
(* (store.py: read raises on a line that does not parse.)                  *)
LoudOrComplete == Readable(file) => Embeds(acked, Rows(file))

(* Of two reads that succeed the later one returns the earlier one's rows, *)
(* in the same places, whatever tore or interleaved in between.            *)
(* (store.py: open(..., "a").)                                             *)
ReadsGrow ==
    [][/\ Len(seen) <= Len(seen')
       /\ \A k \in DOMAIN seen : seen'[k] = seen[k]]_vars

(* As long as every row is one write, the file can be read, however many   *)
(* processes interleave their appends and wherever they die.               *)
(* (store.py: append writes the row in one call.)                          *)
WholeRowsStayReadable == ~torn => Readable(file)

(* An id is never larger than its row's place, and as long as no two       *)
(* appends overlap the ids number the rows, also after a writer died       *)
(* inside an append and was started again.  (store.py: _next_id.)          *)
IdsNumberRows ==
    Readable(file) =>
        \A k \in DOMAIN Rows(file) :
            /\ Rows(file)[k].id <= k
            /\ ~overlapped => Rows(file)[k].id = k

(* store.py:1: check-results are durable once appended, so when append has *)
(* just returned its row can be read back.                                 *)
AppendedRowsAreReadable ==
    \A w \in Writers : pc[w] = "return" => Readable(file)

(* The rows at the head of the lines, which are what a read returns when   *)
(* it does not raise, implement the abstract log: a write adds at most one *)
(* and keeps the others, torn or not, and also when writers die.           *)
(* (store.py: open(..., "a").)                                             *)
Log == INSTANCE SealStore WITH log <- Rows(file)
ImplementsLog == Log!Spec
=============================================================================
