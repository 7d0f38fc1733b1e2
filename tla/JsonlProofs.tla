------------------------------ MODULE JsonlProofs ------------------------------
(***************************************************************************)
(* Theorems about JsonlStore, for any number of writers, results and       *)
(* appends.                                                                *)
(***************************************************************************)
EXTENDS JsonlStore, TLAPS

P(r, part) == [row |-> r, part |-> part]

(* Only the last line can be empty. *)
NoBlanks(f)  == \A k \in 1..(Len(f) - 1) : f[k] # <<>>
NoBlankLines == NoBlanks(file)

Writing ==
    \A w \in Writers : /\ pc[w] # "idle" => row[w] \in Row
                       /\ pc[w] = "write" => sent[w] < 3
                       /\ pc[w] = "return" => sent[w] = 3

FileInv == TypeOK /\ NoBlankLines /\ Writing

--------------------------------------------------------------------------------
(* What an append does to the file.                                        *)

LEMMA TextIs ==
    ASSUME NEW r \in Row, NEW from \in 1..3, NEW to \in from..3
    PROVE  /\ Text(r, from, to) \in Seq(Piece)
           /\ Len(Text(r, from, to)) = (IF to = 3 THEN 2 ELSE to) - from + 1
           /\ \A j \in 1..Len(Text(r, from, to)) :
                 Text(r, from, to)[j] = P(r, from + j - 1)
<1> DEFINE n == (IF to = 3 THEN 2 ELSE to) - from + 1
<1>1. n \in Nat /\ \A j \in 1..n : from + j - 1 \in 1..3
  OBVIOUS
<1>2. \A j \in 1..n : P(r, from + j - 1) \in Piece
  BY <1>1 DEF P, Piece
<1>3. Text(r, from, to) = [j \in 1..n |-> P(r, from + j - 1)]
  BY DEF Text, P
<1> HIDE DEF n
<1>4. Text(r, from, to) \in Seq(Piece) /\ Len(Text(r, from, to)) = n
  BY <1>1, <1>2, <1>3
<1> QED
  BY <1>1, <1>3, <1>4 DEF n

LEMMA TextFromOne ==
    ASSUME NEW r \in Row, NEW to \in 1..3
    PROVE  /\ Text(r, 1, to) \in Seq(Piece)
           /\ Len(Text(r, 1, to)) = (IF to = 3 THEN 2 ELSE to)
           /\ \A j \in 1..Len(Text(r, 1, to)) : Text(r, 1, to)[j] = P(r, j)
<1>1. 1 \in 1..3
  OBVIOUS
<1>2. /\ Text(r, 1, to) \in Seq(Piece)
      /\ Len(Text(r, 1, to)) = (IF to = 3 THEN 2 ELSE to) - 1 + 1
      /\ \A j \in 1..Len(Text(r, 1, to)) : Text(r, 1, to)[j] = P(r, 1 + j - 1)
  BY <1>1, TextIs, Zenon
<1> QED
  BY <1>2

(* It leaves the lines alone but the last, to which it adds the text; a    *)
(* newline after a text begins another line.                               *)
LEMMA AppendLines ==
    ASSUME file \in Seq(Seq(Piece)), file # <<>>,
           NEW r \in Row, NEW from \in 1..3, NEW to \in from..3
    PROVE  LET f == AppendTo(file, r, from, to)
               n == Len(file)
           IN /\ f \in Seq(Seq(Piece)) /\ f # <<>>
              /\ \A k \in 1..(n - 1) : f[k] = file[k]
              /\ f[n] = file[n] \o Text(r, from, to)
              /\ to = 3 /\ f[n] # <<>> => Len(f) = n + 1 /\ f[n + 1] = <<>>
              /\ ~(to = 3 /\ f[n] # <<>>) => Len(f) = n
<1> DEFINE n    == Len(file)
           line == file[n] \o Text(r, from, to)
           last == [file EXCEPT ![n] = line]
<1>1. n \in Nat /\ n >= 1 /\ n \in DOMAIN file /\ file[n] \in Seq(Piece)
  OBVIOUS
<1>2. Text(r, from, to) \in Seq(Piece)
  BY TextIs
<1>3. line \in Seq(Piece)
  BY <1>1, <1>2
<1> HIDE DEF line
<1>4. last \in Seq(Seq(Piece)) /\ Len(last) = n /\ last # <<>>
  BY <1>1, <1>3
<1>5. /\ \A k \in 1..(n - 1) : last[k] = file[k]
      /\ last[n] = line
  BY <1>1
<1> HIDE DEF last
<1>6. AppendTo(file, r, from, to) = IF to = 3 /\ line # <<>>
                                      THEN Append(last, <<>>) ELSE last
  BY DEF AppendTo, line, last
<1>7. CASE to = 3 /\ line # <<>>
  <2>1. /\ Append(last, <<>>) \in Seq(Seq(Piece))
        /\ Len(Append(last, <<>>)) = n + 1
        /\ Append(last, <<>>)[n + 1] = <<>>
        /\ \A k \in 1..n : Append(last, <<>>)[k] = last[k]
    BY <1>1, <1>4
  <2>2. AppendTo(file, r, from, to) = Append(last, <<>>)
    BY <1>6, <1>7
  <2>3. \A k \in 1..(n - 1) : Append(last, <<>>)[k] = file[k]
    BY <1>1, <1>5, <2>1
  <2>4. Append(last, <<>>)[n] = line
    BY <1>1, <1>5, <2>1
  <2>5. Append(last, <<>>) # <<>>
    BY <1>1, <2>1
  <2> QED
    BY <1>2, <1>7, <2>1, <2>2, <2>3, <2>4, <2>5 DEF line
<1>8. CASE ~(to = 3 /\ line # <<>>)
  BY <1>1, <1>2, <1>4, <1>5, <1>6, <1>8 DEF line
<1> QED
  BY <1>7, <1>8

(* The lines are read as what they were, each longer than before.          *)
LEMMA LinesStay ==
    ASSUME file \in Seq(Seq(Piece)), file # <<>>,
           NEW r \in Row, NEW from \in 1..3, NEW to \in from..3
    PROVE  LET f == AppendTo(file, r, from, to) IN
           /\ \A k \in DOMAIN file :
                 /\ k \in DOMAIN f /\ Len(f[k]) >= Len(file[k])
                 /\ \A j \in DOMAIN file[k] : j \in DOMAIN f[k] /\ f[k][j] = file[k][j]
           /\ Len(f) \in {Len(file), Len(file) + 1}
<1> DEFINE f == AppendTo(file, r, from, to)
           n == Len(file)
           text == Text(r, from, to)
<1>1. /\ f \in Seq(Seq(Piece)) /\ Len(f) \in {n, n + 1}
      /\ \A k \in 1..(n - 1) : f[k] = file[k]
      /\ f[n] = file[n] \o text
  BY AppendLines
<1>2. text \in Seq(Piece)
  BY TextIs
<1>3. n \in Nat /\ n >= 1 /\ file[n] \in Seq(Piece) /\ DOMAIN file = 1..n
  OBVIOUS
<1> HIDE DEF f, text, n
<1>4. \A k \in DOMAIN file : k \in DOMAIN f /\ (k # n => k \in 1..(n - 1))
  BY <1>1, <1>3
<1>5. /\ Len(f[n]) >= Len(file[n])
      /\ \A j \in DOMAIN file[n] : j \in DOMAIN f[n] /\ f[n][j] = file[n][j]
  BY <1>1, <1>2, <1>3
<1>6. \A k \in DOMAIN file : k # n => f[k] = file[k] /\ file[k] \in Seq(Piece)
  BY <1>1, <1>3, <1>4
<1>7. \A k \in DOMAIN file :
          /\ Len(f[k]) >= Len(file[k])
          /\ \A j \in DOMAIN file[k] : j \in DOMAIN f[k] /\ f[k][j] = file[k][j]
  BY <1>5, <1>6
<1> QED
  BY <1>1, <1>4, <1>7 DEF f, n

--------------------------------------------------------------------------------
(* Types.                                                                  *)

(* The rows of a file are the first rows of the lines that are not empty.  *)
LEMMA RowsOfLines ==
    ASSUME NEW f \in Seq(Seq(Piece)), f # <<>>, NoBlanks(f)
    PROVE  /\ Lines(f) \in Nat
           /\ Rows(f) \in Seq(Row) /\ Len(Rows(f)) = Lines(f)
           /\ \A k \in 1..Lines(f) :
                 /\ k \in DOMAIN f /\ f[k] # <<>>
                 /\ 1 \in DOMAIN f[k] /\ f[k][1] \in Piece
                 /\ Rows(f)[k] = f[k][1].row
           /\ \A k \in DOMAIN f : f[k] # <<>> => k \in 1..Lines(f)
           /\ Lines(f) = IF f[Len(f)] = <<>> THEN Len(f) - 1
                                                      ELSE Len(f)
<1> DEFINE n == Len(f)
<1>1. n \in Nat /\ n >= 1 /\ DOMAIN f = 1..n /\ n \in DOMAIN f
  OBVIOUS
<1>2. Lines(f) = IF f[n] = <<>> THEN n - 1 ELSE n
  BY DEF Lines
<1>3. Lines(f) \in Nat
  BY <1>1, <1>2
<1>4. \A k \in 1..Lines(f) : k \in DOMAIN f /\ f[k] # <<>>
  BY <1>1, <1>2 DEF NoBlanks
<1>5. \A k \in 1..Lines(f) : 1 \in DOMAIN f[k] /\ f[k][1] \in Piece
  <2> TAKE k \in 1..Lines(f)
  <2>1. f[k] \in Seq(Piece) /\ f[k] # <<>>
    BY <1>4
  <2> QED
    BY <2>1
<1>6. \A k \in 1..Lines(f) : f[k][1].row \in Row
  BY <1>5 DEF Piece
<1>7. /\ Rows(f) \in Seq(Row) /\ Len(Rows(f)) = Lines(f)
      /\ \A k \in 1..Lines(f) : Rows(f)[k] = f[k][1].row
  <2> DEFINE m == Lines(f)
             first == [k \in 1..m |-> f[k][1].row]
  <2>1. m \in Nat /\ \A k \in 1..m : first[k] \in Row
    BY <1>3, <1>6
  <2>2. Rows(f) = first
    BY DEF Rows
  <2> HIDE DEF m
  <2>3. first \in Seq(Row) /\ Len(first) = m
    BY <2>1
  <2> QED
    BY <2>2, <2>3 DEF m
<1>8. \A k \in DOMAIN f : f[k] # <<>> => k \in 1..Lines(f)
  BY <1>1, <1>2
<1> QED
  BY <1>2, <1>3, <1>4, <1>5, <1>7, <1>8

LEMMA NextIdIsPositive ==
    ASSUME FileInv
    PROVE  NextId(file) \in Nat \ {0}
<1>1. Rows(file) \in Seq(Row)
  BY RowsOfLines DEF FileInv, TypeOK, NoBlankLines
<1>2. CASE Rows(file) = <<>>
  BY <1>2 DEF NextId
<1>3. CASE Rows(file) # <<>>
  <2>1. Rows(file)[Len(Rows(file))] \in Row
    BY <1>1, <1>3
  <2>2. Rows(file)[Len(Rows(file))].id \in Nat
    BY <2>1 DEF Row
  <2> QED
    BY <1>3, <2>2 DEF NextId
<1> QED
  BY <1>2, <1>3

LEMMA FileInit ==
    ASSUME Init
    PROVE  FileInv
<1>1. file = <<<<>>>> /\ Len(file) = 1
  BY DEF Init
<1>2. file \in Seq(Seq(Piece)) /\ file # <<>>
  BY <1>1
<1>3. acked \in Seq(Row) /\ seen \in Seq(Row)
  BY DEF Init
<1>4. begun \in 0..MaxAppends
  BY StoreAssumption DEF Init
<1>5. NoBlankLines
  BY <1>1 DEF NoBlankLines, NoBlanks
<1>6. /\ pc \in [Writers -> {"idle", "write", "return"}]
      /\ row \in [Writers -> Row \cup {None}]
      /\ sent \in [Writers -> 0..3]
      /\ overlapped \in BOOLEAN /\ torn \in BOOLEAN
  <2>1. pc \in [Writers -> {"idle", "write", "return"}]
    BY DEF Init
  <2>2. row \in [Writers -> Row \cup {None}]
    BY DEF Init
  <2>3. sent \in [Writers -> 0..3]
    BY DEF Init
  <2>4. overlapped \in BOOLEAN /\ torn \in BOOLEAN
    BY DEF Init
  <2> QED
    BY <2>1, <2>2, <2>3, <2>4
<1>7. Writing
  BY DEF Init, Writing
<1> QED
  BY <1>2, <1>3, <1>4, <1>5, <1>6, <1>7 DEF FileInv, TypeOK

(* A step that writes: the text of some writer's row goes into the file.   *)
LEMMA WriteIs ==
    ASSUME FileInv, NEW w \in Writers, WriteSome(w)
    PROVE  /\ pc[w] = "write" /\ row[w] \in Row /\ sent[w] + 1 \in 1..3
           /\ \E to \in (sent[w] + 1)..3 :
                 /\ file' = AppendTo(file, row[w], sent[w] + 1, to)
                 /\ sent' = [sent EXCEPT ![w] = to]
                 /\ pc' = [pc EXCEPT ![w] = IF to = 3 THEN "return" ELSE "write"]
                 /\ torn' = (torn \/ to < 3)
           /\ file \in Seq(Seq(Piece)) /\ file # <<>>
<1>1. pc[w] = "write"
  BY DEF WriteSome
<1>2. row[w] \in Row /\ sent[w] < 3 /\ sent[w] \in 0..3
  BY <1>1 DEF FileInv, Writing, TypeOK
<1>3. sent[w] + 1 \in 1..3
  BY <1>2
<1> QED
  BY <1>1, <1>2, <1>3 DEF WriteSome, FileInv, TypeOK

LEMMA FileWrite ==
    ASSUME FileInv, NEW w \in Writers, WriteSome(w)
    PROVE  FileInv'
<1>1. PICK to \in (sent[w] + 1)..3 :
          /\ file' = AppendTo(file, row[w], sent[w] + 1, to)
          /\ sent' = [sent EXCEPT ![w] = to]
          /\ pc' = [pc EXCEPT ![w] = IF to = 3 THEN "return" ELSE "write"]
          /\ torn' = (torn \/ to < 3)
  BY WriteIs
<1>2. row[w] \in Row /\ sent[w] + 1 \in 1..3 /\ file \in Seq(Seq(Piece)) /\ file # <<>>
  BY WriteIs
<1> DEFINE n == Len(file)
<1>3. /\ file' \in Seq(Seq(Piece)) /\ file' # <<>>
      /\ \A k \in 1..(n - 1) : file'[k] = file[k]
      /\ to = 3 /\ file'[n] # <<>> => Len(file') = n + 1 /\ file'[n + 1] = <<>>
      /\ ~(to = 3 /\ file'[n] # <<>>) => Len(file') = n
  BY <1>1, <1>2, AppendLines
<1>4. NoBlankLines'
  <2>1. n \in Nat /\ n >= 1
    BY <1>2
  <2> SUFFICES ASSUME NEW k \in 1..(Len(file') - 1) PROVE file'[k] # <<>>
    BY DEF NoBlankLines, NoBlanks
  <2>2. CASE k \in 1..(n - 1)
    BY <1>3, <2>2 DEF FileInv, NoBlankLines, NoBlanks
  <2>3. CASE k \notin 1..(n - 1)
    <3>1. k = n /\ Len(file') = n + 1
      BY <1>3, <2>1, <2>3
    <3> QED
      BY <1>3, <2>1, <3>1
  <2> QED
    BY <2>2, <2>3
<1>5. to \in 1..3 /\ UNCHANGED <<row, begun, acked, seen, overlapped>>
  BY <1>2 DEF WriteSome
<1>6. TypeOK'
  <2>1. torn' \in BOOLEAN
    BY <1>1 DEF FileInv, TypeOK
  <2>2. sent' \in [Writers -> 0..3] /\ pc' \in [Writers -> {"idle", "write", "return"}]
    BY <1>1, <1>5 DEF FileInv, TypeOK
  <2>3. /\ row' \in [Writers -> Row \cup {None}] /\ begun' \in 0..MaxAppends
        /\ acked' \in Seq(Row) /\ seen' \in Seq(Row) /\ overlapped' \in BOOLEAN
    BY <1>5 DEF FileInv, TypeOK
  <2>4. file' \in Seq(Seq(Piece)) \ {<<>>}
    BY <1>3
  <2> QED
    BY <2>1, <2>2, <2>3, <2>4 DEF TypeOK
<1>7. Writing'
  <2> SUFFICES ASSUME NEW v \in Writers
               PROVE  /\ pc'[v] # "idle" => row'[v] \in Row
                      /\ pc'[v] = "write" => sent'[v] < 3
                      /\ pc'[v] = "return" => sent'[v] = 3
    BY DEF Writing
  <2>1. CASE v = w
    BY <1>1, <1>2, <1>5, <2>1 DEF FileInv, TypeOK
  <2>2. CASE v # w
    BY <1>1, <1>5, <2>2 DEF FileInv, TypeOK, Writing
  <2> QED
    BY <2>1, <2>2
<1> QED
  BY <1>4, <1>6, <1>7 DEF FileInv

LEMMA FileStep ==
    ASSUME FileInv, [Next]_vars
    PROVE  FileInv'
<1> USE DEF FileInv
<1>1. ASSUME NEW w \in Writers, BeginAppend(w) PROVE FileInv'
  <2>1. PICK result \in Results :
            /\ row' = [row EXCEPT ![w] = [id |-> NextId(file), result |-> result]]
            /\ sent' = [sent EXCEPT ![w] = 0]
    BY <1>1 DEF BeginAppend
  <2>2. [id |-> NextId(file), result |-> result] \in Row
    BY NextIdIsPositive DEF Row
  <2>3. /\ pc' = [pc EXCEPT ![w] = "write"] /\ begun' = begun + 1
        /\ begun < MaxAppends /\ overlapped' \in BOOLEAN
        /\ UNCHANGED <<file, acked, seen, torn>>
    BY <1>1 DEF BeginAppend, TypeOK
  <2>4. TypeOK'
    BY <2>1, <2>2, <2>3, StoreAssumption DEF TypeOK
  <2>5. Writing'
    BY <2>1, <2>2, <2>3 DEF Writing, TypeOK
  <2>6. NoBlankLines'
    BY <2>3 DEF NoBlankLines
  <2> QED
    BY <2>4, <2>5, <2>6
<1>2. ASSUME NEW w \in Writers, WriteSome(w) PROVE FileInv'
  BY <1>2, FileWrite
<1>3. ASSUME NEW w \in Writers, Return(w) PROVE FileInv'
  <2>1. row[w] \in Row
    BY <1>3 DEF Return, Writing
  <2>2. acked' \in Seq(Row)
    BY <1>3, <2>1 DEF Return, TypeOK
  <2> QED
    BY <1>3, <2>2 DEF Return, TypeOK, Writing, NoBlankLines
<1>4. ASSUME NEW w \in Writers, Crash(w) PROVE FileInv'
  BY <1>4 DEF Crash, TypeOK, Writing, NoBlankLines
<1>5. CASE Read
  <2>1. seen' \in Seq(Row)
    BY <1>5, RowsOfLines DEF Read, TypeOK, NoBlankLines
  <2> QED
    BY <1>5, <2>1 DEF Read, TypeOK, Writing, NoBlankLines
<1>6. CASE UNCHANGED vars
  BY <1>6 DEF vars, TypeOK, Writing, NoBlankLines
<1> QED
  BY <1>1, <1>2, <1>3, <1>4, <1>5, <1>6 DEF Next

(* What store.py's append keeps of the file at every moment: only the      *)
(* last line can be empty, and a writer inside append has formatted its    *)
(* row.                                                                    *)
THEOREM FileInvariant == Spec => []FileInv
<1>1. Init => FileInv
  BY FileInit
<1>2. FileInv /\ [Next]_vars => FileInv'
  BY FileStep
<1> QED
  BY <1>1, <1>2, PTL DEF Spec

(* Every reachable state of the file and its writers is well typed.        *)
(* (store.py: _next_id starts at one.)                                     *)
THEOREM Typing == Spec => []TypeOK
<1>1. FileInv => TypeOK
  BY DEF FileInv
<1> QED
  BY <1>1, FileInvariant, PTL

--------------------------------------------------------------------------------
(* The rows are a log.                                                     *)

(* A write begins at most one line, with the writer's row.                 *)
LEMMA NewLine ==
    ASSUME FileInv, NEW w \in Writers, WriteSome(w)
    PROVE  /\ Lines(file') \in {Lines(file), Lines(file) + 1}
           /\ Lines(file') = Lines(file) + 1 =>
                 /\ file[Len(file)] = <<>>
                 /\ file'[Lines(file')][1] = P(row[w], sent[w] + 1)
           /\ pc'[w] = "write" => file'[Len(file')] # <<>>
<1>1. PICK to \in (sent[w] + 1)..3 :
          /\ file' = AppendTo(file, row[w], sent[w] + 1, to)
          /\ sent' = [sent EXCEPT ![w] = to]
          /\ pc' = [pc EXCEPT ![w] = IF to = 3 THEN "return" ELSE "write"]
          /\ torn' = (torn \/ to < 3)
  BY WriteIs
<1>2. row[w] \in Row /\ sent[w] + 1 \in 1..3 /\ file \in Seq(Seq(Piece)) /\ file # <<>>
  BY WriteIs
<1> DEFINE n    == Len(file)
           text == Text(row[w], sent[w] + 1, to)
<1>3. /\ file' \in Seq(Seq(Piece)) /\ file' # <<>>
      /\ file'[n] = file[n] \o text
      /\ to = 3 /\ file'[n] # <<>> => Len(file') = n + 1 /\ file'[n + 1] = <<>>
      /\ ~(to = 3 /\ file'[n] # <<>>) => Len(file') = n
  BY <1>1, <1>2, AppendLines
<1>4. /\ text \in Seq(Piece)
      /\ Len(text) = (IF to = 3 THEN 2 ELSE to) - (sent[w] + 1) + 1
      /\ \A j \in 1..Len(text) : text[j] = P(row[w], sent[w] + 1 + j - 1)
  BY <1>2, TextIs
<1>5. n \in Nat /\ n >= 1 /\ file[n] \in Seq(Piece)
  BY <1>2
<1>6. text # <<>> => text[1] = P(row[w], sent[w] + 1)
  <2> DEFINE from == sent[w] + 1
  <2>1. \A j \in 1..Len(text) : text[j] = P(row[w], from + j - 1)
    BY <1>4
  <2>2. from \in Nat
    BY <1>2
  <2> HIDE DEF from, text
  <2>3. text # <<>> => Len(text) \in Nat /\ Len(text) >= 1
    BY <1>4
  <2>4. from + 1 - 1 = from
    BY <2>2
  <2>5. text # <<>> => text[1] = P(row[w], from)
    BY <2>1, <2>3, <2>4
  <2> QED
    BY <2>5 DEF from
<1>7. to < 3 => text # <<>>
  BY <1>2, <1>4
<1>8. pc'[w] = "write" => to < 3
  <2>1. to \in 1..3
    BY <1>2
  <2> QED
    BY <1>1, <2>1 DEF FileInv, TypeOK
<1> HIDE DEF n, text
<1>9. CASE file[n] = <<>>
  <2>1. file'[n] = text /\ Lines(file) = n - 1
    BY <1>3, <1>4, <1>9 DEF Lines, n
  <2>2. CASE text = <<>>
    BY <1>3, <1>5, <1>7, <1>8, <2>1, <2>2, SMTT(30) DEF Lines
  <2>3. CASE text # <<>>
    <3>1. Lines(file') = n
      BY <1>3, <1>5, <2>1, <2>3, SMTT(30) DEF Lines
    <3> QED
      BY <1>3, <1>5, <1>6, <1>8, <1>9, <2>1, <2>3, <3>1 DEF n
  <2> QED
    BY <2>2, <2>3
<1>10. CASE file[n] # <<>>
  <2>1. file'[n] # <<>> /\ Lines(file) = n
    BY <1>3, <1>4, <1>5, <1>10 DEF Lines, n
  <2>2. Lines(file') = n
    BY <1>3, <1>5, <2>1 DEF Lines
  <2> QED
    BY <1>3, <1>5, <1>8, <2>1, <2>2
<1> QED
  BY <1>9, <1>10

(* No step takes a row away or changes it.                                 *)
LEMMA RowsStay ==
    ASSUME FileInv, [Next]_vars
    PROVE  /\ Lines(file) \in Nat /\ Lines(file') \in Nat
           /\ Lines(file) <= Lines(file')
           /\ \A k \in 1..Lines(file) : Rows(file')[k] = Rows(file)[k]
<1>1. FileInv'
  BY FileStep
<1>2. /\ file \in Seq(Seq(Piece)) /\ file # <<>> /\ NoBlanks(file)
      /\ file' \in Seq(Seq(Piece)) /\ file' # <<>> /\ NoBlanks(file')
  BY <1>1 DEF FileInv, TypeOK, NoBlankLines
<1>3. /\ Lines(file) \in Nat /\ Lines(file') \in Nat
      /\ \A k \in 1..Lines(file) :
            /\ k \in DOMAIN file /\ file[k] # <<>> /\ 1 \in DOMAIN file[k]
            /\ Rows(file)[k] = file[k][1].row
      /\ \A k \in 1..Lines(file') : Rows(file')[k] = file'[k][1].row
  BY <1>2, RowsOfLines
<1>4. ASSUME NEW w \in Writers, WriteSome(w)
      PROVE  /\ Lines(file) <= Lines(file')
             /\ \A k \in 1..Lines(file) : Rows(file')[k] = Rows(file)[k]
  <2>1. Lines(file) <= Lines(file')
    BY <1>3, <1>4, NewLine
  <2>2. \A k \in DOMAIN file :
            /\ k \in DOMAIN file'
            /\ \A j \in DOMAIN file[k] : file'[k][j] = file[k][j]
    <3>1. PICK to \in (sent[w] + 1)..3 : file' = AppendTo(file, row[w], sent[w] + 1, to)
      BY <1>4, WriteIs
    <3>2. row[w] \in Row /\ sent[w] + 1 \in 1..3
      BY <1>4, WriteIs
    <3> QED
      BY <1>2, <3>1, <3>2, LinesStay
  <2>3. \A k \in 1..Lines(file) : file'[k][1] = file[k][1]
    BY <1>3, <2>2
  <2> QED
    BY <1>3, <2>1, <2>3
<1>5. CASE file' = file
  BY <1>3, <1>5
<1>6. file' = file \/ \E w \in Writers : WriteSome(w)
  BY DEF Next, vars, BeginAppend, Return, Crash, Read
<1> QED
  BY <1>3, <1>4, <1>5, <1>6

SeenInv == /\ Len(seen) <= Lines(file)
           /\ \A k \in 1..Len(seen) : seen[k] = Rows(file)[k]

(* What the last successful read returned still heads the file.            *)
(* (store.py: open(..., "a").)                                             *)
THEOREM SeenInvariant == Spec => []SeenInv
<1>1. Init => SeenInv
  <2> SUFFICES ASSUME Init PROVE SeenInv
    OBVIOUS
  <2>1. FileInv
    BY FileInit
  <2>2. Lines(file) \in Nat
    BY <2>1, RowsOfLines DEF FileInv, TypeOK, NoBlankLines
  <2> QED
    BY <2>2 DEF Init, SeenInv
<1>2. FileInv /\ SeenInv /\ [Next]_vars => SeenInv'
  <2> SUFFICES ASSUME FileInv, SeenInv, [Next]_vars PROVE SeenInv'
    OBVIOUS
  <2>1. /\ Lines(file) \in Nat /\ Lines(file') \in Nat
        /\ Lines(file) <= Lines(file')
        /\ \A k \in 1..Lines(file) : Rows(file')[k] = Rows(file)[k]
    BY RowsStay
  <2>2. Len(seen) \in Nat
    BY DEF FileInv, TypeOK
  <2>3. CASE seen' = seen
    BY <2>1, <2>2, <2>3 DEF SeenInv
  <2>4. CASE Read
    <3>1. Len(Rows(file)) = Lines(file)
      BY RowsOfLines DEF FileInv, TypeOK, NoBlankLines
    <3> QED
      BY <2>1, <2>4, <3>1 DEF Read, SeenInv
  <2>5. seen' = seen \/ Read
    BY DEF Next, vars, BeginAppend, WriteSome, Return, Crash
  <2> QED
    BY <2>3, <2>4, <2>5
<1> QED
  BY <1>1, <1>2, FileInvariant, PTL DEF Spec

(* Of two reads that succeed the later returns the earlier one's rows.     *)
(* (store.py: open(..., "a").)                                             *)
THEOREM LaterReadsGrow == Spec => ReadsGrow
<1> DEFINE Grows == /\ Len(seen) <= Len(seen')
                    /\ \A k \in DOMAIN seen : seen'[k] = seen[k]
<1>1. FileInv /\ SeenInv /\ [Next]_vars => [Grows]_vars
  <2> SUFFICES ASSUME FileInv, SeenInv, Next PROVE Grows \/ UNCHANGED vars
    OBVIOUS
  <2>1. seen \in Seq(Row)
    BY DEF FileInv, TypeOK
  <2>2. CASE seen' = seen
    BY <2>1, <2>2
  <2>3. CASE Read
    <3>1. seen' = Rows(file) /\ Len(Rows(file)) = Lines(file)
      BY <2>3, RowsOfLines DEF Read, FileInv, TypeOK, NoBlankLines
    <3> QED
      BY <2>1, <3>1 DEF SeenInv
  <2>4. seen' = seen \/ Read
    BY DEF Next, BeginAppend, WriteSome, Return, Crash
  <2> QED
    BY <2>2, <2>3, <2>4
<1> QED
  BY <1>1, FileInvariant, SeenInvariant, PTL DEF Spec, ReadsGrow

(* The rows of the file implement the abstract log.                        *)
(* (store.py: class SealStore.)                                            *)
THEOREM FileImplementsLog == Spec => ImplementsLog
<1>1. Init => Log!Init
  <2> SUFFICES ASSUME Init PROVE Rows(file) = <<>>
    BY DEF Log!Init
  <2>1. FileInv
    BY FileInit
  <2>2. Lines(file) = 0
    BY DEF Init, Lines
  <2>3. Rows(file) \in Seq(Row) /\ Len(Rows(file)) = 0
    BY <2>1, <2>2, RowsOfLines DEF FileInv, TypeOK, NoBlankLines
  <2> QED
    BY <2>3
<1>2. FileInv /\ [Next]_vars => [Log!AppendRow]_(Rows(file))
  <2> SUFFICES ASSUME FileInv, [Next]_vars, Rows(file') # Rows(file)
               PROVE  Log!AppendRow
    OBVIOUS
  <2>1. FileInv'
    BY FileStep
  <2>2. /\ Rows(file) \in Seq(Row) /\ Len(Rows(file)) = Lines(file)
        /\ Rows(file') \in Seq(Row) /\ Len(Rows(file')) = Lines(file')
    BY <2>1, RowsOfLines DEF FileInv, TypeOK, NoBlankLines
  <2>3. /\ Lines(file) \in Nat /\ Lines(file') \in Nat
        /\ \A k \in 1..Lines(file) : Rows(file')[k] = Rows(file)[k]
    BY RowsStay
  <2>4. Lines(file') # Lines(file)
    BY <2>2, <2>3
  <2>5. PICK w \in Writers : WriteSome(w)
    BY DEF Next, vars, BeginAppend, Return, Crash, Read
  <2>6. Lines(file') = Lines(file) + 1
    BY <2>4, <2>5, NewLine
  <2>7. SubSeq(Rows(file'), 1, Len(Rows(file))) = Rows(file)
    BY <2>2, <2>3, <2>6
  <2>8. Rows(file')[Len(Rows(file'))] \in Row
    BY <2>2, <2>3, <2>6
  <2> QED
    BY <2>2, <2>6, <2>7, <2>8 DEF Log!AppendRow, Log!Row, Row
<1> QED
  BY <1>1, <1>2, FileInvariant, PTL DEF Spec, ImplementsLog, Log!Spec

--------------------------------------------------------------------------------
(* Whole rows.                                                             *)

Clean == ~torn =>
    /\ file[Len(file)] = <<>>
    /\ \A k \in 1..(Len(file) - 1) : IsRow(file[k])
    /\ \A w \in Writers : pc[w] = "write" => sent[w] = 0

LEMMA CleanWrite ==
    ASSUME FileInv, Clean, NEW w \in Writers, WriteSome(w)
    PROVE  Clean'
<1>1. PICK to \in (sent[w] + 1)..3 :
          /\ file' = AppendTo(file, row[w], sent[w] + 1, to)
          /\ sent' = [sent EXCEPT ![w] = to]
          /\ pc' = [pc EXCEPT ![w] = IF to = 3 THEN "return" ELSE "write"]
          /\ torn' = (torn \/ to < 3)
  BY WriteIs
<1>2. /\ row[w] \in Row /\ sent[w] + 1 \in 1..3 /\ pc[w] = "write"
      /\ file \in Seq(Seq(Piece)) /\ file # <<>>
  BY WriteIs
<1> DEFINE n    == Len(file)
           text == Text(row[w], 1, 3)
<1> SUFFICES ASSUME ~torn'
             PROVE  /\ file'[Len(file')] = <<>>
                    /\ \A k \in 1..(Len(file') - 1) : IsRow(file'[k])
                    /\ \A v \in Writers : pc'[v] = "write" => sent'[v] = 0
  BY DEF Clean
<1>3. to = 3 /\ ~torn
  <2>1. ~(torn \/ to < 3)
    BY <1>1
  <2>2. sent[w] \in 0..3
    BY DEF FileInv, TypeOK
  <2>3. to \in 1..3
    BY <1>2, <2>2
  <2> QED
    BY <2>1, <2>3
<1>4. /\ file[n] = <<>> /\ sent[w] = 0
      /\ \A k \in 1..(n - 1) : IsRow(file[k])
      /\ \A v \in Writers : pc[v] = "write" => sent[v] = 0
  BY <1>2, <1>3 DEF Clean
<1>5. Text(row[w], sent[w] + 1, to) = text /\ 3 \in 1..3
  BY <1>3, <1>4
<1>6. /\ file' \in Seq(Seq(Piece)) /\ file' # <<>>
      /\ \A k \in 1..(n - 1) : file'[k] = file[k]
      /\ file'[n] = file[n] \o text
      /\ file'[n] # <<>> => Len(file') = n + 1 /\ file'[n + 1] = <<>>
  <2>1. /\ file' \in Seq(Seq(Piece)) /\ file' # <<>>
        /\ \A k \in 1..(n - 1) : file'[k] = file[k]
        /\ file'[n] = file[n] \o Text(row[w], sent[w] + 1, to)
        /\ to = 3 /\ file'[n] # <<>> => Len(file') = n + 1 /\ file'[n + 1] = <<>>
    BY <1>1, <1>2, AppendLines
  <2> HIDE DEF n, text
  <2> QED
    BY <1>3, <1>5, <2>1
<1>7. /\ text \in Seq(Piece) /\ Len(text) = 2
      /\ \A j \in 1..Len(text) : text[j] = P(row[w], j)
  BY <1>2, <1>5, TextFromOne
<1>8. n \in Nat /\ n >= 1
  BY <1>2
<1> HIDE DEF n, text
<1>9. file'[n] = text
  BY <1>4, <1>6, <1>7
<1>10. text[1] = P(row[w], 1) /\ text[2] = P(row[w], 2)
  BY <1>7
<1>11. IsRow(text)
  BY <1>7, <1>10 DEF IsRow, P
<1>12. Len(file') = n + 1 /\ file'[n + 1] = <<>>
  <2>1. Len(<<>>) = 0
    OBVIOUS
  <2>2. text # <<>>
    BY <1>7, <2>1
  <2> QED
    BY <1>6, <1>9, <2>2
<1>13. \A k \in 1..(Len(file') - 1) : IsRow(file'[k])
  <2>1. \A k \in 1..(Len(file') - 1) : k = n \/ k \in 1..(n - 1)
    BY <1>8, <1>12
  <2> QED
    BY <1>4, <1>6, <1>9, <1>11, <2>1
<1>14. \A v \in Writers : pc'[v] = "write" => sent'[v] = 0
  BY <1>1, <1>3, <1>4 DEF FileInv, TypeOK
<1> QED
  BY <1>12, <1>13, <1>14

(* Without torn rows every line is a whole row, and no writer has written  *)
(* a part of one. (store.py: append writes the row in one call.)           *)
THEOREM CleanInvariant == Spec => []Clean
<1>1. Init => Clean
  <2> SUFFICES ASSUME Init PROVE Clean
    OBVIOUS
  <2>1. Len(file) = 1 /\ file[1] = <<>>
    BY DEF Init
  <2> QED
    BY <2>1 DEF Init, Clean
<1>2. FileInv /\ Clean /\ [Next]_vars => Clean'
  <2> SUFFICES ASSUME FileInv, Clean, [Next]_vars PROVE Clean'
    OBVIOUS
  <2>1. ASSUME NEW w \in Writers, WriteSome(w) PROVE Clean'
    BY <2>1, CleanWrite
  <2>2. ASSUME NEW w \in Writers, BeginAppend(w) PROVE Clean'
    BY <2>2 DEF BeginAppend, Clean, FileInv, TypeOK
  <2>3. ASSUME NEW w \in Writers, Return(w) \/ Crash(w) PROVE Clean'
    BY <2>3 DEF Return, Crash, Clean, FileInv, TypeOK
  <2>4. CASE Read \/ UNCHANGED vars
    BY <2>4 DEF Read, vars, Clean
  <2> QED
    BY <2>1, <2>2, <2>3, <2>4 DEF Next
<1> QED
  BY <1>1, <1>2, FileInvariant, PTL DEF Spec

(* As long as every row is one write, the file can be read.                *)
(* (store.py: append writes the row in one call.)                          *)
THEOREM WholeRowsAreRead == Spec => []WholeRowsStayReadable
<1>1. FileInv /\ Clean => WholeRowsStayReadable
  <2> SUFFICES ASSUME FileInv, Clean, ~torn, NEW k \in DOMAIN file, file[k] # <<>>
               PROVE  IsRow(file[k])
    BY DEF WholeRowsStayReadable, Readable
  <2>1. file \in Seq(Seq(Piece)) /\ file # <<>>
    BY DEF FileInv, TypeOK
  <2>2. k \in 1..(Len(file) - 1)
    BY <2>1 DEF Clean
  <2> QED
    BY <2>2 DEF Clean
<1> QED
  BY <1>1, FileInvariant, CleanInvariant, PTL

--------------------------------------------------------------------------------
(* Ids.                                                                    *)

(* As long as no two appends overlapped one writer writes at most, and if  *)
(* it has not begun to, its row is the next one.                           *)
Alone == ~overlapped =>
    /\ \A v, w \in Writers : pc[v] = "write" /\ pc[w] = "write" => v = w
    /\ \A w \in Writers : pc[w] = "write" =>
          IF sent[w] = 0 THEN row[w].id = Lines(file) + 1
                         ELSE file[Len(file)] # <<>>

IdInv ==
    /\ \A k \in 1..Lines(file) :
          /\ Rows(file)[k].id <= k
          /\ ~overlapped => Rows(file)[k].id = k
    /\ \A w \in Writers : pc[w] = "write" => row[w].id <= Lines(file) + 1
    /\ Alone

LEMMA IdsWrite ==
    ASSUME FileInv, IdInv, NEW w \in Writers, WriteSome(w)
    PROVE  IdInv'
<1> DEFINE L == Lines(file)
           M == Lines(file')
<1>1. FileInv'
  BY FileStep DEF Next
<1>2. /\ L \in Nat /\ M \in Nat /\ L <= M
      /\ \A k \in 1..L : Rows(file')[k] = Rows(file)[k]
  BY RowsStay DEF Next
<1>3. /\ M \in {L, L + 1}
      /\ M = L + 1 => /\ file[Len(file)] = <<>>
                      /\ file'[M][1] = P(row[w], sent[w] + 1)
      /\ pc'[w] = "write" => file'[Len(file')] # <<>>
  <2>1. /\ Lines(file') \in {Lines(file), Lines(file) + 1}
        /\ Lines(file') = Lines(file) + 1 =>
              /\ file[Len(file)] = <<>>
              /\ file'[Lines(file')][1] = P(row[w], sent[w] + 1)
        /\ pc'[w] = "write" => file'[Len(file')] # <<>>
    <3>1. Lines(file') \in {Lines(file), Lines(file) + 1}
      BY NewLine
    <3>2. pc'[w] = "write" => file'[Len(file')] # <<>>
      BY NewLine
    <3>3. Lines(file') = Lines(file) + 1 => file[Len(file)] = <<>>
      BY NewLine
    <3>4. Lines(file') = Lines(file) + 1 => file'[Lines(file')][1] = P(row[w], sent[w] + 1)
      BY NewLine
    <3> QED
      BY <3>1, <3>2, <3>3, <3>4
  <2> QED
    BY <2>1
<1>4. /\ pc[w] = "write" /\ row[w] \in Row /\ sent[w] \in 0..3
      /\ UNCHANGED <<row, overlapped>>
      /\ \A v \in Writers : v # w => pc'[v] = pc[v] /\ sent'[v] = sent[v]
      /\ pc'[w] = "write" => sent'[w] < 3 /\ sent'[w] # 0
  <2>1. PICK to \in (sent[w] + 1)..3 :
            /\ file' = AppendTo(file, row[w], sent[w] + 1, to)
            /\ sent' = [sent EXCEPT ![w] = to]
            /\ pc' = [pc EXCEPT ![w] = IF to = 3 THEN "return" ELSE "write"]
    BY WriteIs
  <2>2. pc[w] = "write" /\ row[w] \in Row /\ sent[w] \in 0..3
    BY WriteIs DEF FileInv, TypeOK
  <2> QED
    BY <2>1, <2>2 DEF WriteSome, FileInv, TypeOK
<1>5. M = L + 1 => Rows(file')[M] = row[w]
  <2>1. \A k \in 1..M : Rows(file')[k] = file'[k][1].row
    BY <1>1, RowsOfLines DEF FileInv, TypeOK, NoBlankLines
  <2> QED
    BY <1>2, <1>3, <2>1 DEF P
<1>6. \A k \in 1..M : k \in 1..L \/ (M = L + 1 /\ k = M)
  BY <1>2, <1>3
<1>7. row[w].id \in Nat /\ \A v \in Writers : pc[v] = "write" => row[v].id \in Nat
  BY <1>4 DEF FileInv, Writing, Row
<1>8. \A k \in 1..M : Rows(file')[k].id <= k
  <2>1. row[w].id <= L + 1
    BY <1>4 DEF IdInv
  <2> QED
    BY <1>2, <1>5, <1>6, <2>1 DEF IdInv
<1>9. ~overlapped => \A k \in 1..M : Rows(file')[k].id = k
  <2> SUFFICES ASSUME ~overlapped PROVE \A k \in 1..M : Rows(file')[k].id = k
    OBVIOUS
  <2>1. M = L + 1 => row[w].id = L + 1
    BY <1>3, <1>4 DEF IdInv, Alone
  <2> QED
    BY <1>2, <1>5, <1>6, <2>1 DEF IdInv
<1>10. \A v \in Writers : pc'[v] = "write" => row'[v].id <= M + 1
  <2> SUFFICES ASSUME NEW v \in Writers, pc'[v] = "write" PROVE row[v].id <= M + 1
    BY <1>4
  <2>1. pc[v] = "write"
    BY <1>4
  <2>2. row[v].id <= L + 1 /\ row[v].id \in Nat
    BY <1>7, <2>1 DEF IdInv
  <2> QED
    BY <1>2, <2>2
<1>11. Alone'
  <2> SUFFICES ASSUME ~overlapped
               PROVE  /\ \A u, v \in Writers : pc'[u] = "write" /\ pc'[v] = "write" => u = v
                      /\ \A v \in Writers : pc'[v] = "write" =>
                            IF sent'[v] = 0 THEN row'[v].id = M + 1
                                            ELSE file'[Len(file')] # <<>>
    BY <1>4 DEF Alone
  <2>1. \A v \in Writers : pc[v] = "write" => v = w
    BY <1>4 DEF IdInv, Alone
  <2>2. \A v \in Writers : pc'[v] = "write" => v = w
    BY <1>4, <2>1
  <2> QED
    BY <1>3, <1>4, <2>2
<1> QED
  BY <1>4, <1>8, <1>9, <1>10, <1>11 DEF IdInv

LEMMA IdsBegin ==
    ASSUME FileInv, IdInv, NEW w \in Writers, BeginAppend(w)
    PROVE  IdInv'
<1> DEFINE L == Lines(file)
<1>1. PICK result \in Results :
          /\ row' = [row EXCEPT ![w] = [id |-> NextId(file), result |-> result]]
          /\ sent' = [sent EXCEPT ![w] = 0]
  BY DEF BeginAppend
<1>2. /\ pc' = [pc EXCEPT ![w] = "write"] /\ file' = file
      /\ overlapped' = (overlapped \/ \E v \in Writers : pc[v] = "write")
  BY DEF BeginAppend
<1>3. row'[w].id = NextId(file) /\ sent'[w] = 0
  BY <1>1 DEF FileInv, TypeOK
<1>4. \A v \in Writers : v # w => /\ row'[v] = row[v] /\ sent'[v] = sent[v]
                                  /\ pc'[v] = pc[v]
  BY <1>1, <1>2 DEF FileInv, TypeOK
<1>5. Rows(file) \in Seq(Row) /\ Len(Rows(file)) = L /\ L \in Nat
  BY RowsOfLines DEF FileInv, TypeOK, NoBlankLines
<1>6. /\ NextId(file) <= L + 1
      /\ ~overlapped => NextId(file) = L + 1
  <2>1. CASE Rows(file) = <<>>
    BY <1>5, <2>1 DEF NextId
  <2>2. CASE Rows(file) # <<>>
    <3>1. L \in 1..L /\ Rows(file)[L] \in Row
      BY <1>5, <2>2
    <3>2. Rows(file)[L].id \in Nat
      BY <3>1 DEF Row
    <3>3. NextId(file) = Rows(file)[L].id + 1
      BY <1>5, <2>2 DEF NextId
    <3> QED
      BY <1>5, <3>1, <3>2, <3>3 DEF IdInv
  <2> QED
    BY <2>1, <2>2
<1>7. Lines(file') = L /\ Rows(file') = Rows(file)
  BY <1>2
<1>8. \A v \in Writers : pc'[v] = "write" => row'[v].id <= L + 1
  BY <1>3, <1>4, <1>6 DEF IdInv
<1>9. Alone'
  <2> SUFFICES ASSUME ~overlapped'
               PROVE  /\ \A u, v \in Writers : pc'[u] = "write" /\ pc'[v] = "write" => u = v
                      /\ \A v \in Writers : pc'[v] = "write" =>
                            IF sent'[v] = 0 THEN row'[v].id = L + 1
                                            ELSE file[Len(file)] # <<>>
    BY <1>2, <1>7 DEF Alone
  <2>1. ~overlapped /\ \A v \in Writers : pc[v] # "write"
    BY <1>2
  <2>2. \A v \in Writers : pc'[v] = "write" => v = w
    BY <1>4, <2>1
  <2> QED
    BY <1>3, <1>6, <2>1, <2>2
<1> QED
  BY <1>2, <1>7, <1>8, <1>9 DEF IdInv

(* The ids that _next_id gave, to rows stored and under way, against the   *)
(* places they have or will have.                                          *)
THEOREM IdsInvariant == Spec => []IdInv
<1>1. Init => IdInv
  <2> SUFFICES ASSUME Init PROVE IdInv
    OBVIOUS
  <2>1. Lines(file) = 0
    BY DEF Init, Lines
  <2>2. \A w \in Writers : pc[w] # "write"
    BY DEF Init
  <2> QED
    BY <2>1, <2>2 DEF IdInv, Alone
<1>2. FileInv /\ IdInv /\ [Next]_vars => IdInv'
  <2> SUFFICES ASSUME FileInv, IdInv, [Next]_vars PROVE IdInv'
    OBVIOUS
  <2>1. ASSUME NEW w \in Writers, WriteSome(w) PROVE IdInv'
    BY <2>1, IdsWrite
  <2>2. ASSUME NEW w \in Writers, BeginAppend(w) PROVE IdInv'
    BY <2>2, IdsBegin
  <2>3. ASSUME NEW w \in Writers, Return(w) \/ Crash(w) PROVE IdInv'
    <3>1. /\ file' = file /\ row' = row /\ sent' = sent /\ overlapped' = overlapped
          /\ \A v \in Writers : pc'[v] = "write" => pc[v] = "write"
      BY <2>3 DEF Return, Crash, FileInv, TypeOK
    <3> QED
      BY <3>1 DEF IdInv, Alone
  <2>4. CASE Read \/ UNCHANGED vars
    BY <2>4 DEF Read, vars, IdInv, Alone
  <2> QED
    BY <2>1, <2>2, <2>3, <2>4 DEF Next
<1> QED
  BY <1>1, <1>2, FileInvariant, PTL DEF Spec

(* An id is never larger than its row's place, and without overlapping     *)
(* appends the ids number the rows.  (store.py: _next_id.)                 *)
THEOREM IdsAreNumbers == Spec => []IdsNumberRows
<1>1. FileInv /\ IdInv => IdsNumberRows
  <2> SUFFICES ASSUME FileInv, IdInv PROVE IdsNumberRows
    OBVIOUS
  <2>1. DOMAIN Rows(file) = 1..Lines(file)
    BY RowsOfLines DEF FileInv, TypeOK, NoBlankLines
  <2> QED
    BY <2>1 DEF IdInv, IdsNumberRows
<1> QED
  BY <1>1, FileInvariant, IdsInvariant, PTL

--------------------------------------------------------------------------------
(* Acknowledged rows.                                                      *)

Place    == Nat \X Nat
At(f, q, r) == /\ q[1] \in DOMAIN f /\ q[2] \in DOMAIN f[q[1]]
               /\ f[q[1]][q[2]] = P(r, 1)
Begun(w) == pc[w] \in {"write", "return"} /\ sent[w] # 0

(* The first piece of each acknowledged row, and of each row a writer has  *)
(* begun to write, has a place of its own in the file.                     *)
Placed(pos, pend) ==
    /\ \A i \in 1..Len(acked) : At(file, pos[i], acked[i])
    /\ \A i, j \in 1..Len(acked) : i # j => pos[i] # pos[j]
    /\ \A w \in Writers : Begun(w) =>
          /\ At(file, pend[w], row[w])
          /\ \A i \in 1..Len(acked) : pos[i] # pend[w]
          /\ \A v \in Writers : Begun(v) /\ v # w => pend[v] # pend[w]

PlaceInv ==
    \E pos \in [1..Len(acked) -> Place] : \E pend \in [Writers -> Place] :
        Placed(pos, pend)

(* Pieces stay where they are.                                             *)
LEMMA PlacesStay ==
    ASSUME FileInv, NEW w \in Writers, WriteSome(w),
           NEW q \in Place, NEW r, At(file, q, r)
    PROVE  At(file', q, r)
<1>1. PICK to \in (sent[w] + 1)..3 : file' = AppendTo(file, row[w], sent[w] + 1, to)
  BY WriteIs
<1>2. row[w] \in Row /\ sent[w] + 1 \in 1..3 /\ file \in Seq(Seq(Piece)) /\ file # <<>>
  BY WriteIs
<1>3. \A k \in DOMAIN file :
          /\ k \in DOMAIN file'
          /\ \A j \in DOMAIN file[k] : j \in DOMAIN file'[k] /\ file'[k][j] = file[k][j]
  BY <1>1, <1>2, LinesStay
<1> QED
  BY <1>3 DEF At

LEMMA WriteLines ==
    ASSUME FileInv, NEW w \in Writers, WriteSome(w),
           NEW to \in (sent[w] + 1)..3,
           file' = AppendTo(file, row[w], sent[w] + 1, to)
    PROVE  LET n == Len(file) IN
           /\ file' \in Seq(Seq(Piece))
           /\ file'[n] = file[n] \o Text(row[w], sent[w] + 1, to)
           /\ to = 3 /\ file'[n] # <<>> => Len(file') = n + 1
           /\ ~(to = 3 /\ file'[n] # <<>>) => Len(file') = n
<1>1. /\ row[w] \in Row /\ sent[w] + 1 \in 1..3
      /\ file \in Seq(Seq(Piece)) /\ file # <<>>
  BY WriteIs
<1> QED
  BY <1>1, AppendLines

(* A row whose first piece is written gets the place behind all others.    *)
LEMMA FreshPlace ==
    ASSUME FileInv, NEW w \in Writers, WriteSome(w), sent[w] = 0
    PROVE  \E q \in Place :
              /\ At(file', q, row'[w])
              /\ \A p \in Place : \A r : At(file, p, r) => p # q
<1>1. PICK to \in (sent[w] + 1)..3 : file' = AppendTo(file, row[w], sent[w] + 1, to)
  BY WriteIs
<1>2. /\ row[w] \in Row /\ sent[w] + 1 \in 1..3
      /\ file \in Seq(Seq(Piece)) /\ file # <<>>
  BY WriteIs
<1>0. sent[w] + 1 = 1 /\ row' = row
  BY DEF WriteSome
<1> DEFINE n    == Len(file)
           text == Text(row[w], 1, to)
           q    == <<n, Len(file[n]) + 1>>
<1>3. to \in 1..3 /\ Text(row[w], sent[w] + 1, to) = text
  BY <1>0, <1>2
<1>4. /\ file'[n] = file[n] \o text
      /\ Len(file') \in {n, n + 1}
      /\ file' \in Seq(Seq(Piece))
  <2>1. /\ file'[n] = file[n] \o Text(row[w], sent[w] + 1, to)
        /\ to = 3 /\ file'[n] # <<>> => Len(file') = n + 1
        /\ ~(to = 3 /\ file'[n] # <<>>) => Len(file') = n
        /\ file' \in Seq(Seq(Piece))
    BY <1>1, WriteLines
  <2> HIDE DEF n, text
  <2> QED
    BY <1>3, <2>1
<1>5. /\ text \in Seq(Piece) /\ Len(text) = (IF to = 3 THEN 2 ELSE to)
      /\ \A j \in 1..Len(text) : text[j] = P(row[w], j)
  BY <1>2, <1>3, TextFromOne
<1>6. n \in Nat /\ n >= 1 /\ n \in DOMAIN file /\ file[n] \in Seq(Piece)
  BY <1>2
<1> HIDE DEF n, text
<1>7. Len(text) >= 1 /\ text[1] = P(row[w], 1)
  BY <1>3, <1>5
<1>8. n \in DOMAIN file'
  BY <1>4, <1>6
<1>9. /\ Len(file[n]) + 1 \in DOMAIN file'[n]
      /\ file'[n][Len(file[n]) + 1] = P(row[w], 1)
  BY <1>4, <1>5, <1>6, <1>7
<1>10. q \in Place
  BY <1>6 DEF Place
<1>11. At(file', q, row'[w])
  <2>1. q[1] = n /\ q[2] = Len(file[n]) + 1 /\ row'[w] = row[w]
    BY <1>0
  <2> HIDE DEF q
  <2> QED
    BY <2>1, <1>8, <1>9 DEF At
<1>12. \A p \in Place : \A r : At(file, p, r) => p # q
  <2> SUFFICES ASSUME NEW p \in Place, NEW r, At(file, p, r), p = q PROVE FALSE
    OBVIOUS
  <2>1. p[2] \in DOMAIN file[n] /\ p[2] = Len(file[n]) + 1
    BY DEF At
  <2> QED
    BY <1>6, <2>1
<1> HIDE DEF q
<1> QED
  BY <1>10, <1>11, <1>12

LEMMA PlaceWrite ==
    ASSUME FileInv, PlaceInv, NEW w \in Writers, WriteSome(w)
    PROVE  PlaceInv'
<1>1. PICK pos \in [1..Len(acked) -> Place], pend \in [Writers -> Place] :
          Placed(pos, pend)
  BY DEF PlaceInv
<1>2. /\ UNCHANGED <<row, acked>> /\ pc[w] = "write"
      /\ \A v \in Writers : v # w => (Begun(v)' <=> Begun(v))
  BY DEF WriteSome, Begun, FileInv, TypeOK
<1>3. \A i \in 1..Len(acked) : At(file', pos[i], acked'[i])
  <2> SUFFICES ASSUME NEW i \in 1..Len(acked) PROVE At(file', pos[i], acked'[i])
    OBVIOUS
  <2>1. pos[i] \in Place /\ At(file, pos[i], acked[i])
    BY <1>1 DEF Placed
  <2>2. file'[pos[i][1]][pos[i][2]] = P(acked[i], 1)
        /\ pos[i][1] \in DOMAIN file' /\ pos[i][2] \in DOMAIN file'[pos[i][1]]
    BY <2>1, PlacesStay DEF At
  <2> QED
    BY <1>2, <2>2 DEF At
<1>4. ASSUME NEW v \in Writers, Begun(v) PROVE At(file', pend[v], row'[v])
  <2>1. pend[v] \in Place /\ At(file, pend[v], row[v])
    BY <1>1, <1>4 DEF Placed
  <2>2. file'[pend[v][1]][pend[v][2]] = P(row[v], 1)
        /\ pend[v][1] \in DOMAIN file' /\ pend[v][2] \in DOMAIN file'[pend[v][1]]
    BY <2>1, PlacesStay DEF At
  <2> QED
    BY <1>2, <2>2 DEF At
<1>5. CASE sent[w] # 0
  <2>1. Begun(w)
    BY <1>2, <1>5 DEF Begun
  <2>2. \A v \in Writers : Begun(v)' => Begun(v)
    BY <1>2, <2>1
  <2>3. Placed(pos, pend)'
    BY <1>1, <1>2, <1>3, <1>4, <2>2 DEF Placed
  <2> QED
    BY <1>2, <2>3 DEF PlaceInv
<1>6. CASE sent[w] = 0
  <2>1. PICK q \in Place : /\ At(file', q, row'[w])
                           /\ \A p \in Place : \A r : At(file, p, r) => p # q
    BY <1>6, FreshPlace
  <2> DEFINE new == [pend EXCEPT ![w] = q]
  <2>2. new \in [Writers -> Place] /\ new[w] = q
        /\ \A v \in Writers : v # w => new[v] = pend[v]
    BY <2>1
  <2>3. \A i \in 1..Len(acked) : pos[i] # q
    BY <1>1, <2>1 DEF Placed
  <2>4. \A v \in Writers : Begun(v) => pend[v] # q
    BY <1>1, <2>1 DEF Placed
  <2> HIDE DEF new
  <2>5. ASSUME NEW v \in Writers, Begun(v)'
        PROVE  /\ At(file', new[v], row'[v])
               /\ \A i \in 1..Len(acked) : pos[i] # new[v]
               /\ \A u \in Writers : Begun(u)' /\ u # v => new[u] # new[v]
    <3>1. CASE v = w
      BY <1>2, <2>1, <2>2, <2>3, <2>4, <3>1
    <3>2. CASE v # w
      <4>1. Begun(v) /\ new[v] = pend[v]
        BY <1>2, <2>2, <2>5, <3>2
      <4>2. At(file', new[v], row'[v])
        BY <1>4, <4>1
      <4>3. \A i \in 1..Len(acked) : pos[i] # new[v]
        BY <1>1, <4>1 DEF Placed
      <4>4. \A u \in Writers : Begun(u)' /\ u # v => new[u] # new[v]
        BY <1>1, <1>2, <2>2, <2>4, <4>1 DEF Placed
      <4> QED
        BY <4>2, <4>3, <4>4
    <3> QED
      BY <3>1, <3>2
  <2>6. \A i, j \in 1..Len(acked) : i # j => pos[i] # pos[j]
    BY <1>1 DEF Placed
  <2>7. Placed(pos, new)'
    BY <1>2, <1>3, <2>5, <2>6 DEF Placed
  <2> QED
    BY <1>2, <2>2, <2>7 DEF PlaceInv
<1> QED
  BY <1>5, <1>6

LEMMA PlaceReturn ==
    ASSUME FileInv, PlaceInv, NEW w \in Writers, Return(w)
    PROVE  PlaceInv'
<1>1. PICK pos \in [1..Len(acked) -> Place], pend \in [Writers -> Place] :
          Placed(pos, pend)
  BY DEF PlaceInv
<1> DEFINE m == Len(acked)
<1>2. /\ UNCHANGED <<file, row, sent>> /\ pc[w] = "return" /\ row[w] \in Row
      /\ pc' = [pc EXCEPT ![w] = "idle"] /\ acked' = Append(acked, row[w])
      /\ m \in Nat /\ acked \in Seq(Row)
  BY DEF Return, FileInv, TypeOK, Writing
<1>3. Begun(w)
  <2>1. sent[w] = 3
    BY <1>2 DEF FileInv, Writing
  <2> QED
    BY <1>2, <2>1 DEF Begun
<1>4. \A v \in Writers : Begun(v)' => Begun(v) /\ v # w
  BY <1>2 DEF Begun, FileInv, TypeOK
<1>5. /\ Len(acked') = m + 1 /\ acked'[m + 1] = row[w]
      /\ \A i \in 1..m : acked'[i] = acked[i]
  BY <1>2
<1>6. PICK new \in [1..(m + 1) -> Place] :
          new[m + 1] = pend[w] /\ \A i \in 1..m : new[i] = pos[i]
  <2> DEFINE longer == [i \in 1..(m + 1) |-> IF i = m + 1 THEN pend[w] ELSE pos[i]]
  <2>1. /\ longer \in [1..(m + 1) -> Place] /\ longer[m + 1] = pend[w]
        /\ \A i \in 1..m : longer[i] = pos[i]
    BY <1>1, <1>2
  <2> QED
    BY <2>1
<1> HIDE DEF m
<1>7. \A i \in 1..(m + 1) : i = m + 1 \/ i \in 1..m
  BY <1>2
<1>8. file' = file /\ row' = row
  BY <1>2
<1>9. /\ \A i \in 1..m : At(file, pos[i], acked[i])
      /\ \A i, j \in 1..m : i # j => pos[i] # pos[j]
      /\ \A v \in Writers : Begun(v) =>
            /\ At(file, pend[v], row[v])
            /\ \A i \in 1..m : pos[i] # pend[v]
            /\ \A u \in Writers : Begun(u) /\ u # v => pend[u] # pend[v]
  BY <1>1 DEF Placed, m
<1>10. \A i \in 1..(m + 1) : At(file, new[i], acked'[i])
  BY <1>3, <1>5, <1>6, <1>7, <1>9
<1>11. \A i, j \in 1..(m + 1) : i # j => new[i] # new[j]
  BY <1>3, <1>6, <1>7, <1>9
<1>12. \A v \in Writers : Begun(v)' =>
          /\ At(file, pend[v], row[v])
          /\ \A i \in 1..(m + 1) : new[i] # pend[v]
          /\ \A u \in Writers : Begun(u)' /\ u # v => pend[u] # pend[v]
  BY <1>3, <1>4, <1>6, <1>7, <1>9
<1>13. /\ \A i \in 1..Len(acked') : At(file', new[i], acked'[i])
       /\ \A i, j \in 1..Len(acked') : i # j => new[i] # new[j]
  BY <1>5, <1>8, <1>10, <1>11
<1>14. \A v \in Writers : Begun(v)' =>
          /\ At(file', pend[v], row'[v])
          /\ \A i \in 1..Len(acked') : new[i] # pend[v]
          /\ \A u \in Writers : Begun(u)' /\ u # v => pend[u] # pend[v]
  BY <1>5, <1>8, <1>12
<1>15. new \in [1..Len(acked') -> Place] /\ pend \in [Writers -> Place]
  BY <1>1, <1>5, <1>6
<1>16. Placed(new, pend)'
  BY <1>13, <1>14 DEF Placed
<1> QED
  BY <1>15, <1>16 DEF PlaceInv

(* Rows that append has acknowledged or begun to write keep a place of     *)
(* their own in the file, torn lines or not.                               *)
THEOREM PlaceInvariant == Spec => []PlaceInv
<1>1. Init => PlaceInv
  <2> SUFFICES ASSUME Init PROVE PlaceInv
    OBVIOUS
  <2>1. Len(acked) = 0 /\ \A w \in Writers : ~Begun(w)
    BY DEF Init, Begun
  <2> DEFINE pos  == [i \in 1..0 |-> <<0, 0>>]
             pend == [w \in Writers |-> <<0, 0>>]
  <2>2. pos \in [1..Len(acked) -> Place] /\ pend \in [Writers -> Place]
    BY <2>1 DEF Place
  <2>3. Placed(pos, pend)
    BY <2>1 DEF Placed
  <2> QED
    BY <2>2, <2>3 DEF PlaceInv
<1>2. FileInv /\ PlaceInv /\ [Next]_vars => PlaceInv'
  <2> SUFFICES ASSUME FileInv, PlaceInv, [Next]_vars PROVE PlaceInv'
    OBVIOUS
  <2>1. ASSUME NEW w \in Writers, WriteSome(w) PROVE PlaceInv'
    BY <2>1, PlaceWrite
  <2>2. ASSUME NEW w \in Writers, Return(w) PROVE PlaceInv'
    BY <2>2, PlaceReturn
  <2>3. ASSUME NEW w \in Writers, BeginAppend(w) \/ Crash(w) PROVE PlaceInv'
    <3>1. PICK pos \in [1..Len(acked) -> Place], pend \in [Writers -> Place] :
              Placed(pos, pend)
      BY DEF PlaceInv
    <3>2. UNCHANGED <<file, acked>>
      BY <2>3 DEF BeginAppend, Crash
    <3>3. \A v \in Writers : Begun(v)' => Begun(v) /\ row'[v] = row[v]
      BY <2>3 DEF BeginAppend, Crash, Begun, FileInv, TypeOK
    <3>4. Placed(pos, pend)'
      BY <3>1, <3>2, <3>3 DEF Placed, At
    <3> QED
      BY <3>2, <3>4 DEF PlaceInv
  <2>4. CASE Read \/ UNCHANGED vars
    <3>1. UNCHANGED <<file, acked, pc, sent, row>>
      BY <2>4 DEF Read, vars
    <3> QED
      BY <3>1 DEF PlaceInv, Placed, At, Begun
  <2> QED
    BY <2>1, <2>2, <2>3, <2>4 DEF Next
<1> QED
  BY <1>1, <1>2, FileInvariant, PTL DEF Spec

(* A read that does not raise returns every acknowledged append, each as   *)
(* many times as it was acknowledged.  (store.py: read raises on a line    *)
(* that does not parse.)                                                   *)
THEOREM NothingIsLostInSilence == Spec => []LoudOrComplete
<1>1. FileInv /\ PlaceInv => LoudOrComplete
  <2> SUFFICES ASSUME FileInv, PlaceInv, Readable(file)
               PROVE  Embeds(acked, Rows(file))
    BY DEF LoudOrComplete
  <2>1. PICK pos \in [1..Len(acked) -> Place], pend \in [Writers -> Place] :
            Placed(pos, pend)
    BY DEF PlaceInv
  <2> DEFINE m  == Len(acked)
             at == [i \in 1..m |-> pos[i][1]]
  <2>2. m \in Nat /\ DOMAIN acked = 1..m
    BY DEF FileInv, TypeOK
  <2>3. /\ Lines(file) \in Nat /\ DOMAIN Rows(file) = 1..Lines(file)
        /\ \A k \in 1..Lines(file) : Rows(file)[k] = file[k][1].row
        /\ \A k \in DOMAIN file : file[k] # <<>> => k \in 1..Lines(file)
        /\ file \in Seq(Seq(Piece))
    BY RowsOfLines DEF FileInv, TypeOK, NoBlankLines
  <2>4. ASSUME NEW i \in 1..m
        PROVE  /\ pos[i] = <<pos[i][1], 1>>
               /\ pos[i][1] \in 1..Lines(file)
               /\ Rows(file)[pos[i][1]] = acked[i]
    <3> DEFINE k == pos[i][1]
               j == pos[i][2]
    <3>1. pos[i] \in Place /\ pos[i] = <<k, j>>
      BY <2>1 DEF Place
    <3>2. k \in DOMAIN file /\ j \in DOMAIN file[k] /\ file[k][j] = P(acked[i], 1)
      BY <2>1 DEF Placed, At
    <3> HIDE DEF k, j
    <3>3. file[k] \in Seq(Piece) /\ file[k] # <<>>
      BY <2>3, <3>2
    <3>4. Len(file[k]) = 2 /\ \A l \in 1..2 : file[k][l] = [row |-> file[k][1].row, part |-> l]
      BY <3>2, <3>3 DEF Readable, IsRow
    <3>5. j \in 1..2
      BY <3>2, <3>3, <3>4
    <3>6. j = 1 /\ file[k][1].row = acked[i]
      BY <3>2, <3>4, <3>5 DEF P
    <3> QED
      BY <2>3, <3>1, <3>2, <3>3, <3>6 DEF k, j
  <2>5. \A i, j \in 1..m : i # j => pos[i] # pos[j]
    BY <2>1 DEF Placed
  <2>6. at \in [DOMAIN acked -> DOMAIN Rows(file)]
    <3>1. \A i \in 1..m : pos[i][1] \in DOMAIN Rows(file)
      BY <2>3, <2>4
    <3> DEFINE range == DOMAIN Rows(file)
    <3> HIDE DEF m, range
    <3>2. \A i \in 1..m : pos[i][1] \in range
      BY <3>1 DEF range
    <3>3. at \in [1..m -> range]
      BY <3>2
    <3> QED
      BY <2>2, <3>3 DEF range
  <2>7. \A i \in 1..m : at[i] = pos[i][1]
    OBVIOUS
  <2> HIDE DEF m, at
  <2>8. \A i, j \in DOMAIN acked : i # j => at[i] # at[j]
    <3> SUFFICES ASSUME NEW i \in 1..m, NEW j \in 1..m, at[i] = at[j]
                 PROVE  pos[i] = pos[j]
      BY <2>2, <2>5
    <3>1. pos[i] = <<at[i], 1>> /\ pos[j] = <<at[j], 1>>
      BY <2>4, <2>7
    <3> QED
      BY <3>1
  <2>9. \A i \in DOMAIN acked : acked[i] = Rows(file)[at[i]]
    BY <2>2, <2>4, <2>7
  <2> QED
    BY <2>6, <2>8, <2>9 DEF Embeds
<1> QED
  BY <1>1, FileInvariant, PlaceInvariant, PTL
=============================================================================
