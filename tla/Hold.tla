-------------------------------- MODULE Hold --------------------------------
(***************************************************************************)
(* std.hold, stdlib/runtime/buraaq_hold.c: tables of named columns, which  *)
(* one thread makes, fills, filters, orders, writes to a CSV file and reads *)
(* back.  A table is never freed; there are MaxTables slots, 64 in the     *)
(* code.  A growth, and the line that keep builds, may find no memory; the *)
(* row is then left out, and only stow itself tells its caller.  That line *)
(* has room for CellBytes a column and no more, whatever the cells hold.   *)
(* Writes to the file are not checked, so a full disk leaves a part of it. *)
(***************************************************************************)
EXTENDS Csv, FiniteSets

CONSTANTS
  MaxTables,   \* BQ_HOLD_MAX
  MaxCols,     \* BQ_HOLD_COLS
  FirstCap,    \* BQ_HOLD_START
  CellBytes,   \* 64: what keep's line has for a column,
  SpareBytes,  \* 8: and besides; a token counts as one byte
  Headers,     \* the texts a program makes tables of
  Stowed,      \* the texts it stows
  Sought,      \* the cells it keeps rows by
  MaxRows, MaxCalls, MaxMishaps   \* bounds of the exploration

ASSUME SizesAssumption ==
  {MaxTables, MaxCols, FirstCap, CellBytes, SpareBytes} \subseteq Nat \ {0}
ASSUME TextsAssumption == Headers \cup Stowed \cup Sought \subseteq Seq(Tokens)
ASSUME BoundsAssumption == {MaxRows, MaxCalls, MaxMishaps} \subseteq Nat

VARIABLES
  holds,     \* g_holds: the tables in use, by slot
  file,      \* the CSV file, NoFile before it is written
  calls, mishaps,
  call,      \* history: the last call and what it returned
  source     \* history: the table the file was written from, when all of it was

vars == <<holds, file, calls, mishaps, call, source>>

NoFile == [there |-> FALSE, text |-> Nothing]
NoTable == [names |-> <<>>, rows |-> <<>>, cap |-> 0]
Ids == 0 .. MaxTables - 1
InUse == {i \in Ids : holds[i] # NoTable}

Init ==
  /\ holds = [i \in Ids |-> NoTable]
  /\ file = NoFile
  /\ calls = 0 /\ mishaps = 0
  /\ call = [op |-> "none", got |-> 0]
  /\ source = NoTable

-----------------------------------------------------------------------------
(* Tables as values *)

\* hold_slot
Slot == IF InUse = Ids THEN -1 ELSE CHOOSE i \in Ids \ InUse : \A j \in Ids \ InUse : i <= j

\* hold_from_names, with a first growth that the memory allows.
FromNames(names) == [names |-> names, rows |-> <<>>, cap |-> FirstCap]

Full(h) == Len(h.rows) >= h.cap

\* The cells of a row that is as long as its text made it.
AsParsed(h, line) == Fields(line, MaxCols)

\* The cells of a row: empty ones for what is missing, none for what is over.
RowOf(h, line) ==
  LET parts == Fields(line, MaxCols)
  IN [c \in 1 .. Len(h.names) |-> IF c <= Len(parts) THEN parts[c] ELSE Nothing]

\* hold_grow, when it succeeds.
Grown(h) == IF Full(h) THEN [h EXCEPT !.cap = @ * 2] ELSE h

\* buraaq_hold_stow, when it succeeds.
Stowing(h, line) == [Grown(h) EXCEPT !.rows = Append(@, RowOf(h, line))]

\* col_index, counting from one: the first column of the name, or none.
Col(h, name) == IF name \in ToSet(h.names) THEN SelectInSeq(h.names, LAMBDA n : n = name) ELSE 0

Pick(h, name, row) ==
  IF Col(h, name) = 0 \/ row \notin 1 .. Len(h.rows) THEN Nothing
  ELSE h.rows[row][Col(h, name)]

-----------------------------------------------------------------------------
(* The calls *)

Mishap == mishaps < MaxMishaps /\ mishaps' = mishaps + 1

\* Nothing is said of a program that has written over its heap.
Called(c) == call.op # "overrun" /\ calls < MaxCalls /\ calls' = calls + 1 /\ call' = c

\* buraaq_hold_new: a text with no cell, no slot or no memory gives -1.
New(cols) ==
  LET names == Fields(cols, MaxCols)
      id == IF names = <<>> THEN -1 ELSE Slot
  IN /\ \/ /\ id >= 0
           /\ Called([op |-> "new", got |-> id])
           /\ holds' = [holds EXCEPT ![id] = FromNames(names)]
           /\ UNCHANGED mishaps
        \/ /\ IF id = -1 THEN UNCHANGED mishaps ELSE Mishap
           /\ Called([op |-> "new", got |-> -1])
           /\ UNCHANGED holds
     /\ UNCHANGED <<file, source>>

Stow(i, row) ==
  LET h == holds[i] IN
  /\ Len(h.rows) < MaxRows
  /\ \/ /\ Called([op |-> "stow", got |-> 1])
        /\ holds' = [holds EXCEPT ![i] = Stowing(h, row)]
        /\ UNCHANGED mishaps
     \/ /\ Full(h) /\ Mishap
        /\ Called([op |-> "stow", got |-> 0])
        /\ UNCHANGED holds
  /\ UNCHANGED <<file, source>>

\* A match that looks at the column before the named one.
MatchesBeside(h, c, value, r) == h.rows[r][IF c = 1 THEN 1 ELSE c - 1] = value

Matches(h, c, value, r) == h.rows[r][c] = value

Room(h) == Len(h.names) * CellBytes + SpareBytes

\* The row as keep hands it to stow: its cells, joined as they are, and cut
\* where the line is full.
Bare(h, r) ==
  LET line == Joined(h.rows[r])
  IN SubSeq(line, 1, IF Len(line) < Room(h) THEN Len(line) ELSE Room(h) - 1)

\* A row of which some cell but the last goes past the line: the size of what
\* is left wraps round, and the next cell is put behind the buffer unless the
\* library refuses a size like that.
Overruns(h, r) == Len(Joined(Front(h.rows[r]))) > Room(h)

\* The texts, stowed one after another.
Stows(h, texts) == FoldLeft(Stowing, h, texts)

\* buraaq_hold_keep: a table of the rows that hold the value in the column.
Keep(i, name, value) ==
  LET h == holds[i]
      c == Col(h, name)
      id == IF c = 0 THEN -1 ELSE Slot
      rows == SelectSeq([r \in 1 .. Len(h.rows) |-> r], LAMBDA r : Matches(h, c, value, r))
      texts == [k \in 1 .. Len(rows) |-> Bare(h, rows[k])]
      Makes(kept, whole) ==
        /\ Called([op |-> "keep", of |-> i, name |-> name, value |-> value,
                   got |-> id, whole |-> whole])
        /\ holds' = [holds EXCEPT ![id] = Stows(FromNames(h.names), kept)]
  IN /\ \/ /\ IF id = -1 THEN UNCHANGED mishaps ELSE Mishap
           /\ Called([op |-> "keep", got |-> -1]) /\ UNCHANGED holds
        \/ /\ id >= 0 /\ \E k \in 1 .. Len(rows) : Overruns(h, rows[k])
           /\ Called([op |-> "overrun", got |-> 0]) /\ UNCHANGED <<holds, mishaps>>
        \/ id >= 0 /\ Makes(texts, TRUE) /\ UNCHANGED mishaps
        \/ id >= 0 /\ Mishap /\ \E k \in 1 .. Len(texts) : Makes(RemoveAt(texts, k), FALSE)
     /\ UNCHANGED <<file, source>>

\* The neighbours that the two loops of order look at, in their order.
Looks(n) == FlattenSeq([i \in 1 .. n |-> [j \in 1 .. n - i |-> j]])

\* An exchange that leaves the other columns where they were.
ExchangedCell(rows, c, j) == [rows EXCEPT ![j][c] = rows[j + 1][c], ![j + 1][c] = rows[j][c]]

Exchanged(rows, c, j) == [rows EXCEPT ![j] = rows[j + 1], ![j + 1] = rows[j]]

\* buraaq_hold_order
Order(i, name) ==
  LET h == holds[i]
      c == Col(h, name)
      Step(rows, j) == IF After(rows[j][c], rows[j + 1][c]) THEN Exchanged(rows, c, j) ELSE rows
  IN /\ IF c = 0 THEN UNCHANGED holds
        ELSE holds' = [holds EXCEPT ![i].rows = FoldLeft(Step, @, Looks(Len(@)))]
     /\ Called([op |-> "order", of |-> i, name |-> name, got |-> IF c = 0 THEN 0 ELSE 1])
     /\ UNCHANGED <<file, mishaps, source>>

\* The text of a table: a line of its names and one of each row.
Text(h) ==
  LET LineOf(cells) == Append(Joined([c \in 1 .. Len(cells) |-> Written(cells[c])]), Line)
  IN FlattenSeq([r \in 1 .. Len(h.rows) + 1 |-> LineOf((<<h.names>> \o h.rows)[r])])

\* buraaq_hold_to_csv, in place.  It returns 1 once the file is open.
ToCsv(i) ==
  LET text == Text(holds[i]) IN
  /\ \/ file' = [there |-> TRUE, text |-> text] /\ source' = holds[i] /\ UNCHANGED mishaps
     \/ /\ Mishap
        /\ \E n \in 0 .. Len(text) - 1 : file' = [there |-> TRUE, text |-> SubSeq(text, 1, n)]
        /\ source' = NoTable
  /\ Called([op |-> "to_csv", got |-> 1])
  /\ UNCHANGED holds

(* buraaq_hold_from_csv: until a line makes a table every line is tried as *)
(* its header, so that the next one names the columns if the memory is     *)
(* short at the first; the others are stowed unless they are empty.  A     *)
(* line break inside quotes ends the line all the same.                    *)
FromCsv ==
  LET lines == Lines(file.text)
      Heads(k) == Slot # -1 /\ Fields(lines[k], MaxCols) # <<>>
      heads == {k \in 1 .. Len(lines) : Heads(k)}
      first == CHOOSE k \in heads : \A j \in heads : k <= j
      later == {k \in heads : k # first}
      Table(k) == FromNames(Fields(lines[k], MaxCols))
      Rest(k) == SelectSeq(SubSeq(lines, k + 1, Len(lines)), LAMBDA l : l # Nothing)
      Makes(k, stowed, whole) ==
        /\ Called([op |-> "from_csv", got |-> Slot, whole |-> whole])
        /\ holds' = [holds EXCEPT ![Slot] = Stows(Table(k), stowed)]
      Fails == Called([op |-> "from_csv", got |-> -1]) /\ UNCHANGED holds
  IN /\ \/ heads = {} /\ Fails /\ UNCHANGED mishaps
        \/ heads # {} /\ Makes(first, Rest(first), TRUE) /\ UNCHANGED mishaps
        \/ /\ heads # {} /\ Mishap
           /\ \/ Fails
              \/ \E k \in later :
                   (\A j \in later : k <= j) /\ Makes(k, Rest(k), FALSE)
              \/ LET rest == Rest(first) IN
                 \E k \in 1 .. Len(rest) :
                   /\ Full(Stows(Table(first), SubSeq(rest, 1, k - 1)))
                   /\ Makes(first, RemoveAt(rest, k), FALSE)
     /\ UNCHANGED <<file, source>>

Next ==
  \/ \E cols \in Headers : New(cols)
  \/ FromCsv
  \/ \E i \in InUse :
       \/ ToCsv(i)
       \/ \E row \in Stowed : Stow(i, row)
       \/ \E name \in ToSet(holds[i].names) \cup Sought :
            Order(i, name) \/ \E value \in Sought : Keep(i, name, value)

Spec == Init /\ [][Next]_vars

-----------------------------------------------------------------------------
(* Properties *)

(* Every row of every table is as long as its header and fits what was     *)
(* allocated, whatever was cut from a line, joined or read back.           *)
(* (buraaq_hold_stow, hold_grow)                                           *)
TypeOK ==
  \A i \in InUse :
    LET h == holds[i] IN
    /\ h.names \in Seq(Seq(Tokens)) /\ Len(h.names) \in 1 .. MaxCols
    /\ Len(h.rows) <= h.cap
    /\ \A r \in 1 .. Len(h.rows) :
         h.rows[r] \in Seq(Seq(Tokens)) /\ Len(h.rows[r]) = Len(h.names)

\* A cell that means itself when it is written with no quotes.
Plain(cell) == cell = Nothing \/ (cell[1] # Blank /\ ToSet(cell) \cap {Comma, Line, Quote} = {})

PlainRow(row) == \A c \in 1 .. Len(row) : Plain(row[c])

\* The rows that the last call of keep was to answer with.
Due ==
  LET h == holds[call.of]
      kept == SelectSeq([r \in 1 .. Len(h.rows) |-> r],
                        LAMBDA r : Pick(h, call.name, r) = call.value)
  IN [k \in 1 .. Len(kept) |-> h.rows[kept[k]]]

Kept == call.op = "keep" /\ call.got >= 0 /\ call.whole

(* keep answers with the rows that hold the value, whole and in their      *)
(* order, when their cells are plain, each row fits the line that keep     *)
(* joins it in, and the memory was enough: joining the cells and parsing   *)
(* the line again changes nothing then. (buraaq_hold_keep)                 *)
KeepFilters ==
  Kept /\ (\A k \in 1 .. Len(Due) :
             PlainRow(Due[k]) /\ Len(Joined(Due[k])) < Room(holds[call.of])) =>
    /\ holds[call.got].names = holds[call.of].names
    /\ holds[call.got].rows = Due

(* order moves whole rows, sorts them and leaves equal ones as they stood, *)
(* where the column holds only numbers or only other texts; with both in   *)
(* it the comparison goes in circles, and the rows are only rearranged.    *)
(* (buraaq_hold_order)                                                     *)
OrderSorts ==
  [][call'.op = "order" /\ call'.got = 1 =>
       LET was == holds[call'.of].rows
           n == Len(was)
           c == Col(holds[call'.of], call'.name)
           OneKind == Cardinality({Numeric(was[r][c]) : r \in 1 .. n}) <= 1
           Behind(r, s) == After(was[r][c], was[s][c])
       IN \E p \in Permutations(1 .. n) :
            /\ holds'[call'.of].rows = [r \in 1 .. n |-> was[p[r]]]
            /\ OneKind => \A r, s \in 1 .. n :
                 r < s => ~Behind(p[r], p[s]) /\ (Behind(p[s], p[r]) \/ p[r] < p[s])]_vars

\* A cell that comes back from a file as it was.
Returns(cell) == Line \notin ToSet(cell) /\ (NeedsQuotes(cell) \/ Plain(cell))

(* A table read back from the file that was written from it is the same    *)
(* table, when no cell holds a line break or begins with a blank, the last *)
(* column has a name, and no row is a single empty cell: commas and quotes *)
(* come through, and empty cells at the end of a row as well.              *)
(* (csv_write_field, buraaq_hold_from_csv)                                 *)
RoundTrip ==
  LET h == source IN
  /\ call.op = "from_csv" /\ call.got >= 0 /\ call.whole /\ h # NoTable
  /\ \A c \in 1 .. Len(h.names) : Returns(h.names[c])
  /\ Last(h.names) # Nothing
  /\ \A r \in 1 .. Len(h.rows) :
       /\ \A c \in 1 .. Len(h.names) : Returns(h.rows[r][c])
       /\ h.rows[r] # <<Nothing>>
  => holds[call.got].names = h.names /\ holds[call.got].rows = h.rows
=============================================================================
