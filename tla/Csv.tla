-------------------------------- MODULE Csv --------------------------------
(***************************************************************************)
(* The texts of stdlib/runtime/buraaq_hold.c: how a line is cut into cells, *)
(* how a cell is written to a file, and how two cells compare.             *)
(*                                                                         *)
(* A text is a sequence of tokens: words, of which no one begins another,  *)
(* and the four marks the code looks for.  A carriage return is taken for  *)
(* the line feed that it ends a line with.  Texts are shorter than the     *)
(* 4096 bytes that a cell is cut at.                                       *)
(***************************************************************************)
EXTENDS Integers, Sequences, SequencesExt

CONSTANTS
  Words,    \* the words of a text
  Value,    \* what strtod makes of the words that are numbers
  Rank      \* tokens in the order of their bytes

Comma == ","
Quote == "\""
Blank == " "
Line == "\n"
Tokens == Words \cup {Comma, Quote, Blank, Line}

ASSUME ValueAssumption == DOMAIN Value \subseteq Words /\ \A w \in DOMAIN Value : Value[w] \in Int
ASSUME RankAssumption == DOMAIN Rank = Tokens /\ \A t \in Tokens : Rank[t] \in Int

Nothing == <<>>     \* the empty text

-----------------------------------------------------------------------------
(* parse_csv_fields, as an automaton over the tokens of the line           *)

Fresh == [fields |-> <<>>, field |-> Nothing, at |-> "fresh"]

Emitted(s, at) == [fields |-> Append(s.fields, s.field), field |-> Nothing, at |-> at]

Taken(s, t, at) == [s EXCEPT !.field = Append(@, t), !.at = at]

\* A comma ends a cell and a line feed ends the line.
Ended(s, t) == Emitted(s, IF t = Line THEN "over" ELSE "comma")

Opened(s, t) ==
  CASE t = Blank -> [s EXCEPT !.at = "blank"]
    [] t = Quote -> [s EXCEPT !.at = "quoted"]
    [] t \in {Comma, Line} -> Ended(s, t)
    [] OTHER -> Taken(s, t, "bare")

\* What follows a closing quote, other than a comma, begins a cell of its own.
Scanned(s, t) ==
  CASE s.at = "over" -> s
    [] s.at = "comma" /\ t = Line -> [s EXCEPT !.at = "over"]
    [] s.at \in {"fresh", "comma", "blank"} -> Opened(s, t)
    [] s.at = "bare" -> IF t \in {Comma, Line} THEN Ended(s, t) ELSE Taken(s, t, "bare")
    [] s.at = "quoted" -> IF t = Quote THEN [s EXCEPT !.at = "closing"] ELSE Taken(s, t, "quoted")
    [] s.at = "closing" -> CASE t = Quote -> Taken(s, t, "quoted")
                             [] t \in {Comma, Line} -> Ended(s, t)
                             [] OTHER -> Opened(Emitted(s, "fresh"), t)

\* The first max cells of a line; a comma at its end, or at a line feed,
\* opens no further one.
Fields(line, max) ==
  LET s == FoldLeft(Scanned, Fresh, line)
      all == IF s.at \in {"fresh", "comma", "over"} THEN s.fields ELSE Emitted(s, "over").fields
  IN SubSeq(all, 1, IF Len(all) < max THEN Len(all) ELSE max)

-----------------------------------------------------------------------------
(* csv_write_field and the line it makes                                   *)

NeedsQuotes(cell) == ToSet(cell) \cap {Comma, Quote, Line} # {}

\* A cell whose own quotes are not doubled.
WrittenOnce(cell) == IF NeedsQuotes(cell) THEN <<Quote>> \o cell \o <<Quote>> ELSE cell

Written(cell) ==
  LET Doubled(text, t) == text \o IF t = Quote THEN <<Quote, Quote>> ELSE <<t>>
  IN IF NeedsQuotes(cell) THEN Append(FoldLeft(Doubled, <<Quote>>, cell), Quote) ELSE cell

\* Texts with a comma between one and the next.
Joined(texts) ==
  FlattenSeq([i \in 1 .. Len(texts) |-> IF i = 1 THEN texts[i] ELSE <<Comma>> \o texts[i]])

\* The lines of a file: an unfinished last one counts, an empty one does not.
Lines(text) ==
  LET Cut(lines, t) == IF t = Line THEN Append(lines, Nothing)
                       ELSE Append(Front(lines), Append(Last(lines), t))
      all == FoldLeft(Cut, <<Nothing>>, text)
  IN IF Last(all) = Nothing THEN Front(all) ELSE all

-----------------------------------------------------------------------------
(* The comparison of buraaq_hold_order                                     *)

\* strtod takes the whole cell, blanks before the number included.
Numeric(cell) ==
  /\ cell # Nothing /\ Last(cell) \in DOMAIN Value
  /\ \A i \in 1 .. Len(cell) - 1 : cell[i] \in {Blank, Line}

\* strcmp(a, b) > 0
TextAfter(a, b) ==
  \E k \in 1 .. Len(a) :
    /\ k <= Len(b) + 1 /\ SubSeq(a, 1, k - 1) = SubSeq(b, 1, k - 1)
    /\ k <= Len(b) => Rank[a[k]] > Rank[b[k]]

\* Two numbers compare as numbers, anything else as text.
After(a, b) ==
  IF Numeric(a) /\ Numeric(b) THEN Value[Last(a)] > Value[Last(b)] ELSE TextAfter(a, b)
=============================================================================
