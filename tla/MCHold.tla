------------------------------- MODULE MCHold -------------------------------
(* Rows whose cells hold numbers, words, commas, quotes, blanks and breaks,*)
(* and one that goes past the line that keep builds.                       *)
EXTENDS Hold, TLC

GivenWords == {"2", "10", "1x"}
GivenValue == ("2" :> 2) @@ ("10" :> 10)
\* Line feed, blank, quote, comma, then the digits: 10 < 1x < 2 as text.
GivenRank == (Line :> 1) @@ (Blank :> 2) @@ (Quote :> 3) @@ (Comma :> 4)
               @@ ("10" :> 5) @@ ("1x" :> 6) @@ ("2" :> 7)

GivenHeaders == {<<"1x", Comma, "2">>, <<"10", Comma, Line>>, Nothing}
GivenStowed ==
  {<<"2", Comma, "10">>, <<"10", Comma, Blank, "1x">>, <<"1x", Comma, "2", Comma, "10">>,
   <<Quote, "2", Comma, "1x", Quote, Comma, Quote, Quote, Quote, "1x", Quote>>,
   <<Quote, "2", Line, "1x", "1x", "1x", Quote>>, <<"10", Comma, Quote, Blank, "2", Quote>>, Nothing}
GivenSought == {<<"2">>, <<"10">>, Nothing}
=============================================================================
