--------------------------- MODULE MCLengthCache ---------------------------
(* Two slots and three addresses: a table that fills, evicts and meets an  *)
(* address again after a release.  Lengths 0 to 2 give ties and orders.    *)
EXTENDS LengthCache
=============================================================================
