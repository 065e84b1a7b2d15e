------------------------------ MODULE MCStream ------------------------------
(* Two peers, so that one waits in the backlog while the other is served   *)
(* and a late reset can meet the next session.                             *)
EXTENDS Stream, TLC

F(op, body) == [op |-> op, body |-> body]

CONSTANTS p1, p2

\* One frame for every branch of hear, and a peer that only talks.
Sample ==
  (p1 :> {F("text", "fits"), F("text", "empty"), F("text", "over"), 
          F("clip", "edge"), F("ping", "fits")}) @@
  (p2 :> {F("text", "fits")})
=============================================================================
